# A formal model of w2l

w2l is a web-to-LLM service: an HTTP API, an MCP server, a CLI and an SDK in
front of an engine that scrapes, crawls and batches pages, watches pages for
changes ("Monitors") and tells receivers of them by webhook. Most of its code
turns one document into another and is well served by tests. What tests reach
badly is the rest: several processes over one control database, several workers
over one queue, processes that die between two writes, answers that come late,
waits that an origin asks for. That rest is what these modules model.

The modules are translated from the TypeScript, action by action;
`PROJECT.json` names, for every definition, the lines it stands for. Paths
below are relative to `src/packages` unless they start with `docs/`.

Contents: [inventory](#1-inventory) · [modules](#2-modules-and-what-they-stand-for) ·
[runs](#3-runs-bounds-and-what-they-show) · [fairness](#4-fairness) ·
[proofs](#5-what-is-proved) · [findings](#6-where-the-code-and-its-documents-part) ·
[limits](#7-what-is-not-modelled) · [plan](#8-plan)

## 1. Inventory

### Parts with state that several actors share

| Part | State | Operations | What is hard | What makes it correct |
|---|---|---|---|---|
| **Webhook delivery** `runtime/src/deliveryStore.ts`, `deliveryWorker.ts` | control database: destinations, one row per (destination, event), attempt history, origin cooldowns, the events' outbox | fan out an event, register and enable a destination, claim under a lease, POST, complete, replay a dead letter | any number of workers and processes; a worker dies after the receiver took the POST; a late answer meets the next lease; Retry-After holds for a whole origin | at least once, never beyond the budget, late answers are booked nowhere, the outbox follows the fan-out, every delivery settles |
| **Monitors** `runtime/src/monitorStore.ts`, `monitorRunner.ts` | the Monitor's row (revision, control epoch, next_run_at), runs, attempts, snapshots with the baseline, events, origin cooldowns | configure, enable or pause, trigger, claim, heartbeat, record, defer, commit, cancel, interrupt | API, CLI and monitor loop claim the same run; pause, revision or cancellation under a working run; process loss; Retry-After | one active run of the current settings, one attempt at work, snapshots of completed runs only, events that tell the baseline's history, no run forgotten |
| **Monitor loop** `mcp/src/managedRuntime.ts` | calls in flight | poll the due Monitors, call the runner, start and stop workers | a Monitor that is due is seen through next_run_at alone | a run that waits is seen in time |
| **Crawl frontier** `runtime/src/frontier.ts` | queue, visited keys, what robots.txt told, last start per host | offer, dequeue, reserve a host slot, learn a Crawl-delay | depends on what concurrent workers told it | no page twice, none lost, Crawl-delay held |
| **Crawl orchestrator** `runtime/src/orchestrator.ts` | run memory: in-flight pages, reservations, seen hashes, abort reasons; rows of task, attempt and steps | run with N workers, poll for cancellation and appended URLs, checkpoint, stop, resume | parked workers, budgets counted over pages still under way, the last write of a run against a cancellation | within the page budget, ends, resumes without losing a link |
| **API engine, job lifecycle** `api/src/engine.ts` | which jobs are in flight in this process | start, cancel, append, resume, relaunch, shut down, take up unfinished jobs at start | an append lands while the run ends; a crash between two of the engine's steps | an accepted URL is fetched, cancelled stays cancelled, a job ends |
| **Job webhooks** `api/src/jobWebhooks.ts` | registrations; the event ids already enqueued (in the delivery store) | enqueue a page's or an end's event, reconcile at start | the process dies between a step and its event | every page and the end are told |
| **Checkpoint stores** `runtime/src/sqliteStore.ts`, `memoryStore.ts` | one database per task | put and get of task, attempt, step; settle an attempt | the only state that survives | (through the parts above) |
| **Origin scheduler** `bench/src/subjects/originScheduler.ts` | per origin: permits out, queue of waiters, timer, last start, last request, cooldown | acquire with abort, beforeRequest, cooldown, release, pump | many fetches wake at the same moment; aborts in the middle of the queue; timer overflow | permits neither lost nor exceeded, starts and requests apart, nobody stranded |
| **Idempotency index** `runtime/src/idempotencyStore.ts` | one row per key, 24 h | claim, record, forget around a submission | claim, creation and record are three steps with a crash between | a retried submission starts one job |
| **Public preview, origin gate** `public-preview/src/amazonGate.ts` | one Firestore document: owner, leaseUntil, nextEligibleAt | acquire, note Retry-After, release by compare-and-swap on updateTime | instances in different machines, lost answers of commits, a lease that runs out under its owner | one capture at a time, no capture inside a wait any owner has written |
| **Public preview, quota** `public-preview/src/quota.ts` | two Firestore counters a day | check, consume by compare-and-swap on both | lost answers, contention | never over the limit, both counters or none, nothing charged but what is captured |
| **Public preview, service** `public-preview/src/server.ts` | what each request's handler holds: its deadline, its lease, its charge | check, acquire, pay, capture, note a wait, release, answer | deadlines, clients that go away, an instance that dies with the lease | every request ends, a busy gate costs no attempt |
| **Job streams and the SDK's watcher** `api/src/jobStream.ts`, `jobEvents.ts`, `sdk/src/watcher.ts` | subscriber's queue and cursor; the watcher's transport, cursor and documents | record and emit, subscribe, replay, go live; fall back from WebSocket to server-sent events to polling | steps recorded between a listing and a subscription, overflow, cuts, restarts, cursors of one millisecond | every document, and an end |
| **Routing ladder** `bench/src/routing/ladder.ts`, `vendorRouter.ts`, `sessionStore.ts` | one run's rungs, attempts and best page; a host's vendor history and saved session on disk | order the rungs, fetch, judge, hand over to a person, answer | each rung may return a page, an empty or contradicted one, a block, a wait, a late one; deadline and cancellation at any moment | the best page is kept, no rung the caller did not permit, the run ends |
| **Session broker** `bench/src/routing/sessionBroker.ts` | file of managed sessions with leases and grants | create, authorise, grant, renew, revoke, release | several processes over one file | a revoked or expired session is not granted |
| **Page cache** `runtime/src/pageCache.ts` | one row per key | lookup within age bounds, store | an older fetch finishing after a newer one | an older result never replaces a newer one (one SQL upsert) |

### Parts without shared state, or outside a model checker's reach

| Part | Why it is not modelled |
|---|---|
| Capture subjects (`bench/src/subjects/*`, `scrapeAtom.ts`) | what one rung does to a page, sequential; the results it may return are inputs of module Ladder |
| HTTP core (`http-core`) | redirects, one retry, robots.txt parsing, gate classification: sequential, pure but for the transport |
| Extraction (`extract-tf`), contracts (`contracts`) | pure functions; types and schemas |
| MCP hosts (`mcp/src/host.ts`, `localHost.ts`, `inFlight.ts`, `tools.ts`) | protocol adapters over the engine; only a table of calls in flight |
| SDK, CLI and the Python client (`sdk`, `cli`, `python/`) | HTTP clients of the API; no state of a job of their own but the SDK's watcher, above |
| Chrome handoff and logins (`api/src/chromeHandoff.ts`, `chromeLogin.ts`) | a person at a browser decides what happens |
| Public preview's `preview.ts`, `waitlist.ts`, `apps/public-web`, `cloudflare/` | request parsing, a page, a mailing list and a proxy around the service |
| Attestation, canary, fixtures, benchmarks, `scripts/`, `research/` | signing, test servers and measuring; not part of the running service |

### How they interact

One control database holds Monitors and deliveries; API, monitor worker and
delivery worker open it from their own processes (`docs/onboarding.md:50`).
`MonitorStore.commit` inserts an event and fans it out to the delivery rows in
one transaction, which is where Monitor and Delivery meet. A job of the API is
a directory of its own with one checkpoint database, worked on by one API
process per task root (`docs/batch-scrape.md:139`), though another process (the
CLI) may cancel it through its rows. The engine launches the orchestrator, the
orchestrator drives the frontier and scrapes through the ladder, every scrape
of the process passes the origin scheduler, and job webhooks feed the same
delivery store. The monitor runner scrapes through the same ladder. A client
watches a job through the stream the engine's hub feeds, and through the job's
listings when the stream is gone. The public preview is a service of its own:
its instances share nothing but three Firestore documents.

## 2. Modules and what they stand for

| Module | Stands for |
|---|---|
| `Delivery` | `deliveryStore.ts`, `deliveryWorker.ts`, the fan-out of `MonitorStore.commit` and `registerDestination` |
| `DeliveryPromise` | no code: what deliveries promise, without leases, tokens, attempts, clock or workers. `Delivery` is checked to implement it |
| `DeliveryProofs` | proofs about `Delivery`: types, leases, budgets, the history, the outbox and Retry-After, and that it implements `DeliveryPromise` |
| `Monitor` | `monitorStore.ts`, `monitorRunner.ts`, the polling of `managedRuntime.ts` |
| `MonitorProofs` | proofs about `Monitor` |
| `Frontier` | `frontier.ts`, as operators on a value |
| `Crawl` | extends `Frontier`: job lifecycle of `engine.ts`, runs of `orchestrator.ts`, events of `jobWebhooks.ts`, rows of the checkpoint store |
| `FrontierProofs` | lemmas: what the frontier's folds, its filter and its queue compute |
| `CrawlProofs` | extends `FrontierProofs`: proofs about `Crawl` |
| `OriginScheduler` | `originScheduler.ts` and its callers' use of it (`resilientHttp.ts`, `browserLocal.ts`) |
| `OriginSchedulerProofs` | proofs about `OriginScheduler` |
| `PublicPreview` | the handler of `POST /api/preview` in `server.ts`, the counters of `quota.ts`, the lease of `amazonGate.ts` |
| `PublicPreviewProofs` | proofs about `PublicPreview` |
| `JobWatch` | `jobStream.ts`, `jobEvents.ts`, the listings of the checkpoint store, `watcher.ts` |
| `JobWatchProofs` | proofs about `JobWatch` |
| `Ladder` | `LadderRunner.run` of `ladder.ts`, the vendors' order and history of `vendorRouter.ts`, the saved session |
| `LadderProofs` | proofs about `Ladder` |
| `MCDelivery`, `MCMonitor`, `MCCrawl`, `MCOriginScheduler`, `MCPublicPreview`, `MCJobWatch`, `MCLadder` | instances for TLC |

**Grain.** Where several processes share a database (Delivery, Monitor) one
action is one `IMMEDIATE` transaction, or one step of a worker between two of
them; a crash may come between any two. Where everything runs on one event loop
(Crawl, OriginScheduler, the stream of JobWatch) one action is what runs between
two turns of the loop. In PublicPreview every read and every commit of a
Firestore document is an action, and a commit may be applied without its answer
coming back; in Ladder an action is what a run does between two awaits on a
rung.
The checkpoint is synchronous SQLite, so awaits on nothing but the checkpoint
are drained before the loop takes a request, a timer or a response; `Drained`
in Crawl says that no such chain is under way, and this process's requests,
timers and the clock wait for it. A crash does not, and another process does
not: either may fall between any two steps of a chain. So where this process
reads the job's row and writes it, or a step of it, later, the read and the
write are two actions, and a cancellation by another process comes between.

**Time.** Delivery, Monitor, OriginScheduler and PublicPreview keep every column or field that
holds a time as what is left of it, never below 0, and `Tick` takes one unit
off each. The code compares these times with now and with each other only, so
this is exact, but for two things named where they matter: the order of rows
already due (Delivery claims any of them, which includes the code's order) and
the exact next_run_at of a Monitor, which spells the key of its scheduled run
(`monitor.spent` and `usedNow` keep what that key needs). Crawl keeps a clock,
bounded by `MaxTime`; JobWatch one that counts only the milliseconds in which a
step is written, since a cursor tells no others apart. In Ladder a deadline may
come at any moment.

### Delivery

| In the model | In the code |
|---|---|
| `row[k]`, `attempts[k]`, `notBefore[o]`, `outbox[e]` | tables webhook_deliveries, delivery_attempts, delivery_origin_cooldowns, monitor_outbox |
| `claim[w]` | the locals of one `processOne` call |
| `accepted[k]` | the receiver: the tokens whose POST it took. A ghost of the outside world: the code sees it through an answer only |
| `Publish`, `SetEnabled` | `commit` with `enqueueEventDeliveries`, `setDestinationEnabled` |
| `RegisterDestination`, `EnqueueHistorical` | `MonitorStore.registerDestination`: the destination's row, and in the same transaction a delivery of every event there is |
| `Claim` | `claim`: exhausted rows met on the way become dead letters, the first other due row is leased under the next fencing token |
| `Receive`, `Finish` | the POST, and `complete` guarded by state, token and lease |
| `ReplayDeadLetter` | `replayDeadLetter`: one attempt more, not before the origin's cooldown |
| `Crash`, `Tick` | the process, the clock |

A transport may lose either direction: `Receive` may or may not come before
`Finish(w, "failed", 0)`. `Possible` is what couples answers to the receiver:
an "ok" needs the POST taken, a refusal needs it not taken, a failure is
possible either way.

### Monitor

One Monitor, since rows of different Monitors meet only in the origin's
cooldown, which `CoolOrigin` stands for. `runner[p]` holds the locals of one
`runConfiguredMonitor` call: the revision it was called with, the run and token
it claimed, its abort reason and its finding. `Call` is the check of the
revision (`monitorRunner.ts:37`), `Claim` the claim (`:41`, another
transaction), and `Postpone`, `Recover`, `StartWaiting`, `StartRunning` the four
branches of `startRun`. `Record`, `Defer` and `Commit` follow; `GiveUp` and
`Fail` are the ways out of the runner's `catch`. A page is the pair of what the
assessment extracts (`fields`) and the hash of its bytes (`source`, which may be
unknown); `RulesOf` and `VersionOf` separate a revision's rules from the name
of its rule version.

### Frontier and Crawl

`Frontier` has one operator per method: `Offer`, `OfferAll`, `SeedBatchUrls`,
`SetCrawlDelay`, and `Dequeue`, which returns the item, whether the budget
refused one on the way, the time the next delay ends, and the frontier left.
What canonicalization and the scope, subtree, asset and path filters decide is
in the constants `KeyOf` and `Links`. `Crawl` is one job:

| In the model | In the code |
|---|---|
| `task`, `attempts`, `steps` | the rows of the task's database |
| `events` | the event ids enqueued in the delivery store |
| `process`, `run`, `frontier`, `worker` | memory of the API process; gone in a crash |
| `run.phase`, `run.next` | how far a launch has come, and the status it has decided on and not yet written |
| `Open`, `RefuseToOpen`, `OpenTask`, `OpenAttempt` | `openRun` and the head of `run`: the row is read, written as running, open attempts are interrupted, and a new one gets the frontier restored from the steps; a row found cancelled ends the launch in its `catch` |
| `TakePage`, `WaitForHost`, `Park`, `Leave`, `Quit`, `NoticeCancel` | the turns of a worker's loop |
| `Answer` | the end of a scrape: content, a failure, a throw or a result of the cache, what it tells of robots.txt, and the look at the row after it |
| `Record`, `Settle`, `StepFails` | the step's row, then counters, event and wake-up; or the refused write |
| `Poll`, `TimeUp` | the 100 ms poll of the row; the wall-time budget |
| `Decide`, `Finish`, `EndJob`, `Relaunch` | the end of a run: the row is read and the attempt written, the row is written, and the engine's `then` |
| `AskToAppend`, `AskToResume`, `AnswerRequest` | an append or a resume reads the row and decides, then writes it and launches the job if nobody works on it |
| `Cancel(TRUE)`, `Cancel(FALSE)` | a cancellation through this API process, or by another process through the rows |
| `Shutdown`, `Exit`, `Crash`, `Restart` | `close`, the process's end, its loss, and the resumption at start |

`Answer`, `Record` and `Settle` are three actions because other workers, another
process's cancellation and a crash come between the look at the row, the step's
row and its event; `Decide` and `Finish`, `Open` and `OpenTask`, and a request
and its answer are apart for the same reason. Only this process appends, and a
cancellation changes the status alone, so a write made from an older read is
modelled by the status it brings back.

What an answer tells of the Crawl-delay comes from its trace: nothing if the page
threw, and perhaps nothing if it failed before its robots.txt was read or if a
vendor fetched it (`Tells`). Both count as robots.txt without a delay, which
`setCrawlDelay` notes without taking back what it knew. `run.told`, the hosts
whose delay an answer has told, is a ghost.

### OriginScheduler

One origin, since the class keeps its origins apart. A fetch is `idle`,
`waiting` for a permit, `ready` to ask, `sleeping` in `beforeRequest` or
`requesting`. Every method that ends with `pump` is one step with it: `Pump(o,
fs)` takes the origin as the method left it and gives the permits there are.
`Redirected` is a fetch that asks this origin without one of its permits: a
redirect to another origin passes that origin's `beforeRequest` but keeps the
permit of the first. `TimerOf` is `setTimeout`'s own behaviour on a delay over
2^31-1 ms, which fires after one: waiters are looked at early and held again.

### PublicPreview

| In the model | In the code |
|---|---|
| `gate`, `site`, `used` | the gate's document and the two counters of the day, as Firestore holds them |
| `fresh` | the requests whose read of the gate is still its latest version: the precondition on `updateTime` |
| `req[r]` | one handler: its stage, the time left to its deadline, the counters it read, its lease and what it has to note |
| `Check`, `GateRead`, `GateClaim`, `GateBusy`, `GateConflict` | `quota.check` and `acquire`, with its poll of a gate that is busy |
| `ReadSite`, `ReadVisitor`, `Charge`, `Contended` | `consume`: two reads, one commit over both, tried again when either has moved |
| `ObserveRetryAfter`, `NoteRead`, `NoteCommit` | `noteRetryAfter` through `updateOwned`, beside the capture |
| `ReleaseRead`, `ReleaseCommit`, `ReleaseFails` | the `finally` block: the lease given back with the longer of the spacing and the wait |
| `GateClaim(r, FALSE)`, `Charge(r, FALSE)` | a commit that is applied and whose answer is lost |
| `Throw`, `Abandon`, `Crash` | a failing call or a client that goes away, the deadline, the instance's end |

`charge`, `captured` and `quiet` are ghosts: what was paid, what was captured,
and the longest wait written to the document that is not over.

### JobWatch

`job`, `steps` and `pending` are the API process: a step is written (`Record`)
and handed to the hub later (`Emit`), in order. `stream` is one run of the
generator `jobStream`, `wire` the frames under way to the client, `watch` the
SDK's watcher with its transport, its cursor and the documents it was given. A
cut loses any suffix of the wire. Ids are numbers, given to steps in any order:
they are random in the code and only compared. `Listed` is the one difference
between the routes: a crawl's listings show its latest attempt, a batch's and a
stream's show all.

### Ladder

`setting` fixes who is asking: the API (deadlines, cancellation, `waitFor`,
robots overrides; a session store it only reads, nobody at the screen) or the
command line (none of these; it writes the store, and a person may be there).
A rung's result is a record of what the run asks about it: page, block or
failure, its size, whether it is thin, contradicted, kept as evidence, asks to
wait, is a login page, offers a live view. `Results(c)` says which of them rung
`c` can return. The `Return...` actions are the branches of the loop's body, in
the order in which the code tests them. `history` and `saved` are on disk and
outlive a run; the ranking of vendors by score is any permutation.

## 3. Runs, bounds and what they show

Twelve runs. State counts are of TLC's complete searches.

| Run | Instance | Properties | Distinct states, depth |
|---|---|---|---|
| `delivery` | two destinations of one origin, one event, two workers, three attempts, one replay, waits of 0 to 2 ticks, lease of 2; `Scope` | `TypeOK`, `LeaseIsTheOpenAttempt`, `DeliveredWasAccepted`, `OutboxFollowsFanout`, `RetryAfterHonoured`, `KeepsPromise`, `EveryDeliverySettles` | 45,706, 27 |
| `monitor` | two callers, one a monitor loop, three runs, two attempts each, three control epochs, two revisions, two readings of two pages, crashes, aborts; `Scope` | `TypeOK`, `ActiveRunIsCurrent`, `OneAttemptAtWork`, `SnapshotsAreOfCompletedRuns`, `EventsTellTheChanges` | 1,814,392, 28 |
| `monitor_progress` | one run, cooldowns, two caller deadlines, shutdowns, under fairness | `SchedulerSeesTheRun`, `NoRunIsForgotten` | 140,437, 26 |
| `monitor_revision_race` | one caller, two revisions of one rule version | `RunnerHoldsItsRevision` (violated) | trace of 6 |
| `crawl_site` | six URLs on two hosts, one with a Crawl-delay, two workers (symmetric), a budget of three pages, one stop, one resume; pages are read, fail, throw or come from the cache | `TypeOK`, `PagesWithinBudget`, `NoPageTwice`, `CrawlLeavesNoLink`, `CrawlDelayHeld` | 394,628, 56 |
| `batch_life` | a batch of two URLs and an appended one, two workers, one stop, one failed write, one cancellation by either process, time budget, under fairness | `WebhookIsTold`, `RunLeavesNoUrl`, `CancelIsFinal`, `JobEnds` | 174,110, 47 |
| `origin_permits` | three fetches, two permits, a delay between starts, Retry-After of 0, 1 and 3, `setTimeout` up to 2 | all five of OriginScheduler | 14,189, 18 |
| `public_preview` | a visitor and the owner at the gated origin and a visitor elsewhere, one preview left on the site and each visitor, a deadline of 2 ticks, a lease of 3, a wait of 3 | `TypeOK`, `EveryCaptureIsPaid`, `OneCaptureAtTheOrigin`, `CooldownOutlivesTheLease`, `EveryRequestEnds` | 206,643, 31 |
| `job_watch` | a crawl, or a batch without a restart, of three steps in two milliseconds; one restart, a replay page of one, a queue of two, a wire of one frame | `TypeOK`, `DocumentsComplete`, `WatchEnds` | 618,620, 36 |
| `job_watch_ties` | a batch with two steps in one millisecond | `EveryDocument` (violated) | trace of 10 |
| `ladder` | two runs of one host in each mode and by each client, two vendors, pages of three sizes | `TypeOK`, `BestPageIsKept`, `RungsAsPermitted`, `RunEnds` | 279,516, 26 |
| `ladder_late_login` | one run | `LoginPageIsNotContent` (violated) | trace of 4 |

**Why these bounds.**

- *Delivery.* A fencing error needs a worker that lost its lease and one that
  took over: two workers, one row, three attempts, so that a late answer meets
  both a live lease and a row waiting again. Fan-out needs an event with two
  rows and a destination that comes late. Backoff doubles up to a cap that is
  reached. `RetryAfters` holds no wait, a short one and a longer one. `Scope`
  searches the whole budget of one destination, and both destinations as long as
  each delivery has had one attempt (one more per replay).
- *Monitor.* Takeover needs two callers and two attempts; a Monitor that is
  paused under a working run and resumed needs two epochs more than its first; deadlines on
  both sides of the lease let each run out first. A third run and a second
  revision are what an event after a change of rules and one after that need.
  `monitor_progress` has the waits and the fairness. In `monitor`, `Scope` lets
  two callers race over two runs that find one thing, and leaves a second
  revision, a third run and other findings to one caller at one attempt a run:
  what the events tell depends on the order of snapshots, which the races over a
  run do not change.
- *Crawl.* The site has what a crawl can trip over: a page reached by two ways,
  a link back, two URLs that are one page (`c`, `cc`), two pages with one body
  (`a`, `d`), a link below the depth, a host with a Crawl-delay and one without,
  and more pages than the budget. Two workers suffice for every race of the
  loop, since a third only repeats the second's role in parking and waking.
  The batch has an append after and during every phase of a run, including the
  one between the workers' last look and the final write, and a cancellation
  by another process between any read of the row and its write. What a page
  comes to has no bearing on the batch's properties (it has no links, and keeps
  every copy), so its pages throw; `crawl_site` has all four outcomes, and no
  cancellation, which its properties do not speak of.
- *OriginScheduler.* Three fetches and two permits leave one waiting; waits of
  0, 1 and 3 lie below, at and above the delay and the longest timer.
- *PublicPreview.* Two requests contend for the gate and two for the last slot,
  one of them for both; the owner's spends nothing, so that a gate which is
  passed unpaid is there too. A wait as long as the lease outlives its writer.
  The deadline is shorter than the lease, as in the code (60 s and 90 s), which
  is the assumption `LeaseOutlivesDeadline`. Two tries of a commit show every
  way in which a third could go.
- *JobWatch.* Three steps are one more than a page of the replay, one more than
  the queue takes beside the end, and enough for two in one millisecond and one
  after. One restart gives a crawl a second attempt; `Scope` keeps the process of
  a batch up, whose routes list every attempt as the stream of a crawl does, and
  cuts off what happens after the watch's end, which no property is about.
- *Ladder.* The second run meets the history and the session of the first. Three
  sizes: an empty page, and two that are better and worse. Two vendors are what
  giving way needs.

**Bounds in guards**, each a named constant: `MaxReplays` (Delivery); `MaxRuns`,
`MaxAttempts`, `MaxEpoch`, `MaxRevision` (Monitor); `MaxTime`, `MaxStops`,
`MaxResumes`, `MaxFaults` (Crawl); `MaxClock`, `MaxStarts`, `WireLimit`
(JobWatch); `MaxRuns`, `MaxSize` (Ladder); `QuotaAttempts` is the code's six,
made smaller, and the limits of JobWatch's pages and queue are the code's
constants made small. `Scope` (MCDelivery, MCMonitor, MCJobWatch) and
`Watching` (`job_watch_ties`) are state constraints of the runs. `MaxAttempts` of Delivery is no bound but the
destination's own setting. `NoRunIsForgotten` lets a run rest once its attempts
are used up: the bound is the model's, not the code's. The runs of Crawl,
JobWatch and Ladder use `CHECK_DEADLOCK FALSE` for the reason that a job, a
watch and a run end. The others never stop (an operator, a caller or a fetch can always act), and
deadlock is checked.

**What each property guards against** is in the comment above it and, listed
the other way round, under "hazards" in `PROJECT.json`: each hazard at its line
with the properties that would catch it, or why none does. For every property a
mutant of a mapped definition is recorded (a dropped guard, a missing reset, an
unfenced write) under which the same run finds the property violated.

`KeepsPromise` is a refinement: under the mapping `Promise`, with open for
pending or delivering, every behaviour of Delivery is one of
`DeliveryPromise!Spec`. There a delivery ends delivered only if it was heard, a
delivered one is never opened again, a dead one is opened one at a time, and an
event is acknowledged in the step in which the last of its deliveries is
delivered.

## 4. Fairness

- *Delivery.* `run()` of the worker polls for as long as the worker lives and a
  request timer ends each call: weak fairness of `Claim(w)` and of finishing
  with some answer. The clock ticks. Nobody is obliged to enable a destination,
  to replay, to crash or to accept, so `EveryDeliverySettles` says delivered
  *or* dead, or a disabled destination.
- *Monitor.* The loop of the managed service polls (`Call(p, "due")` for
  `Pollers`), and a call that was made goes on and returns, by its deadline at
  the latest. A caller that is not a loop owes no call. `NoRunIsForgotten`
  assumes that the origin stops asking for waits: `<>[](cooldown = 0)`.
- *Crawl.* A scrape ends, since it has a deadline; the event loop runs what is
  ready; the poll's timer fires; a stopped process is started again by its
  operator. Cancelling, appending, failing and crashing are owed by nobody.
  Stops are bounded by `MaxStops`, so that `JobEnds` is about a service that is
  up in the end.
- *OriginScheduler.* Every fetch has a deadline and releases in a `finally`
  (`resilientHttp.ts:180-184`); a timer that is due fires; time passes.
  `beforeRequest` keeps no order among sleepers, so no liveness of a single
  request is stated; `EveryWaiterIsServed` is about permits, and assumes that
  the origin stops asking for waits.

- *PublicPreview.* A handler goes on with what it has to do (`Work(r)`), by the
  deadline at the latest, and the clock ticks. No call is owed an answer: a lost
  commit, a failing one and the end of an instance are `Trouble(r)`, which
  nothing obliges and nothing excludes.
- *JobWatch.* The process hands on what it wrote, is started again when it died,
  the stream and the watcher do what they can. A connection may be cut at any
  time, and a poll may fail: the watcher counts failures in a row and gives up.
- *Ladder.* A rung returns, since each bounds its own fetch, and the loop goes on
  (`Step`). A person, a caller that cancels and a deadline owe nothing, so
  `RunEnds` lets a run wait for a person for ever, as the code does.

## 5. What is proved

Forty-four theorems, each for every value of the constants that satisfies the
named assumptions: any number of workers, runs, pages, requests, vendors or
restarts, and any waits. Every safety property that a passing run checks is among
them, and some that no run states, which are said so below. What a theorem says is listed under "theorems" in
`PROJECT.json`; this section is about why it holds.

Each proof has the same shape. A property is seldom inductive, so it gets an
invariant `IInv` of named parts; a lemma for each action says that the action keeps it; the theorem combines them
with temporal logic. What several actions do alike (store a row, end a run, let
a worker go) is a lemma about that, and the actions are shown to be of that
kind.

**Assumptions.** They are what the code validates or takes for granted, named in
the module that declares the constants, and evaluated by TLC in every run.
Budgets and leases are positive (attempts from 1 to 100); fetches, requests and
workers are finite, and a crawl has one worker at least; the frontier's tables
are defined for every URL; a batch has no depth (`MaxDepth = 0`); the values
that stand for nothing (`None`, `NoTimer`) are no members of what they are told
apart from; `LeaseOutlivesDeadline` (60 s against 90 s in the public preview); and
in Ladder each vendor has one rung (`ladderCli.ts:462-468`), which is not a local
one.

### Delivery (`DeliveryProofs`)

`TypeCorrect`, `LeaseSafety`, `BudgetSafety` and `DeliveredSafety` state
`TypeOK`, `LeaseIsTheOpenAttempt`, `WithinBudget` and `DeliveredWasAccepted`
(no run states `WithinBudget`, which is proved only). They follow from one inductive invariant, `IInv`, which adds
two facts to the four:

- `RowInv`: a row's attempt count is its fencing token; a row that does not
  exist has none, a leased one has some; each replay adds at most one to the
  budget. Without it an answer's effect on the history (indexed by token) could
  not be compared with the budget (compared by count).
- `HolderInv`: what a worker holds was once granted, and is the row's present
  count and budget as long as its token is the row's. This is why a late answer
  may be judged by what the worker read when it claimed: `complete` compares the
  worker's copies, not the row, with the budget.

There is one lemma per action; the claim has one per kind of row it touches
(leased, given up, left alone).

The second half of the module adds the fan-out. `FanoutSafety` is `OutboxFollowsFanout`,
inductive together with `IInv` (`FanoutInv`): that every registered destination
has a row of every event lasts only if the outbox is compared with the rows in
the step that closes one, and the other way round. `PromiseKept` is the
refinement `KeepsPromise`, step by step: the initial states are the promise's,
and each action maps to a step of it (`Offer`, `Hear`, `Deliver`, `GiveUp`,
`Reopen`) or to a stutter. A claim may give many rows up at once; a finish that
delivers must have been heard, which is `DeliveredWasAccepted`'s reason, and
must acknowledge the event exactly when the promise does, which is
`OutboxFollowsFanout`. `RetryAfterSafety` is the action property `RetryAfterHonoured`.

Three more say what no run states. `HistorySafety` (`HistoryIsFinal`) is about
every step: an attempt that is closed is never rewritten, the open one is closed
by the worker that made it, under its lease, or as `lease_expired` once the
lease is over; what is delivered stays so, and a dead letter comes back by a
replay alone. `HolderSafety` and `PostSafety` need an invariant beside `IInv`,
`PostInv`: no two workers hold one attempt, since a claim grants a token that
none was granted before, and a receiver has taken POSTs only under tokens that
were granted. With `WithinBudget` the second bounds the duplicates of
at-least-once delivery: no receiver takes a delivery under more tokens than
its budget and its replays allow, though a worker whose lease ran out may still
be posting (`PostsWithinBudget`).

### Monitor (`MonitorProofs`)

`MonitorTypeCorrect`, `CurrencySafety`, `FencingSafety`, `SnapshotSafety`,
`EventSafety` and `ScheduleSafety` state the six invariants of the two runs, and
`Settlement` and `CooldownSafety` two properties of steps that no run states: a
run that ended and an attempt that is closed are never rewritten, and no attempt
begins while the origin cools down, whichever way the run comes to it. The
invariant has four parts:

- `RunsInv`: at most one run is active, and its epoch, revision and expected
  baseline are the Monitor's. This is what makes a commit need no comparison
  with a baseline that has moved.
- `AttemptsInv`: of a run's attempts the last alone may be open, exactly while the
  run is running, and their tokens increase. Fencing rests on it: a runner whose
  token is the run's token holds the last attempt.
- `HistoryPart`: a snapshot is of a run that completed, the only one of its run
  and made by the attempt that completed it, it was set against the snapshot
  before it, and the events are the changes of the baseline; each needs the
  other, since a commit reads the baseline's snapshot to tell whether there is a
  change. Nothing is said of the rules a page was read under: `Call` checks the
  revision before the claim, and `monitor_revision_race` shows what slips in.
- `FoundInv`: what a runner is about to commit has been assessed.

A step that writes runs is shown to be a change of one run (`Close`, take up,
start) first, and to be harmless to the others then.

### Crawl (`FrontierProofs`, `CrawlProofs`)

`Frontier` is written with folds of the community modules, which are recursive
functions. The library's induction takes the predicate as an operator, which no
prover at hand can instantiate; `FrontierProofs` has a set in its place (a
set of numbers with zero and every successor is all of them, since one that is
not empty has a least), and proves by it that a fold runs through one frontier
per element (`FoldsTo`), that the filter keeps what passes (`Picks`), that a
frontier never queues a key twice or one that is taken (`Clean`), that offers
only add (`Extends`), and what `dequeue` takes and leaves (`Dequeued`).

`CrawlProofs` has `Shape`, `MemoryInv` and `StepsInv` as `IInv`; the further
parts stand on it, one for each theorem:

- `CrawlTypeCorrect` is `TypeOK`, whose last line (two workers never hold one
  page) is the reason that `PagesInv` must be there: each page of a run is queued,
  held by one worker or done.
- `PageSafety` is `NoPageTwice`. A batch needs `BatchInv` too: only the first
  URL of each page is queued, and what the run fed it remembers, so that
  an append cannot queue a page again under another spelling.
- `CancelSafety` is the action property `CancelIsFinal`. A write that was decided
  before the cancellation came (`UnawareOfRow`, `UnawareOfPage`,
  `UnawareOfAttempt`) is not stopped by it, and may undo it, section 6; every
  other write leaves a cancelled row, its pages and its attempts alone, and no
  step decides on such a write while the row says cancelled. One lemma sorts the
  steps by what they touch, `NextInv` says what a decided write may bring.
- `HandoverSafety` is `RunLeavesNoUrl`; it counts: as many rows as URLs, no row for
  a URL that was not given, so every URL has its row.
- `WebhookSafety` is `WebhookIsTold`, from `EventsInv`: the process being up, a
  page without an event is one that a worker has recorded and not settled.
- `BudgetSafety` is `PagesWithinBudget`, from `BudgetInv`: the budget is compared
  with what the run remembers and the pages under way, which together cover the
  rows, whichever worker records first.
- `DelaySafety` is `CrawlDelayHeld`, from `DelayInv`: a delay that was told in this
  attempt is not taken back, whatever later pages throw, fail, leave untold or
  take from the cache. Nothing is promised before the first answer that tells
  it, which is the hazard at `orchestrator.ts:341`.
- `LinkSafety` is `CrawlLeavesNoLink`, from `LinksInv`: as long as no budget cuts
  the run, what the frontier remembers is queued, under way or done, and it
  remembers what every recorded page owes. A worker that leaves has seen the queue
  empty and nobody at work, so that the run ends with nothing owed; a resumed
  run remembers what the rows owe before any worker starts.

### Origin scheduler (`OriginSchedulerProofs`)

`SchedulerTypeCorrect`, `PermitSafety` and `NoWaiterStranded` state `TypeOK`,
`PermitsAreCounted` and `NobodyIsStranded`. Every method ends with `pump`, so the
proof is about the states before it, which are no states of the specification: `Typed`
and `Counted` are predicates of an origin and its fetches, each method is shown
to leave them true, and one lemma, `PumpKeeps`, shows that `pump` keeps them
and makes `Woken` true whatever was there. That lemma rests on
`AdmittedHolders`: the waiters admitted are as many as the permits given,
because each waits once, which is the part of `Counted` that makes the count
inductive.

`SpacingSafety` is the action property `StartsAreSpaced`, along the same lines:
whom `pump` admits has no wait left and, where there is a delay, is alone
(`AdmittedInTime`); what a method does before it shortens neither the delay nor
the cooldown; and the steps without a pump give no permit.

`OrderSafety` (`ServedInOrder`, stated by no run) says that nobody is overtaken:
a fetch that waits keeps its place before those behind it and those to come, and
none of them gets a permit while it still waits. `pump` serves from the head
(`PumpInOrder`); what a method does before it only takes fetches out of the
queue or puts one at its end (`Prepared`, one lemma per method), so that an abort
in the middle moves nobody past another.

### Public preview (`PublicPreviewProofs`)

`TypeCorrect`, `QuotaSafety`, `GateSafety` and `CooldownSafety` state `TypeOK`,
`EveryCaptureIsPaid`, `OneCaptureAtTheOrigin` and `CooldownOutlivesTheLease`.
`IInv` adds to the types:

- `HandlersSound`: what a handler's record says of itself at its stage, above all
  that the counters it has read were below their limits.
- `CountersAgree`: each counter is the number of charges booked on it, those included whose
  answer was lost. A commit is conditional on both reads, so what was below
  its limit when it was read still is.
- `GateInv`: a read of the gate that is fresh says what the gate says
  (`ReadsHold`); a handler that may go on to a capture owns the gate, under a
  lease longer than its deadline (`PermitsHold`, from `LeaseOutlivesDeadline`); and the document has
  a wait at least as long as any that was written and is not over.

Two owners would need one gate to name both, which is all that `GateSafety`
takes.

Two theorems about steps, stated by no run. `GateWriteSafety`
(`GateIsTheOwners`): a lease that is not over is given up by its owner's release
alone, and no write of the gate, made from whatever read, shortens a wait or an
owner's lease; it needs `ReadsHold`, since each write is made from a read and
committed only if the read still stands. `ChargeSafety` (`ChargesAreFinal`): the
two counters are raised together, by one, for one request that was not charged,
and a charge is never booked twice, moved or taken back, whether its answer
arrives or is lost.

### Job watch (`JobWatchProofs`)

`WatchTypeCorrect`, `CompletenessSafety` and `EveryDocumentUntied`. The first two
state `TypeOK` and `DocumentsComplete`.

A document goes from the table to the hub's pending events, the subscriber's
queue or a page of the replay, the wire, and the watcher; a cut, a crash or an
overflow may end the way anywhere, and the next connection starts from the
watcher's cursor. The invariant follows this chain (`WireWhole`, `CursorWhole`,
`ReplayWhole`, `QueueWhole`): whoever takes the frames of a place in order
lacks, after each, no step before that one (`InLine`), and nobody lacks a
step before a cursor (`Past`), of the steps that are not overtaken (`Firm`).

- The table is written in the order of the clock, so a step that is not overtaken
  comes after every step before it; a page takes the steps after a cursor by
  their rank, and leaves none out in between.
- The listener is subscribed before anything is read, so once the last page is
  read every step is given, under way, in the page, in the queue or pending
  (`QueueWhole`), unless the subscriber remembers an overflow, after which the
  watch does not end well.
- The end is told behind the steps and of a job that has ended (`EndTrue`): pending
  has it last, and a stream that opened on an ended job finds every step in its
  pages.
- A poll's listings go on from the cursor of the last stream (`PollWhole`), and in
  the poll that ends a watch both are read to their ends after the report
  (`FirstWhole`: the first is whole when the second is read).

`EveryDocumentUntied` turns the second finding of section 6 round: as long as no
two steps are of one millisecond, a watch of a batch that is told the end has
exactly the documents that were recorded. So ties are the only way to lose one.

### Ladder (`LadderProofs`)

`LadderTypeCorrect`, `AnswerSafety` and `RungSafety` state `TypeOK`,
`BestPageIsKept` and `RungsAsPermitted`; `RungOnceSafety` states `EachRungOnce`,
which no run does. While a run is live the invariant has
four parts more:

- `Tracked`: the run's best page is the first of the largest of its attempts that stand.
  The code finds it attempt by attempt (`BestNext`), and once more from all
  attempts in `deadlineOutcome`, a recursive function; that both find the same
  page is `LateBestIs`.
- `Unrefused`: no attempt of a run that goes on was refused its login.
- `InOrder`: the vendors come last, none is tried while a local rung is left,
  and the one to avoid has another before it, tried or to be tried. The third
  needs the order that `orderProviders` makes (`OrderedIs`), with its splices.
- `AtWork`: a rung is at work where one has to be, and the person who is asked
  unblocks the rung whose block was reported last, so that its retry is the one
  attempt more than there are rungs.

`EachRungOnce` says that no rung is tried twice in a run but the one a person
has unblocked, and that one again at once. Its invariant, `OnceInv`, stands beside
`IInv`: the rungs left are distinct and none of them was tried, but for the one a
person is asked for. It begins with the order of the rungs, whose splices repeat
none (`OrderIs`, `OrderedIs`).

### Not proved

All liveness is model-checked only (`EveryDeliverySettles`, `NoRunIsForgotten`,
`JobEnds`, `EveryWaiterIsServed`, `EveryRequestEnds`, `WatchEnds`, `RunEnds`): it
rests on fairness, and so on ENABLED, which is out of the prover's reach.

The three properties of section 6 are false of the code, and so of the model.
The lengths of sequences, the bounds of quantities and the finiteness of sets
are proved where a theorem needs them; what the constants stand for (which keys
the canonicalization makes of URLs, which results a rung may return) is outside
the theorems as it is outside the runs.

## 6. Where the code and its documents part

Three runs show a behaviour of the code that a document, a comment or an
assertion rules out.

1. `monitor_revision_race`. The runner compares its revision with the Monitor's
   and claims in another transaction (`monitorRunner.ts:37`, `:41`). A revision
   committed in between is claimed with the old one's rules; the check by name
   of rule version in `recordObservation` lets two revisions of one name pass.
2. `job_watch_ties`. A cursor is a millisecond and a random id, and a listing
   resumes strictly after it (`sqliteStore.ts:360`). A step recorded later in the
   same millisecond under a smaller id lies behind the cursor, and no
   reconnection or poll lists it, though the watcher's doc says that `data`
   accumulates every document. `DocumentsComplete` says what does hold.
3. `ladder_late_login`. The result of a rung that the deadline cut is answered
   before `sessionRejection` looks at it (`ladder.ts:438`, `:446`). A saved login
   that has expired is sent to the login page; when the deadline cuts the wait
   short there, that page is answered as partial content of the page asked for.

The modules also contain these, which no run states at present:

- `Monitor`: the key of a scheduled run is spelled with next_run_at
  (`monitorStore.ts:213`). A run claimed at its due time, then a pause and a
  resume within the same millisecond, gives the next run the key of the
  cancelled one: `startRun` returns that for ever and next_run_at never moves.
  `spent` and `usedNow` are that key.
- `Crawl`: URLs appended as a run ends are fetched by a relaunch that the same
  process makes after the final write (`engine.ts:974`). A crash between the two
  leaves a completed row, which start-up does not take up, though
  `docs/batch-scrape.md:90` says that such URLs are fetched. `RunLeavesNoUrl` is
  what does hold: no run hands the batch over with such a URL.
- `Frontier`, `Crawl`: a page whose answer has no `robots_checked` event (it threw,
  or failed before its robots.txt was read) is recorded as if robots.txt had been
  reported without a Crawl-delay (`scrapeAtom.ts:14-15`, `orchestrator.ts:341`). If
  it is a host's first page, the next ones start at once and several at a time,
  against `frontier.ts:5-8` ("so a Crawl-delay holds from its second request
  on"). `CrawlDelayHeld` is what does hold: from the first answer that tells it.
- `Crawl`: a cancellation that another process writes between this one's read of
  the row and its write is overwritten: by `running` as a run opens
  (`orchestrator.ts:473-478`, `:485-490`), by the outcome as it ends (`:443`,
  `:461-462`), by an append (`engine.ts:1602`, `:1627`) or a resume (`:1446`,
  `:1452`); a page whose row was looked at before (`orchestrator.ts:347`) is still
  recorded (`:382`). Yet the poll's comment says that such a cancellation "must
  reach an in-flight request" (`:263-264`), and the guide that a cancel
  "cancels unfinished work" (`docs/batch-scrape.md:39`). The caller was told
  `cancelled`, its webhook too, and the job ends as something else.
  `CancelIsFinal` has each of these writes as its exception and says that there is
  no other.
- `Ladder`: a later rung's wait is answered in place of a better page kept from
  an earlier one (`ladder.ts:442`; `LastWord` says so); the vendor a person
  unblocked is not entered in the history again when its retry returns (`:452`);
  the vendors after the first keep their declaration order, where `:262-264`
  speaks of a ranking.

## 7. What is not modelled

Within the modelled parts:

- *Delivery*: `enqueue` of a ready-made payload (`deliveryStore.ts:218`)
  inserts the same row as the fan-out; TLS, DNS pinning, signing and redirects
  are an answer of the receiver. Ids, secrets and payloads have no bearing on
  the order of things.
- *Monitor*: `acknowledge` (`monitorStore.ts:487`), the receipt of a commit that
  is answered twice (`:351-355`), the representation cache of conditional
  requests, views and listings.
- *Frontier and Crawl*: sitemaps, a seed's redirect, what the filters decide
  (constants `Links`, `KeyOf`), budgets of money and tokens and their meters,
  the discovery counters, look-ahead of pages; of a worker's writes only the
  step's may fail, and the writes at the end of a run do not, nor those of
  `markCrawlFailed`; the attempts that a launch interrupts are written in one
  step with the row. Another process's own `cancelCrawl`, which reads the row and
  writes it at once, is one step (`Cancel(FALSE)`): what it could overwrite is a
  status or an append that this process writes in between. `NoPageTwice` is per
  attempt for a crawl: a resumed crawl asks again for its pages by design.
- *Job webhooks*: sequence numbers, the filter of event kinds, registration.
- *Public preview*: the turn of the day, a skew between the instances' clocks,
  the bound of eight on `updateOwned`'s tries, a commit that is applied only
  after its caller has been told of a failure, more than one Retry-After of one
  capture, `/api/quota` and its cache, the waitlist.
- *JobWatch*: the watcher's own timeout and `close`, requests refused with 401 or
  404, the catch-up and snapshot frames (they carry no document), the sharing of
  report reads between streams, a job that is appended to or resumed after its
  end, a cancellation by another process.
- *Ladder*: scores of vendors, the labels of a result (warnings, escalations,
  the stamp of an override), sessions handed in by a caller, vendors without a
  key, `fastMode`, the refusal of a run without an identity (the product always
  declares one), two processes at one history file (`vendorRouter.ts:186`) and
  the resume material of a vendor that is stored over a host's login (`:497` of
  `ladder.ts`).
- *Origin scheduler*: the waits it measures; the wall and the monotonic clock
  are taken to run alike.
- *Checkpoint stores*: schema, migration, serialisation.

And the parts listed in section 1 without a module. The idempotency index and
the session broker have real protocols and come next; the page cache is one
upsert. Some hazards of the modelled parts lie outside what the models keep: a
run that fails with a page recorded and its meters not written
(`orchestrator.ts:401`), a Crawl-delay that is forgotten in a restart
(`frontier.ts:141`), the depth of a page that is reached by a longer path first
(`frontier.ts:318`), an append whose answer is not recorded under its key
(`engine.ts:1627`), and a batch that is handed over to a person's Chrome
(`engine.ts:798`).

## 8. Plan

Order of work, the most important behaviour first. Done: 1 to 7, and of the
proofs 10 to 14 and 16. Left are 8, 9 and 15.

1. **Delivery**, `DeliveryPromise`, `DeliveryProofs`: several processes, one
   table, an abstract promise and an inductive invariant.
2. **Monitor**: the other half of the control database.
3. **Frontier**, **Crawl**: one job, its workers, its process and its loss.
4. **OriginScheduler**, `OriginSchedulerProofs`: the gate that every fetch of
   a process passes.
5. **PublicPreview**: the counters and the leased origin, with the service's
   handler around them, since what is paid depends on all three.
6. **JobWatch**: the stream of a job and its reader.
7. **Ladder**: one page through its rungs.
8. **Submission**, composing the idempotency index with the start and append of
   Crawl: claim, create, record, forget, with crashes and the expiry of a row.
   Property: a retried submission never starts a second job.
9. **SessionBroker**: grants against revocation, renewal and expiry over one
   file.
10. **PublicPreviewProofs**: all safety properties of the public preview.
11. **LadderProofs**: all safety properties of a run of the ladder.
12. **MonitorProofs**: all safety properties of a Monitor, and two of its steps.
13. **DeliveryProofs**, second half: Delivery implements its promise, as a theorem;
    its history is final and its duplicates are bounded.
14. **FrontierProofs**, **CrawlProofs**: all safety properties of a job, with
    those of its steps; `StartsAreSpaced` of the scheduler.
15. Composition of Monitor's commit with Delivery's fan-out in one module, so
    that a change that is announced is delivered.
16. **JobWatchProofs**: `TypeOK`, then `DocumentsComplete`, from an invariant that
    says where each document behind the cursor's back is: given, in the wire, in
    the page, in the queue or not yet handed on.
