# A TLA+ verification of open-catalog-api

open-catalog-api is a REST server in Go (fiber, gorm, PostgreSQL or SQLite) that
keeps a catalog of public software: software with their URLs, publishers,
catalogs, bundles, logs and analysis documents. Every write is recorded in an
audit trail (the `events` table) and announced to subscribed webhooks through an
in-memory channel and a debouncer.

This directory holds TLA+ models of the parts whose correctness depends on the
order in which things happen, the TLC configurations that check them on small
instances, and theorems checked by TLAPS that say the same of every instance. Paths below are relative to the
repository, so `main.go:59` is line 59 of `src/main.go` as `PROJECT.json`
names it.

1. [Inventory](#1-inventory)
2. [The modules](#2-the-modules)
3. [What the runs check](#3-what-the-runs-check)
4. [Where the code and its documentation differ](#4-where-the-code-and-its-documentation-differ)
5. [What is proved](#5-what-is-proved)
6. [What is not modelled](#6-what-is-not-modelled)
7. [Plan](#7-plan)
8. [Running it](#8-running-it)

## 1. Inventory

### Components

| component | code | state | operations | what makes it correct |
|---|---|---|---|---|
| debouncer | `internal/webhooks/debouncer.go` | map of key to event, timer and deadline, under a mutex | `Submit`, timer goroutine `flush`, `Drain`, the dispatcher call outside the mutex | every event dispatched, itself or a newer one of its key, once; the cap on waiting; no entry without a timer |
| event recording | `internal/models/hooks.go` | `pendingEvents` of a transaction, `events` rows, `EventChan` (1024) | `Transaction`, `emit`, `sendNonBlock` | row and write commit together; nothing announced that did not commit |
| worker, start, stop | `main.go` | the worker goroutine, the process | `Setup`, the dispatch closure, SIGTERM, `Drain`, exit | what the channel got is dispatched; held events leave before exit |
| webhook dispatch | `internal/webhooks/webhooks.go` | POST goroutines | `DispatchWebhooks`, `post` | one POST per subscriber; a deadline per POST |
| software handlers | `internal/handlers/software.go` | `software`, `software_urls` | POST, PATCH, DELETE, PATCH analysis | canonical URL and aliases in sync, no orphan URLs, one delete event |
| analysis merge | `internal/database/analysis.go` | a JSON column | `MergeAnalysis` in one UPDATE | scanners never lose each other's namespaces |
| logs | `internal/handlers/logs.go` | `logs`, soft deleted | create for an entity or for none, patch, delete, list | a log that was deleted stays deleted |
| catalog handlers | `internal/handlers/catalogs.go` | `catalogs`, `catalog_sources`, `catalog_id` of resources | POST, PATCH, DELETE, creating resources in a catalog | a catalog in use is not deleted; the root's rules; sources in line with the request |
| publisher handlers | `internal/handlers/publishers.go` | `publishers`, `publishers_code_hosting` | POST, PATCH, DELETE | ids and alternative ids do not clash; code hosting in sync |
| bundles | `internal/handlers/bundles.go` | `bundles`, join rows | POST, PATCH, DELETE | members exist; a PATCH swaps the members it names and keeps them otherwise |
| webhook rows | `internal/handlers/webhooks.go` | `webhooks` | POST for all resources of a kind or for one, DELETE | unique per URL and entity; who is subscribed gets the events, the end of the entity included |
| event list | `internal/handlers/events.go`, `crud.go`, `general/` | none; a client holds a link | GET, page by page with filters | following the links neither skips nor repeats an event |
| event purge | `internal/database/events.go` | a ticker goroutine | `StartEventPurge` and the stop function | rows past the retention go, all of them, and nothing else |
| patch engine | `internal/common/patch.go` | none | RFC 7396 and 6902 documents | the patched document |
| validation, errors, pagination, filters | `internal/common/`, `internal/handlers/general/` | none | | status codes, cursors |
| tokens | `internal/middleware/paseto.go`, `cmd/token.go` | none | | |

### How they interact

```
 handler --reads--> database                         (outside a transaction)
    |
    +--models.Transaction-------------------------+
    |    writes; gorm hooks -> emit -> events row |
    |    commit                                   |
    +---------------------------------------------+
    |  sendNonBlock, one per event, after the commit
    v
 EventChan (bounded, a full one drops)
    |  the worker goroutine of Setup
    v
 Debouncer.Submit --timer--> flush --+
    main, after Listen: Drain -------+--> DispatchWebhooks --> one POST goroutine
                                                               per webhook
```

The database is the only state handlers share. Everything below the commit is in
memory and goes with the process. Two more parts work on the `events` rows:
`StartEventPurge` deletes the old ones from a goroutine of its own, and
`GET /v1/events` reads them page by page while both go on.

### What is hard here

* Handlers read first and write later: what a PATCH writes is computed from rows
  that another request may have changed or deleted by then. The reads of one
  handler are separate queries with other commits between them.
* gorm runs `After*` hooks although no row matched, and `Save` inserts a row that
  is gone. `deleteResult` guards against the first for deletes, nothing does for
  updates.
* A Go timer that has been started cannot be stopped; `Submit`, `flush` and `Drain`
  contend for one mutex with timers in any state.
* Shutdown: `Listen` returns while handlers, the worker and flush goroutines run.
* The channel is bounded and drops; a crash loses what is in memory.
* The root catalog is a convention on one column of one row, or no row at all.
* Members of a bundle are checked outside the transaction that links them; what stands
  between a member that goes meanwhile and a link to nothing are foreign keys that
  count only when something is inserted.
* Rows refer to others without a foreign key (webhooks, logs, `catalog_id`), so
  they are made for, and outlive, what is gone.
* `created_at` is set before the commit: the order of the event list is not the order
  in which events become visible.

`PROJECT.json` lists every hazard with its line, and the properties that would
notice it go wrong.

## 2. The modules

| module | models | role |
|---|---|---|
| `Coalescer.tla` | the promise of the debouncer | abstract specification |
| `Debouncer.tla` | `debouncer.go` with time, timers and goroutines | implements `Coalescer` |
| `EventPipeline.tla` | `hooks.go`, `main.go`, `webhooks.go` | composes `Coalescer` with the rest of the event path |
| `EventFeed.tla` | `database/events.go`, `events.go`, `crud.go`, `general/pagination.go` | the `events` table between writers, readers and the purge |
| `Software.tla` | `software.go`, `logs.go`, `database/analysis.go` | handlers on software and all logs by id |
| `Bundles.tla` | `bundles.go` | extends `Software`: bundles of software that comes and goes |
| `Catalogs.tla` | `catalogs.go`, `logs.go` | handlers on catalogs and what belongs to them |
| `Publishers.tla` | `publishers.go`, `logs.go` | handlers on publishers |
| `Webhooks.tla` | `handlers/webhooks.go`, `webhooks/webhooks.go` | extends `Publishers`: who is told of their events |
| `Coalescer_proofs.tla`, `Debouncer_proofs.tla`, `EventPipeline_proofs.tla`, `Catalogs_proofs.tla` | | theorems about the module they extend |
| `EventFeed_proofs.tla` | | theorems about `EventFeed` and the composition in `MCTrail` |
| `Software_proofs.tla`, `Publishers_proofs.tla` | | theorems about `Software` with `Bundles` and `Publishers` with `Webhooks` |
| `Trails.tla` | | lemmas about audit trails |
| `MC*.tla`, `MC*.cfg` | | instances for TLC |

`MCTrail` runs `EventPipeline` and `EventFeed` side by side. They share no state (a row,
once committed, is on its own), so each of its initial states has one of
the two processes gone for good, and a behaviour is one of the other.

Operators marked `\* mutant` state a plausible defect of the definition that
follows them; no specification uses them. `PROJECT.json` says which property
notices which of them when it takes the place of that definition.

### Coalescer and Debouncer

`Coalescer` has four variables: the events submitted, the one held per key, those
taken out and not dispatched, and those dispatched. Its `Take` takes any set of
keys, which covers `flush` (one key) and `Drain` (all keys held).

`Debouncer` has one action per critical section and one per thing that happens
outside the mutex:

| action | code |
|---|---|
| `SubmitHeld`, `SubmitDirect` | `Submit` with and without a delay: `Deadline` is lines 70-80, `Wait` 82-91, `Stopped` the call to `Stop` at 72 |
| `Fire` | the runtime starts the goroutine of a due timer |
| `Flush`, `Dispatch` | `flush` up to and after the unlock |
| `Drain`, `DrainDispatch`, `DrainReturn` | `Drain` up to and after the unlock |
| `Tick` | time passes; a due timer or its goroutine waits at most `Lateness` |

`armed` are timers that `Stop` still takes away, `firing` those whose goroutine
runs and waits for the mutex. `Stop` returning false is a timer in `firing`.
`since` is a history field: no action reads it.

The refinement is `held <- ` the events of the map and `taken <- flushing \cup
drained`; time, timers and goroutines disappear.

### EventPipeline

A request walks through `Begin`, `Emit` (any number of events), `Commit` or
`Rollback`, `Send` (one per event) and `Finish`, as `Transaction` and `emit` do. `Send` puts an
event into `chan` or, when it is full, gives its live dispatch up. `Receive` and
`WorkerSubmit` are the worker, `Flush`, `Dispatch` and `PostEnds` what follows.
`Shutdown` is `Listen` returning; handlers and worker go on from there, `Drain`,
`DrainDispatch` and `Exit` are the rest of `main`. `Crash` may come at any time
and `Restart` starts a process that has only `rows`. The debouncer in it is an
instance of `Coalescer`, which `Debouncer` is proved to implement. No `Submit` is to
come during or after `Drain` (`debouncer.go:102`); `main` does not ensure that, so neither
module assumes it, and the refinement holds all the same. `missed` and `quiet` are history variables.

### EventFeed

`written` holds the rows in the order of `created_at`, each with what became of
its transaction: `Insert` and `CommitRow` are two steps, so rows appear out of order.
`GrowOld` is the retention passing over the oldest of them. The purge is a goroutine
between `Purge` or `PurgeFails` (the DELETE) and `Tick`; `StopPurge` is what `main`
does after `Drain`, which neither waits for a DELETE under way nor for the goroutine
(`PurgerReturns`). `Exits`, `Killed` and `Starts` change the process.

One client asks for a list (`Ask`), gets a page (`Page`) and follows its link. A
page is the newest rows below the cursor that pass the filter, as many as fit
(`IsPage`); the link keeps the parameters of the request and sets the cursor
(`Link`). The client may come back after any number of inserts, commits, purges and
restarts: nothing of a list lives in the server.

### Software, Catalogs and Publishers

Each request runs one handler, chosen when it arrives. Which ones it may
choose from is `kinds`, a member of `Workloads` fixed at the start, so that an
instance need not have all handlers in one behaviour. A handler's queries outside
a transaction are steps of their own that put what they saw in `local`; `pc` says
where the handler is. These rules translate the database:

* PostgreSQL at its default READ COMMITTED: a query sees what is committed when
  it runs, across the statements of one transaction too. `DeleteCatalog` counts
  inside its transaction, and its two counts and its deletes are three steps.
* A transaction that runs no query of its own, only writes made from earlier reads
  and the body, is one step, its commit. Its statements conflict with another
  writer's only on rows and unique keys, where the later one waits for the
  commit of the earlier; the guards (`NoDuplicate`, `Referenced`, `AltFree`,
  `DeleteResult`) then see its outcome.
* Any handler may `Fail` before its commit with nothing written: validation, a
  violated constraint, a lost connection.
* What a PATCH body leaves out keeps the value that was read and is written back; it is
  one of the values the action may choose.
* `checkAlternativeIDConflict` is a query of its transaction, and the transaction is
  still one step: ids are random, so a body can only name the id of a row that was
  made before, and such a row can be deleted after the query but not appear.
* Unique indexes: `software_urls.url`, `catalogs.alternative_id`,
  `publishers.alternative_id`, `publishers_code_hosting.url`. Foreign keys:
  `software_urls.software_id`, `catalog_sources.catalog_id` and
  `publishers_code_hosting.publisher_id`. There is none on
  `software.software_url_id` nor on `catalog_id` of publishers and software.
* Logs are soft deleted: a row that is gone still has its id, and `Updates` and `Delete`
  by id see only rows that are not.
* `updateColumns` on a row that is gone writes nothing, records its event and
  answers 200; `Save` of a source that is gone inserts it again.

Data is abstracted to what the properties tell apart. In `Software` the columns a
PATCH saves are the canonical URL, the analysis is the last writer of each
namespace, a row of `software_urls` is told by the request that wrote it. In
`Catalogs` a catalog's row is its alternative id, a resource is who made it,
its kind and its `catalog_id`. In `Publishers` a row is its alternative id, which may be the id of
another publisher as far as the code lets it, and code hosting has its URL and
group. `serial` and `plain` are history variables: "no two requests
overlapped so far" and, for catalogs, "nor did a request do one of the two legal
things that break the rules by themselves" (section 4). They let a run check
what holds of every *sequence* of requests next to what holds of every
interleaving.

### Bundles

`Bundles` adds the rows of `bundles`, the join table and the handlers on them to the
actions of `Software`, whose `Delete` becomes `SoftwareNext`: it takes the links of
the software with it. POST checks its members (`FindMembers`) and links them
(`CreateBundle`); PATCH reads the bundle, the join rows and the members in three
queries (`FindBundle`, `LoadLinks`, `LoadMembers`), checks the members it is to have
(`CheckMembers`) and swaps the links (`SwapLinks`). `Keyed` are the foreign keys of
the join table: they refuse a link that is new and whose ends are gone, and say
nothing of one that is not inserted.

### Webhooks

`Webhooks` adds the rows of `webhooks`, the handlers on them and the dispatch to the actions
of `Publishers`. `Dispatch` takes an event of the trail some time after its commit,
in any order, and starts a POST for each webhook there is then (`For` is the query).
What happens to an event before that is `EventPipeline`. `HooksLeft` says that
deleting a publisher leaves the webhooks that are for it: the event of the delete
itself still has to find them.

## 3. What the runs check

| run | bounds | shows |
|---|---|---|
| `debouncer` | 2 keys, 4 events, clock 0..5, delay 0 or 2, cap 3, lateness 0 | types; `NothingStranded`: an entry of the map has its own timer armed or its goroutine started; `CapHonoured`: no key waits longer than the cap; `Coalesces`: the refinement; `EventuallyDispatched` |
| `debouncer_trailing` | the same with delay 2, lateness 1 and clock 0..6 | `TrailingEdge` is violated |
| `pipeline` | 2 requests, 2 keys, 1 subscriber, 2 events, channel of 1, 1 crash or exit with restart | `NoPhantom`: only committed events are on the way; `EverythingAccounted`: each committed event is unsent, given up, on its way, or with the debouncer; `OneLeg`: at one place, dispatched once; `ChannelDispatched`; `QuietDrainDispatches`. And, in behaviours of their own, 3 events on 2 entities, pages of one event, 1 restart: `WalkFaithful`: following the links yields every event that was there and is not purged, newest first and once; `AgedPurged`: old events go |
| `pipeline_exit` | the same without restart | `ExitDispatches` is violated |
| `software` | 2 software, 3 requests, 3 URLs, 2 namespaces, 1 bundle, three workloads: handlers on software with logs, logs by id with DELETE of software, bundles with POST and DELETE of software | under any interleaving `OneDelete`, `NoUrlLeftBehind`, `AnalysisKept`, `LogsStayDeleted`, `MembersExist`: a link has both its ends, `BundleTrailEnds`: one delete per bundle, and after it only PATCHes that clear it; of sequences `SerialCanonical`, `SerialDelete`, `UrlsInSync`, `SerialMembers`: members are those that were asked for last |
| `software_canonical`, `software_phantom` | 1 software, 2 requests | `CanonicalExists` and `NothingAfterDelete` are violated |
| `catalogs` | 1 catalog besides the implicit root, 3 requests, 2 URLs, 2 copies, three workloads: catalogs and resources, DELETE with logs and PATCHes of resources, PATCH and DELETE with the analysis | under any interleaving `OneDelete`, `NoSourceLeftBehind`; of plain sequences `PlainDelete`, `PlainUntied`, `PlainSources`, `PlainInLine`, `PlainWithin`: a resource is patched through the catalog it belongs to only |
| `catalogs_refused`, `catalogs_tied` | 1 catalog, 2 requests | `DeleteRefused` and `RootUntied` are violated |
| `publishers` | 2 publishers, 3 requests, 3 URLs, 1 alternative id besides the ids, 1 webhook URL, two workloads: handlers on publishers with logs, POST and DELETE with webhooks | under any interleaving `OneName`: no name matches two publishers, `OneDelete`, `NoHostLeftBehind`, `Subscribed`: a webhook that was there when something happened and still is gets it, a deleted one nothing later, `HookTrail`; of sequences `SerialDelete`, `UrlsInSync` |
| `publishers_group` | 1 publisher, 2 URLs with either group | `HostingInSync` is violated |

### The bounds and why they are enough

For the safety and action properties of the runs that pass the theorems of section 5
remove every bound; the bounds below are to make the interesting cases happen, and
all there is for liveness.

* `MaxEvents = 4` in `debouncer`: a key resubmitted three times meets an armed
  timer, a firing one and the cap; the fourth event goes to the other key or comes
  after a flush. `MaxTime = 5` is a cap and a delay, enough for a key to run
  into its cap and start again. `Submit` needs `now + delay <= MaxTime`, so every
  timer can still become due before the clock stops.
* `Lateness = 0` in `debouncer` leaves everything that may happen within one tick:
  a fired timer may meet any number of submits before its goroutine runs. One
  tick of lateness is used where the run is to show a late goroutine; the
  theorems hold for every lateness.
* `Buffer = 1` and `MaxEvents = 2` in `pipeline`: the second event meets a full
  channel, one request may carry both events or each its own. Two keys or one key
  for the two events give coalescing and independence.
* `MaxRestarts = 1`: one change of process, by exit or by crash at any step; the
  second process can repeat nothing the first could not.
* `MaxWritten = 3`, `Sizes = {1}` and `Filters = {{x1}}` for `EventFeed`: with pages of one
  event a walk over three has two links to follow, with something written, committed or
  purged before each. An instance in which no event is about `x2` is the one without a filter, and it
  is among the behaviours. Four events, lists with and
  without a filter and pages of one and of two were checked too and hold the same safety.
* Three `Requests` in `software`, `catalogs` and `publishers`: a PATCH, the request that changes
  what it read, and one to notice it. Two suffice for every violation found.
  URLs are three so that a PATCH can keep one, remove one and add one.
* `Groups = {TRUE}` in `publishers`: its properties are about URLs, `publishers_group`
  is the one about groups.
* One bundle, one webhook URL: two requests on the same row are what can clash; webhooks for
  one publisher and for all give two rows and the query that tells them apart.
* `Workloads`: every handler is in one of them, next to the handlers that write the rows it
  reads. With two requests all handlers of a module were checked in one workload, so that
  every pair of them meets, and the same properties hold; with three that
  instance is too large for a routine run.
* `Copies = {1, 2}` in `catalogs` is how often a POST body may list a URL.
* One catalog id in `catalogs`: with the implicit root there are two catalogs in
  play. Two rows at once with two requests were checked and hold the same
  properties; with three requests the instance is too large for a routine run.
* Symmetry is used for requests, URLs, ids and namespaces in the safety runs of the
  handlers, and not in runs with liveness.
* `CHECK_DEADLOCK FALSE` everywhere: a bounded number of requests or events comes
  to an end, and an exited process does nothing.

### Fairness

Only `debouncer` and `pipeline` check liveness. `Debouncer!Fairness`: time goes on, the
runtime starts due timers, a goroutine that waits for a mutex held for short
critical sections gets it, and a dispatch and a started Drain go on. That is what
`time.AfterFunc` and the Go scheduler give. Nobody is obliged to submit or to
drain. `EventPipeline!Fairness`: handlers in a transaction end it (commit or
rollback, the database driver returns), the worker receives and submits, timers
take entries out (shown in `Debouncer`), dispatches and POSTs end (a POST
has the deadline `dispatchTimeout`), `main` goes on once `Listen` has returned.
`FeedFairness`: the ticker ticks, `main` goes on to its end after it
stopped the purge, and a DELETE that is tried with every tick succeeds some
time (strong fairness: one that fails is tried again; a database that never
lets it through is not something the program can help).
Requests, SIGTERM, crashes and restarts are not fair: they need not happen.
The liveness properties only promise something as long as the process is up.

## 4. Where the code and its documentation differ

Each of these is a run that TLC ends with a counterexample, and an entry of
`findings` in `PROJECT.json` with the line quoted.

* `debouncer_trailing`: "a trailing timer fires `delay` after the last Submit"
  (`debouncer.go:17-18`). A goroutine that was started before the Submit and gets
  the mutex after it dispatches the new event at once. Nothing is lost.
* `pipeline_exit`: "any webhook event held in the debouncer's pending window is
  dispatched before the process exits" (`main.go:56-58`). The worker submits during
  and after Drain, and Drain does not wait for a flush under way.
  `QuietDrainDispatches` is the part that holds: Drain at a time when no handler,
  no event in transit and no flush is under way loses nothing.
* `software_canonical`: two PATCHes that read the same aliases; one makes an alias
  canonical, the other removes it. The software then has a canonical URL without a
  row and answers 500.
* `software_phantom`: a PATCH that read the software before a DELETE commits after it,
  answers 200 and announces an update of what is gone.
* `catalogs_refused`: a resource is created between the counts of `DeleteCatalog`
  and its commit.
* `catalogs_tied`: PATCH makes a catalog with resources and sources the root. It takes
  one request.
* `publishers_group`: a PATCH with the group of a code hosting URL is answered with
  200, and the group is not stored. It takes one request.

Not runs of their own, being the same patterns again: two overlapping PATCHes of a
publisher may each remove the code hosting the other keeps (as in
`software_canonical`), a PATCH of a publisher or catalog after its DELETE
records an update (as in `software_phantom`), and a catalog source whose URL the
POST lists twice is stored in two rows of which a PATCH sees one (the reason for the
last condition in `plain`).

Nor are these, which take one request or one look at the code:

* A PATCH of a bundle with `softwareIds: null` clears its members. The API says a bundle has
  at least one (`open-catalog-api.oas.yaml:2759-2760`, `minItems: 1`), and
  `patch_validation.go:102` skips a list that is missing. `Wanted` allows it.
* Catalogs have no `checkAlternativeIDConflict`. The alternative id of one may equal the id of
  another, and the lookup by either picks one of two rows (`catalogs.go:529`), where
  `open-catalog-api.oas.yaml:2879` says "you can use it in place of the Catalog `id`".
* `DeleteCatalog` leaves the logs of the catalog, `DeleteSoftware` and `DeletePublisher`
  remove theirs.
* A client that polls the list for events newer than the newest it knows misses
  one that was inserted earlier and committed later. `WalkFaithful` promises it nothing.

## 5. What is proved

Every safety property and every action property of a run of section 3 that passes is
also a theorem, checked by TLAPS for all values of the constants: any number of
requests, keys, rows, URLs, events, restarts and namespaces, any buffer, delay, cap and
lateness, behaviours of any length. `PROJECT.json` lists each theorem and the property
it states.

| module | theorems |
|---|---|
| `Coalescer_proofs.tla` | `NothingLostCorrect`, `DispatchedOnceCorrect` |
| `Debouncer_proofs.tla` | `TypeCorrect`, `NothingStrandedCorrect`, `CapHonouredCorrect`, the refinement `CoalescesCorrect` and, through it, `NothingLostCorrect` |
| `EventPipeline_proofs.tla` | `TypeCorrect`, `NoPhantomCorrect`, `EverythingAccountedCorrect`, `OneLegCorrect`, `QuietDrainDispatchesCorrect` |
| `EventFeed_proofs.tla` | `FeedTypeCorrect`, `WalkFaithfulCorrect`; `TrailCorrect`: the composition that the run `pipeline` checks has the safety properties of both its parts |
| `Software_proofs.tla` | of `Spec` (software and logs) `SoftwareCorrect`; of `BSpec` (with bundles) `BTypeCorrect` and one theorem for each of the ten properties of the run `software` |
| `Publishers_proofs.tla` | of `WSpec` (with webhooks) `WTypeCorrect` and one theorem for each of the seven properties of the run `publishers` |
| `Catalogs_proofs.tla` | `TypeCorrect` and one theorem for each of the seven properties of the run `catalogs` |
| `Trails.tla` | lemmas on audit trails: how the number of events of a kind, and of those after a deletion, changes when one is recorded |

### Assumptions

Each is an `ASSUME` that TLC evaluates on the runs of its module, except
`CoalescerAssumption`, which the theorems on `Coalescer` take as their hypothesis and the
modules that use them discharge.

* `DebouncerAssumption`, `CoalescerAssumption`, `PipelineAssumption`, `FeedAssumption`: bounds,
  times and sizes are natural numbers, the buffer and a page are not empty, a filter is a
  set of entities, `None` is no event and no entry.
* `SoftwareAssumption`, `PublishersAssumption`, `CatalogsAssumption`, `WebhooksAssumption`: workloads are
  sets of handlers, the marks `None`, `Unborn`, `Gone`, `Seed` and `All` stand for what is no id, no row, no
  request, no answer and (in `Webhooks`) no number, and are different where the code tells them apart. `Alts` of
  `Publishers` are the alternative ids that are no ids; that a body may name an id too is in
  the model. A POST of a catalog may name a source once
  (`1 \in Copies`).

No assumption bounds anything. That the trail of a catalog or a bundle after its deletion can be counted
against the requests to blame needs that finitely many requests have arrived; that
is part of the invariants, not an assumption on `Requests`.

### The debouncer

In `Coalescer_proofs.tla`: `InvInvariant` (what was submitted, held, taken and
dispatched, and at most at one of the last three places) gives `NothingLostCorrect` and
`DispatchedOnceCorrect`.

In `Debouncer_proofs.tla`:

1. `TypeCorrect`. `WaitType` shows that the wait handed to a timer is a natural
   number, also for a deadline in the past.
2. `LocatedInvariant`. `Located` says of every event where it is: events are
   numbered as they come (`Numbered`), an entry is filed under the key of its event
   (`Filed`), and map, flushes and Drain hold different events (`Apart`). Neither
   of the next two results is inductive without it: that a Submit leaves the
   timers of *other* entries alone needs that no two entries hold one event.
3. `NothingStrandedCorrect`, from `Located`: each step that makes an entry arms its
   timer, each step that takes a timer away takes the entry or turns it into a
   goroutine.
4. `CapHonouredCorrect`. The strengthening says that deadline and `since` differ by the
   cap and that the entry's own timer, armed or firing, is due by the deadline; with
   lateness 0 the clock cannot pass it.
5. `CoalescesCorrect`. `StepRefines` maps each step to a step of `Coalescer` or a
   stutter; that the event of a Submit is new in `Coalescer`'s sense is
   `SubmitFresh`, and that Take moves what is held is `Located`. `Submit` may come at any time, during Drain and
   after it too: `EventPipeline` puts `Coalescer` in the place of a debouncer used so.
6. `NothingLostCorrect`, by the refinement and the theorems of `Coalescer_proofs`.

### The event path

`IInv` of `EventPipeline_proofs.tla` is inductive. It consists of the types, the invariant of
`Coalescer` and

* `Legs`: events have numbers not used before (`Numbered`), a row is there before its event is
  handed over and not before its commit (`Committed`), what a request still has is nowhere
  else (`Apart`), and every row is accounted for (`Accounted`). `OneLeg` alone is not
  inductive: that an event `emit` records is not in the channel yet needs its number, that
  the two events of two requests are different needs it again.
* `Quiet`: after a Drain that met nothing, no handler is left that could send, the channel and the
  worker are empty, no key holds anything, and what was taken is what `main` dispatches.

There is a lemma for each action that moves an event (`EmitLegs`, `CommitLegs`, `SendLegs`, ...);
it computes the places after the step, and the rest is about sets. `DebouncerMoves` maps
every step but `Restart` to a step of `Coalescer`, so that the lemma `InvStep` of `Coalescer_proofs` applies to the
debouncer in the pipeline.

`FeedInv` of `EventFeed_proofs.tla` says where the walk is (`Walking`): what was got is in order, passes
the filter and is not below the cursor, and what was there at the beginning is got, purged or
still below it. `TableStep` is what any other step may do to the rows meanwhile (rows are
added at the end, commit, and are purged, but do not change otherwise), `LinkGoesOn` that
a page with more to come links to the last row on it.

### The handlers

The proofs of `Software`, `Publishers` and `Catalogs` are built alike:

1. `MoveActs` shows of every handler step what it can do to *requests*: one moves, the others stay
   (`Acts`), with what it must have come from to be where it is.
2. `StepWrites` says which steps can write a *table* and how (a save, a merge, a creation, a deletion).
3. `Chronicle` says what a step *records*: the trail and the row of the entity change together, by one of
   create, update and delete.

Each conjunct of an invariant then follows from these and no longer looks at some twenty actions. The
parts of the invariants that the properties do not state themselves:

* `Answered`: only a handler that is through has answered, and one that waits for its next query has found
  its row. What holds of late PATCHes needs it: their `local` names an id that was
  created.
* `Lived`, `Ended`, `LateOnes`: the trail of an entity is that of its life. A catalog's trail
  can go on after the deletion, so `LateOnes` counts against the PATCHes that have saved.
* `Alone`, `InStep` (`Turns`, `Current` in `Catalogs`): handled one at a time, a request finds what it read as it
  read it, query by query. All properties of sequences rest on it.
* `PlainOnce`: in a plain behaviour no source is stored twice. `PlainInLine` is not inductive without
  it: a PATCH sees one row per URL.
* `Unique`, `Dead` of publishers, for `OneName`: two publishers share no alternative id, and an alternative id
  that is a publisher's id is that of one that is gone, *also in what a PATCH read before
  and is going to write back unchecked*. Without that last part the invariant is not inductive, and with it the unchecked
  write is harmless, because ids are never used again.
* `Linked`, `Posted` of webhooks: a request makes one webhook, as the last thing it does, and whether that
  is still there is known from its trail.
* `Found`, `Filled`, `BundleTrail`, `BundleInStep` of bundles. To the invariant of the software most bundle
  handlers only pass the time (`BMovesPass`), so `SInv` is used as it is. `MembersExist` needs nothing
  but the foreign keys of the join table (`MembersStep`).

### Only model-checked

* Liveness: `EventuallyDispatched`, `ChannelDispatched` and `AgedPurged`, which with
  fairness and ENABLED are out of the prover's reach.
* That the properties of section 4 are violated.

No module here declares a RECURSIVE operator, and no result needs induction over data.

## 6. What is not modelled

* The panic guard `safeDispatch`, logging, metrics, rate limiting, the response cache.
  The cache answers a read with what was true up to ten seconds ago, to
  clients only: no handler reads through it.
* Payload formats, signatures and the HTTP client. POSTs are fire and forget: no
  property promises their delivery. (`Post` in `EventPipeline` allows every subset of the
  subscribers; `Webhooks` has the query that picks them.)
* The patch engine and validation: sequential functions on one document. Their
  outcomes are chosen freely in the models.
* Of the lists, those other than the events, the links back, the search, the window on
  `created_at` and the encoding of a cursor. Lists in ascending order run the same code.
* Plain columns of software and catalogs. Two PATCHes of different fields each save
  all columns as they read them, and the later undoes the earlier; nothing says
  otherwise in the documentation.
* SQLite: it has one writer at a time, and what it allows is among the
  interleavings checked; its variant of the analysis merge is not modelled, nor is the
  time an unchanged namespace keeps in either.
* Opening the database and its migrations: one process, before anything else runs.
* Tokens, configuration parsing, the documentation pages, the Helm chart.

## 7. Plan

Every part whose correctness depends on the order of things is modelled, and every safety and
action property that the runs check is proved. What would add to it:

1. An abstract specification of a synchronised child table that `syncAliases`, `syncSources` and
   `syncCodeHosting` implement when handled one at a time, with the refinement proved from
   `InStep`.
2. The part of liveness that is safety: that an action is possible whenever something waits for it (a
   Drain can go on, a held event has a way out).

## 8. Running it

```
tlc -workers 2 -config MCDebouncer.cfg MCDebouncer
tlapm Debouncer_proofs.tla
```

and so on for every `MC*.cfg` and every module with theorems (`*_proofs.tla`, `Trails.tla`); the
proofs of `Catalogs_proofs`, `Software_proofs` and `Publishers_proofs` take some minutes each.

The longest runs are `pipeline` (about 126,000 states with liveness, two minutes) and
`catalogs` (about 650,000 states, one and a half).
