# Archive Weave in TLA+

Archive Weave is an HTTP service in Go that takes in archive records
("artifacts"), lets them be edited, submitted and reviewed, publishes the
approved ones and keeps an audit trail of every change. Artifacts and events
live in two JSON files. This directory specifies its core in TLA+: the record
lifecycle, the handlers that change the two stores one call after the other
while others run, the HTTP layer and the life of the process around them, the
reads beside them, and the stores themselves down to the rename of a file. TLC
checks the modules on small instances; TLAPS proves the results listed below
for every instance.

## The system

| Part | State | Operations | What makes it correct |
|---|---|---|---|
| `domain` | none (values) | `ApplyTransition`, `Validate`, `NewAuditEvent` | every record is the outcome of one legal history |
| `catalog` writes | what each running handler holds: the record it read, the records and events it is to store | `CreateAs`, `UpdateMetadata`, `Submit`, `Review`, `ImportBatch` | a change and its event happen together or not at all; what was acknowledged stays; nothing is public unreviewed |
| `catalog` reads | none | `Get`, `List`, `Summary`, `History`, the exports | only approved records are public; pages cut the sorted result |
| `storage` JSON stores | a map or list in memory, the file, `loadMu`, the gate | `Get`, `List`, `Save`, `Delete`; `Append`, `ListByArtifact`, `ListAll`, `DeleteByArtifact` | a call is atomic; memory and file agree; the file can always be loaded |
| `storage` memory stores | a map or list | the same | a call is atomic |
| `httpapi` | the read-only switch | routes, decoding, status codes, panic handler | errors map to the right status; a read-only service writes nothing |
| `observability` | three counters | `Request`, `Write`, `Failure`, `Snapshot` | every request is counted |
| `config`, `cmd` | none | flags, start, graceful shutdown | handlers end before the process does |
| `workflowcheck` | none | the repository's smoke checks | not a part of the service |

Each HTTP request runs in a goroutine of its own. Handlers share nothing but
the two stores. `catalog.Service` has no lock: a mutation is a `Get`, a change
in memory, a `Save` to one store and an `Append` to the other; when the
`Append` fails, a rollback writes the old record back. A batch saves all of
its artifacts, then appends all of its events, and when one call fails deletes
what it had made. The hard parts are:

- two requests for one artifact between each other's `Get`, `Save`, `Append`
  and rollback;
- a rollback that fails, or cannot run because the client has gone and the
  request's context is cancelled, or because the process has died;
- other requests that see and change the artifacts of a batch that is then
  taken back;
- in a store, the first calls that all want to load the file, and the time in
  which the file is new and the memory is not;
- a history or a metrics snapshot that is put together from several reads
  while requests go on;
- a failed call and a failed rollback, of which one error decides what the
  client is told;
- a shutdown that has to wait for the handlers, and may not wait for ever;
- a process or a machine that dies between any two operations on a file.

`PROJECT.json` lists the hazards at their lines, with the properties for each.

## The modules

`Domain` — the values of package `domain`. A record is
`[status, version, meta, created, updated, submitted, decided, reviews]`;
`meta` stands for all free text that passed validation, a time is a reading of
the wall clock, which may be set back, and `NoTime` is a nil pointer or zero
time. `Valid` is `Artifact.Validate`; `CanApply` and `Apply` are
`ApplyTransition` together with the part of each caller's closure that changes
the record; `NewAuditEvent` is the function of that name, without the actor,
the note and the time, which nothing reads back. `Sound` and `Explains` state
what a legal record and a complete trail are.

`Catalog` (extends `Domain`) — the write path. The two stores are `repo`, a
function from identifiers to records, and `audit`, a set of events. The other
variables are indexed by request: `pc`, what the client asked (`job`), the
records read and to be stored (`before`, `after`), the loop index (`pos`), the
number of events appended (`filed`) and whether the context is cancelled
(`gone`). One action is one store call, with the code around it that no other
goroutine can see:

| Action | Code |
|---|---|
| `Arrive`, `Cancel`, `Crash` | a client, `net/http`, the machine |
| `Refuse` | decoding, `Validate`, `CheckCreate`, `CheckBatchSize`, `ParseDecision` |
| `Prepare` | the records of `CreateAs` and `ImportBatch` |
| `Read`, `ReadFails` | `applyMutation` from `Get` to `Validate` |
| `Save`, `SaveFails` | the saving call, or the saving loop of a batch |
| `File`, `FileFails` | `NewAuditEvent` and `Append`, or the loop of a batch |
| `Restore` | the rollback of `applyMutation` |
| `Withdraw`, `Scrub` | the rollback of `CreateAs`; the two halves of the loop in `rollbackArtifacts` |
| `Purge` | the loop over the appended events in `ImportBatch` |

`nextID` is external: it never repeats, so the k-th identifier of request r is
`<<r, k>>`. `Faults` says what may go wrong in an instance, and `Exclusive`
whether clients keep to one request per artifact at a time, which some
properties need and the service does not enforce.

`Http` (extends `Catalog`) — the layer around each of these requests, in one
life of the process. `server` is the process (up, draining, down), `readOnly`
its configuration, `stage` how far the answer to a request is, `code` the error
that `errors.As` finds, `counters` the three metrics, `visitor` the handler of
`GET /metrics`; `told` is kept for the properties only.

| Action | Code |
|---|---|
| `Receive` | `logging` counts the request; `writable` or `decodeJSON` turns it down, or the service gets it (`Arrive`) |
| `Hangup` | `Cancel` of `Catalog`, only while the handler runs |
| `Work` | a step of `Catalog`, and the error it leaves: `ReadErrors`, `Joined` |
| `Meter`, `Reply` | `metrics.Write` or `metrics.Failure`, then `writeJSON` or `writeError` |
| `AskMetrics`, `LoadRequests`, `LoadFailures`, `LoadWrites`, `AnswerMetrics` | `metricsHandler`, `Snapshot` with its three loads |
| `Signal`, `Drained`, `Die` | `main`: the signal, `Shutdown`, its timeout or a crash |

`Over` lets a behaviour end when the process has; the next life over the same
stores is in `Catalog` (a crash loses the handlers, not the stores) and in
`JSONStore` (`Restart`).

`History` (extends `Catalog`) — `GET /artifacts/{id}/history`. `reader` is the
handler: `GetArtifact` is the `Get` of `Service.History`, `ListByArtifact` its
second call and `NewTimeline` of the result (`Timelines`, a set, because two
events of one version are ordered by a time that the model does not keep),
`HistoryFails` any error. Every step of `Catalog` may come between the two.

`Archive` (extends `Domain`) — what the project's documents promise: records
and trail change together, a whole batch or one transition at a time.
`Catalog` is related to it by `PublicStore` and `PublicTrail`: what a create
has stored so far is hidden, and a mutated record shows its old value, until
the last event is filed.

`StoreCalls` — the calls of both stores, their effect and their answer, for
`Kind = "artifacts"` and `Kind = "events"`.

`Store` (extends `StoreCalls`) — an atomic store: each call takes effect at
one instant between start and answer, or fails and changes nothing. This is
what `Catalog` takes for granted of a store call.

`JSONStore` (extends `StoreCalls`) — `JSONStore` and `JSONAuditStore`, which
have the same shape. `values`, `loaded` are the memory; `loader`, `readers`,
`writer` the locks; `file` what the file reads as, `disk` what it may read as
after a power failure, `temp` the temporary file. The steps of a call:
context check and `Validate` (`Begin`), `ensureLoaded` (`AlreadyLoaded`,
`Load`, `Loaded`), `RLock` and `Look` for reads, `Lock`, `Drained`, `Reject`,
`NothingToDelete`, `WriteTemp`, `SyncTemp`, `Rename`, `SyncDirectory` and
`Install` for writes, with `WriteFails` at each of the file operations before
the rename is done. `Torn` is what a file renamed before its data was synced
may read as.

`MemoryStore` (extends `StoreCalls`) — `MemoryStore` and `MemoryAuditStore`.
`values` is the map or list and `checked` the goroutines past the context check
and `Validate` (`Begin`, `BeginFails`); the closure that runs under the gate is
one step (`Write`, `Read`).

`Search` (extends `Domain`) — the reads over all artifacts, beside one writer.
`repo` is the store, `writer` the change whose event is still to be filed,
`walk` a client that turns the pages of one query, `answer` what the last step
sent. `ParseQuery`, `Accepts`, `Matching`, `Sorted`, `Cut` and
`SummarizeArtifacts` are the pure functions of the code; `Sorted` is the set of
results that `sort.Slice`, which is not stable, may give. The steps are
`FirstPage`, `NextPage`, `ExportCollection`, `ExportArtifact`, `Summary`,
`Refuse`, and of the writer `Create`, `Change`, `File`, `Undo`. Each reads the
store by one call, which `JSONStore` shows to be atomic.

`MCCatalog`, `MCHistory` and `MCJSONStore` add the symmetry sets, `MCSearch`
the metadata and the query strings; `Http` is run as it is, because its run is
about liveness. `DomainProofs`, `CatalogProofs`, `ArchiveProofs`, `HttpProofs`,
`HistoryProofs`, `JSONStoreProofs`, `MemoryStoreProofs` and `SearchProofs` hold
the theorems.

Definitions above another one with a comment like "A failed Save that is
overlooked" are faulty variants of it. No specification uses them; they serve
to show that each property can tell the code from a plausible bug in it.

## What is checked

| Run | Instance | Shows |
|---|---|---|
| `catalog_lifecycle` | 4 overlapping requests, batches of one, `io` and `rollback` faults, a clock of two readings | `RecordsSound`, `PublicWasReviewed`: lost updates and stale rollbacks never leave a record outside the lifecycle, nor a public one that was not reviewed; `OnlyMakersTakeBack`, `OnlyFailingBatchesEraseEvents`: what a rollback may remove |
| `history_concurrent` | 4 requests (batches of up to 2, edits, submissions), a reader of histories, no faults | `TrailHasNoGaps`: updates may be lost, events may not; `HistoryComplete`, `HistoryReaches`: a history read in two steps is whole, and not older than its artifact |
| `catalog_exclusive` | 3 requests, batches of up to 2, `io`, `cancel`, `crash` and `actor` faults, one request per artifact | `AcknowledgedDurable`, `TrailNeverAhead`: what was acknowledged stays, and the trail is never ahead of the records; `GapsExcused`: a record is ahead of its trail only for a reason; `TypeOK` |
| `http_process` | 2 requests (batches of up to 2, submissions) and one `GET /metrics` in a process that may be told to stop; clients leave, actors are overlong, the process dies; fair scheduling | `EveryRequestAnswered`, `Drains`, `HandlersAdvance`: every request ends, and a process that was told to stop does; `ClientErrorsLeaveNoTrace`: who is answered 4xx has filed no event, made no artifact and left no change of his own to another; `SnapshotCountsAnswers`, `HttpTypeOK` |
| `catalog_refines` | 3 requests, batches of up to 2, `io` and `actor` faults, one request per artifact | `SettledTrailExact`, `ImplementsArchive`: every handler is atomic when its rollback can write |
| `store_artifacts` | 2 goroutines, 2 identifiers, 2 values, `io`, `cancel`, `power` | `CacheCoherent`, `AlwaysLoadable`, `AnsweredDurable`, `ImplementsStore`, `TypeOK` |
| `store_events` | 2 goroutines, 2 events, `io`, `dirsync`, `crash`, fair scheduling | `NeverStuck`, `EveryCallReturns`, `ImplementsStore` |
| `search_pages` | 3 identifiers with every mix of absent, draft, pending and approved records, 6 query strings, limits 1 and 2, one change that may be undone | `QuietWalkExact`, `NothingPublicSkipped`, `PublicAnswersApproved`, `SummaryAgrees`, `TypeOK` |
| `found_cancel`, `found_stale_edit`, `found_erased`, `found_export` | 2 or 3 requests, one fault or none; the instance of `search_pages` | statements of `PROJECT_SPEC.md` and `README.md` that the code does not keep, see below |

The bounds. Four requests are what the shortest public record takes (create,
submit, approve) and one more to interfere; three requests let one fail while
another succeeds on the same artifact before or after. A batch of two has a
first and a last item, so that the loops run forth and back. Two clock
readings tell earlier from later, also in the wrong order. A goroutine of
`JSONStore` calls again and again; two of them meet in every pair of steps.
Requests are served at most once; that is the only bound on a behaviour of
`Catalog`. `Quiet` lets a behaviour end when all requests have, so deadlock is
checked in every run.

Three artifacts and a limit of one give a page before, at and after the one
that a change moves; the two metadata values share a title and the stored
records one time, so that the order rests on the identifier. `MaxSaves` bounds
the changes; `MaxTopTags` is 1 so that the cut of the tag list happens.
`http_process` is one life of the process: `readOnly` is fixed when it starts,
and each of its requests and the one `GET /metrics` is made at most once. A
batch and a submission take every loop and every branch of the handlers. A
rollback after an overlong actor works as long as the client stays, one after
the client has gone fails. No rollback decides what a client is told: the one
error with a status of its own that a rollback could meet is the `not_found` of
a `Delete` (`Missing`), and nobody but its maker takes an artifact away, so it
never does. The run therefore does not reach that case, and
`BlamedChangeNothing` proves for all faults that there is none.
`history_concurrent` has no faults
because `HistoryReaches` and `TrailHasNoGaps` speak of stores that do not fail;
`HistoryComplete` is proved without that restriction.

`Search` has one writer: an approved record leaves the public view only by the
rollback of its approval, and `NothingPublicSkipped` excepts the walks in
which one does. `Catalog` has what several writers can do (`found_stale_edit`).

The one metadata value of `catalog_lifecycle` leaves it to the theorem
`NothingPublicUnreviewed` that the approved metadata are the submitted ones.
`catalog_exclusive` has no `rollback` fault: there a rollback fails exactly
when its client has gone, so that `GapsExcused` has to blame each gap on that
or on a death; single rollback failures beside a client that stays are in
`catalog_lifecycle`, and the theorems have all faults together.

`catalog_exclusive` and `catalog_refines` assume `Exclusive`. Without it
acknowledged changes are lost, which `found_stale_edit` and `found_erased`
show. `catalog_refines` leaves out `cancel`, `crash` and `rollback`, because
with them a failed request leaves traces (`found_cancel`; a process that dies
between the two writes of a change leaves the first).
`store_artifacts` leaves out `dirsync`, because an answered call can be lost
with the power when the directory is not synced, and `crash`, because the
file a process leaves between rename and directory sync can be read by the
next process and still be undone by a power failure.

Fairness. `FairHttpSpec` is weak fairness of each handler's steps up to its
answer, of the steps of `GET /metrics`, and of `Drained`: Go's scheduler runs
every runnable goroutine, a handler waits for nothing but a store call, the
`WriteTimeout` of `main` ends an answer that the client does not read, and
`Shutdown` polls until no connection is active. Neither the signal nor the
timeout of the shutdown is assumed to come. `FairSpec` of `JSONStore` is weak fairness of the steps that
need no lock, and strong fairness of those that take one: a `sync.Mutex` is
handed over in order once a goroutine has waited a millisecond, and an
`RWMutex` admits the waiting readers when a writer leaves and holds new
readers back when a writer waits. No fairness is assumed of clients, faults or
crashes.

## What the runs found

- `found_cancel`: a client that goes away between `Save` and `Append` makes
  `Append` fail, and the rollback, which uses the same cancelled context,
  fails too. The change stays without an event (`service.go:77`,
  `intake.go:49`); `PROJECT_SPEC.md:79` says the old record is restored.
- `found_stale_edit`: an edit that has read a draft is saved over the record
  that was submitted meanwhile (`service.go:69`); `PROJECT_SPEC.md:50` says a
  submitted artifact's metadata is not edited.
- `found_erased`: a batch that fails deletes the events that other requests
  have added for its artifacts (`batch.go:89`); `README.md:43` says events are
  not overwritten. `OnlyFailingBatchesEraseEvents` says that nothing else
  erases one.
- `found_export`: `GET /collections/export?view=working` exports drafts and
  pending artifacts (`handlers_export.go:21`); `PROJECT_SPEC.md:60` says that
  the export is made within the public view.

## What is proved

All theorems hold for every set of requests, metadata, clock readings and
operations, any faults and any batch bound, and for the stores for any set of
goroutines, identifiers and values and both kinds; they rest on the named
assumptions of the modules (`MetaAssumption`, `TimeAssumption`,
`BatchAssumption`, `OpsAssumption`, `FaultsAssumption`, `ExclusiveAssumption`;
of the stores `JunkAssumption`, `KindAssumption`, `TornAssumption`,
`FaultsAssumption`; of `Search` `IdAssumption`, `PageAssumption`,
`TextAssumption`) and nothing else. `TextAssumption` is what `Validate` and the
type of the record say of the metadata that a search looks at: titles are
ordered, a year is positive (it is at least 1000), and a record has finitely
many tags.

- `TypeCorrect`: `Spec => []TypeOK`. `TypeOK` is not inductive: that a handler
  past its preparation holds at least one record, that its position is within
  them, and that an undo of a mutation has exactly one, is `Progress(r)`.
  `TypeInv` is the conjunction.
- `MakersTakeBack`: `Spec => []OnlyMakersTakeBack`, without `Exclusive` and for
  all faults: an artifact that a handler has saved is there, or its maker is
  taking it back or has failed (`KeptInv`), because only `Withdraw` removes one.
- `TrailUnbroken`: while no call can fail (`Faults = {}`), `TrailHasNoGaps`,
  for any requests in any order: its invariant says that a version up to the
  one stored, or read by a running handler, has its event, or a handler on its
  way to file it.
- `AcknowledgedStays`, `TrailBehind`: `AcknowledgedDurable` and
  `TrailNeverAhead` when `Exclusive` holds, for all faults. `AloneInv` says that
  a mutation only gets an artifact whose maker has ended and that no other one
  has (`Alone`), so that a running handler finds what it read or saved as it
  left it and its events where it filed them (`Held`), and that no event is of
  a later version than the record a running handler could write back
  (`Behind`); without the last, a rollback could undo what was acknowledged.
- `GapsHaveReasons`: `GapsExcused` when `Exclusive` holds, for all faults. A
  version that is stored and not on the trail is that of a request at work, or
  of one that died, or of one whose rollback could not write. `ExcuseInv` adds
  to `AloneInv` that a create or a batch whose rollback can write is `Tidy`
  (below) and that what a maker still at work has stored is in its first
  version (`Fresh`), so that erasing events by the artifact takes away no
  event of another request. The cases are a version that is new
  (`RaisedExcused`), an event that goes (`ErasedExcused`) and a handler that
  ends (`ExcusedStays`).
- `ArchiveImplemented`: `Spec => ImplementsArchive` when `Exclusive` holds and
  only forward calls fail (`Faults \subseteq {"io", "actor"}`, so that every
  rollback is carried out), for any requests, batch bound, metadata and clock.
  `PublicInv` adds to `AloneInv` that what a handler wants to store is a lawful
  next record (`Lawful`) and that a rollback in progress has left nothing behind
  the item it is at, and a failed create or batch nothing at all (`Tidy`). Then
  what is shown is what was made with success, with the record that the handler
  at work on it started from (`ViewExact`); so only the filing of a last event
  changes the public view (`Concludes`), and it does what `TakeIn` or `Change`
  do, which are the cases of the proof.
- `SettledExact`: `SettledTrailExact` under the same assumptions: the trail of
  each shown artifact explains the record that is shown (`Exact`).
- `HistoriesComplete`: `HSpec => []HistoryComplete`, for all faults; what was
  known when the history was asked for stays in the trail unless the artifact
  is taken back (`OnlyFailingBatchesEraseEvents` step by step).
- `HistoriesReach`: `HistoryReaches` while no call can fail, from the invariant
  of `TrailUnbroken`.
- `LayerImplementsCatalog`: `HttpSpec => Spec` of `Catalog`, so that all of the
  above holds behind the HTTP layer.
- `HttpTypeCorrect`: `HttpTypeOK`, with which a handler of the service is
  always one whose answer is outstanding.
- `SnapshotsCount`: `SnapshotCountsAnswers`. Its invariant is that the counters
  are at least what has been told plus the requests that are counted and not
  answered yet, as cardinalities; the three loads then follow one by one.
- `BlamedChangeNothing`: `ClientErrorsLeaveNoTrace`. `Origin` says that what is
  stored or filed under a request's identifiers comes from it, `Owned` that a
  running create still has each artifact it has saved and not yet withdrawn,
  so that its rollback never meets a `not_found` that `Joined` would prefer to
  the real error, and `Blameless` which codes a handler can have at which step:
  one with a 4xx, overlong actors excepted, has not prepared a record, so that
  no event, no artifact and no stored change is its own (`LeftNothing`).
- `RecordsStaySound`: `Spec => []RecordsSound`, by `GoodInv`, which adds to
  `TypeInv` that every record a handler holds is `Sound`; the step that matters
  is `ApplySound` in `DomainProofs`, that each transition keeps a record sound.
- `NothingPublicUnreviewed`: `Spec => []PublicWasReviewed`, also by `GoodInv`:
  each pending or approved record, in the store or in a handler, has the
  handlers that submitted and approved it.
- `TrailKept`: `Spec => OnlyFailingBatchesEraseEvents`, an action property.
- `PromisedTrailExact`: in `Archive`, the trail explains every record exactly
  (`ExactInv` adds the types and soundness of records).
- `StoreTyped`, `MemoryMatchesFile`, `FileLoads`, `AnswersLast`: the four
  invariants of `JSONStore`. None is inductive alone. `StoreInv` adds to them
  which call a goroutine is in at each place of the code (`Called`), who holds
  `loadMu` and the gate and that a writer excludes readers and writers
  (`Locked`), that a writer's `next` is the effect of its call on the memory it
  has locked, and the file is that effect from the rename on (`Coherent`), and
  what the disk may hold (`Durable`). Its step lemma has one step per action.
- `StoreIsAtomic`: `Spec => ImplementsStore`, by the refinement mapping that
  `JSONStore` defines: the contents are the file, or still the memory while a
  rename waits for the directory sync; so a write takes effect when that sync
  or the attempt is over, a read when it looks, and a call that meets an error
  changes nothing. It assumes that a power failure is not combined with
  directories that do not sync or with processes that die on their own, for
  then an answered call may be undone.
- `MemoryIsAtomic`: `MemoryStore` implements `Store`; there is no run for it,
  the mapping being the contents themselves.
- `HandlersComeToAnEnd`: `Spec => HandlersAdvance`, for all faults. A handler
  goes through at most four loops, the rollback's backwards; `StepsLeft` counts
  what is left of them, and each way from one place of the code to another
  (`HandlerMoves`) makes it less. It is bounded by `5 * MaxBatch + 2`.
- `ShutdownLeavesExactStores`: with `Exclusive` and rollbacks that can write,
  once the server is down every artifact has exactly the trail that explains
  it, and no event is of another one. That `Shutdown` returns only when no
  handler is left is the promise of `net/http` and the guard of `Drained`, not
  a result; what the handlers leave behind by then, through whatever failed, is
  the result, from `LayerImplementsCatalog` and `SettledExact`.
- `StoreNeverStuck`: `Spec => []NeverStuck` of `JSONStore`. A goroutine waits
  for `loadMu` or the gate only; by `StoreInv` whoever holds `loadMu` is
  loading, a reader is reading, and a writer is at work or waits for readers
  that are in, so that there is always one that can go on. `OnlyReadyMove` says
  that `Ready` asks for no more than the steps do.
- `CallsComeToAnEnd`: each step of a call brings it closer to its end, of which
  it is at most eleven steps away, and no other step sends it back.
- `SearchTyped`: `Spec => []TypeOK` of `Search`. `TypeInv` adds that each stored
  record is valid (`Stored`), that the writer's rollback writes a record of
  before the change to an artifact that is there (`Restorable`), and that the
  client that turns pages holds a query which `ParseQuery` let through.
- `PublicViewSafe`: `Spec => []PublicAnswersApproved`, for any archive, query
  strings and limits: each page is a part of a sorted result (`SortedType`,
  `CutType`) of a query whose public view is safe (`QueriesSafe`).
- `ResultsUnique`: each query has exactly one result. `less` is a strict total
  order (`ListOrdered`). Two sequences of a finite set in one order are the
  same, because the place of an element is the number of those before it
  (`RankIsPlace`, `OneOrder`); there is one, because the ranks are the numbers
  from 1 to the size of the set (`OrderExists`).
- `QuietWalksExact`: `Spec => []QuietWalkExact`. `QuietInv` says that what a
  client has seen of an unchanged archive is the beginning of the one result,
  and all of it when the last page was not full (`QuietTurn`, `CutPart`).
- `NoPublicSkipped`: `Spec => []NothingPublicSkipped`. In the public view an
  artifact stays where it is or moves back, because others come in and none
  goes (`PublicStays`, `PlaceGrows`); so an artifact of the first result that
  has not been shown is not before the next offset (`KeptInv`), and a page that
  is not full shows all that are not before it (`KeptTurn`).
- `SummariesAgree`: `Spec => []SummaryAgrees`. `SummarizeArtifacts` is the fold
  of one step over the artifacts in any order. Its equation has a solution on
  every finite set (`PassesExist`), whose counts are cardinalities and whose
  years are the extreme ones (`PassCounts`); the induction over the size of the
  set is a least counterexample (`Least`), which needs no operator parameter.
  `TopTagsFirst` says that the tags which are listed come before all others,
  and that the cut leaves out the last.

Only model-checked are the liveness properties `EveryCallReturns`,
`EveryRequestAnswered` and `Drains`, which need `ENABLED`, out of the prover's
reach. Their safety side is proved: `HandlersComeToAnEnd`, `CallsComeToAnEnd`
and `StoreNeverStuck` leave nothing to the fairness but that what can go on
does, and that a lock which is free again and again is had in the end. That
`Ready` is enough for a step, the other half of `OnlyReadyMove`, is read off
the guards: each of `begin`, `load`, `lock` and `write` has an action for
either outcome of its test.

## What is not modelled

Of the HTTP layer: the panic handler (no step of a handler panics), `GET
/healthz`, request identifiers, and that `GET /collections/export` counts a
write (`handlers_export.go:36`), which would let `writes` grow without any
write. Of the reads: `AllHistory`, which nothing calls.
The checksum of an export, its description of the query, an offset in it
(it takes the first page here) and the removal of reviews and tag aliases are left out of `Search`.
The text rules, configuration, logging and the repository's own smoke checks
are sequential code without state and are left out; input that the rules
reject is the `Refuse` step. A directory listing (left-over temporary files)
and two processes over the same files are left out. A clock that is set back
by a year would make a store refuse to load (`artifact.go:50`); years are a
part of the abstract metadata.

## Plan

1. Done: `Domain`, `Catalog`, `Http`, `History`, `Archive`, `StoreCalls`,
   `Store`, `JSONStore`, `MemoryStore`, `Search` with their runs and the proofs
   above.
2. Done: a theorem for every invariant and action property of a run.
3. Proofs still worth having: that `Catalog` over stores that are instances of
   `Store`, with a call's start and answer as steps of their own, implements
   `Catalog` as it is.
