# Verification of the entity registry backend

The program is a NestJS service over PostgreSQL. It takes a batch of three
sheets (entities, ownership, filings), validates it as a whole, writes it in
one transaction, inline or as a background job, and serves a nested list of
the entities and an analytics report. This directory models the parts of it in
which several actors meet over shared state, and the algorithms they rely on;
checks the models with TLC; and proves their safety properties with TLAPS.

Paths are relative to `src/src/registry/` unless they start with `src/`.

## 1. Inventory

| Component | State it keeps | Operations | What is hard |
|---|---|---|---|
| Asynchronous jobs: `upload-async.controller.ts`, `queue-dispatch.service.ts`, `upload-jobs.service.ts`, `upload-reconciliation.service.ts`, `upload-writer.worker.ts` | table `upload_jobs`; QStash's messages; runs in the process's memory | create, publish, set dispatch method, callback (find, claim, write, record), fallback run, sweep of stale jobs | three parties reach one job; at-least-once delivery; a timeout that gives up a call, not its effect; lost answers; crashes |
| Upload pipeline: `registry.service.ts` `processUpload`, `validation/validation.service.ts`, `upload-writer.ts` | tables `entities`, `ownership_edges`, `filings` | validate sheets, look up business IDs, load edges, judge the graph, write in four passes | the reads happen outside the transaction that writes, in the asynchronous case minutes before it |
| Ownership graph: `validation/graph-validator.ts` | none between calls; colours, stack and flagged names during one | merge rows into persisted edges, depth-first search for cycles, totals per child | the verdict depends on the order of the walk |
| Sheet validators: `validation/*-validator.ts` | none | check rows and references within a batch, drop the rows with errors | later sheets are checked against rows that passed; texts are compared where values are stored |
| Entities list: `registry.service.ts` `getEntitiesList` | none | filter, search, page, fetch subtrees, nest | three queries on three moments; one SQL row for each path |
| Analytics: `registry.service.ts` `getAnalytics` | `analyticsBaseCache` | fill, answer, clear | filling races clearing; two tables read separately |
| Compliance status: `compliance/compliance.util.ts` | none | earliest due date, status ladder | dates at boundaries |
| File parsing: `parsing/` | none | decode CSV or XLSX in a worker thread | text handling |
| Suggestions, jurisdictions, health, HTTP surface, migrations | none of their own | single read-only statements, routing, DTOs, throttling | — |

How they interact: both upload routes call `ValidationService.validateUpload`,
which reads `entities` and `ownership_edges` and calls the sheet validators and
the graph validator. `POST /upload` then writes in its own request;
`POST /upload/async` stores the batch as a job, which a QStash callback, a local
worker thread, or the sweep's local worker thread later writes without looking
again. Every write is followed by clearing the analytics cache in the process
that made it. The list and the report read the tables meanwhile.

What makes the components correct:

- jobs: a batch is committed at most once, whoever runs it; *completed* is only
  told of a committed batch that readers can see; a queued job is picked up in
  the end; a job somebody has claimed is not abandoned unless a fault happens;
- sheet validators: exactly the rows at fault are reported, and what passes fits
  together and is what the later stages take for granted;
- transaction: everything a batch says is written at once or not at all, whatever
  other transactions do between its statements;
- compliance status: it follows from the open filings of an entity, at every
  boundary of the ladder;
- registry: the persisted graph has no cycle and no child beyond 100%; the
  unique index on business IDs meets no conflict that validation let pass;
  references resolve; an upload that was just committed validates again;
- graph validator: it rejects exactly the batches that close a cycle, on every
  order of the walk, and ends;
- list: the tree below each row is the subtree in the database, counts agree
  with it, a search result has a match in its tree, pages partition the result;
- cache: what it holds is the present content, of one moment.

The hazards of the code, each at its line, are in `PROJECT.json`.

## 2. Modules

```
JobContract  <-- refined by --  UploadJobs  <-- UploadJobsProofs, MCUploadJobs
OwnershipGraph <-- CycleDetection <-- CycleDetectionProofs, MCCycleDetection
    ^   ^--- UploadBatch <-- Registry <-- RegistryProofs, MCRegistry
    |             ^             ^-- refined by -- BatchWriter <-- BatchWriterProofs, MCBatchWriter
    |             '------- SheetValidation <-- Compliance <-- SheetValidationProofs, MCSheetValidation
    '------- EntitiesList <-- AnalyticsReport <-- EntitiesListProofs, MCEntitiesList
             AnalyticsCache <-- AnalyticsCacheProofs, MCAnalyticsCache
OrderFacts  <-- CycleDetectionProofs, SheetValidationProofs, EntitiesListProofs
```

(`EntitiesList` takes only acyclicity from `OwnershipGraph`, by INSTANCE.)

**UploadJobs.** A step is one database statement, or the synchronous code
between two awaits. `status`, `dispatch` and `aged` are the columns of
`upload_jobs` (`aged`: `created_at` is before the cutoff of `findStaleQueued`);
`request`, `pc`, `task`, `swept` are where the requests, the runs and the sweep
stand, and go when the process ends. `process` is *up*, *stopped* (it crashed, or an
unhandled rejection ended it: the platform starts it again, `Restart`) or *asleep*: an
instance of the free plan (`src/render.yaml`, line 6) is put to sleep when nobody calls
it (`Sleep`) and started by the next inbound request (`Wake`). `mail` holds what QStash may still
deliver, any number of times. `Claim` is the conditional `UPDATE` of `claim()`.
Each statement has a failing variant (`...Fails`, `WriteAckLost`) in which it is
refused or takes effect without an answer; who catches the exception is taken
from the code: a callback answers 500, or goes on to `markFailed` where the
`try` covers it, and in `runFallback`, which both callers `void`, it ends the
process. `WriteRollsBack` needs no fault: a constraint is enough.
`writes` counts the commits of a job's batch, `dirty` the jobs committed since
the cache was cleared.

**JobContract** is what a client may rely on: a job goes queued, processing,
completed or failed; its batch is applied at most once and only while it is
processing; *completed* implies applied; *failed* implies not applied, unless
something around the system had failed before. `UploadJobs` implements it under
the mapping `faulted <- faults > 0` (`ImplementsContract`).

**OwnershipGraph** has the pure part of `validateOwnershipGraph`: `Merge` is the
upsert of rows over persisted edges, `OverOwnedRows` the rows that get the
"exceeds 100%" error (in hundredths; the sheet allows two decimals). `Cyclic`
and `OnCycle` are the reference definitions, without a walk: a finite graph has
a cycle exactly if some set of nodes has, for each member, an edge to a member.
`CycleVerdicts` is what the walk may decide: `CycleDetection` is shown to decide one
of them (`GivesAVerdict`), and `Registry` lets any of them happen.

**CycleDetection** is the walk of `detectCyclicNodes`, with the recursion as a
`stack`, the loop over a node's children as `todo`, and every order of roots and
children (in the code the order of insertion into a `Map`, so of rows in a
file). `CloseCycle` flags the stack from the grey node on; `PassBlack` passes a
finished node; `FlaggedRows` is the condition on rows of lines 52 to 58.

**UploadBatch** is what passes from one stage of an upload to the next: the
entities by name with their type, Domestic Entity and business ID, and the
ownership rows. `Consistent` is what `SheetValidation` is checked to guarantee
and `Registry` starts from.

**SheetValidation.** `parseSlot` for the three files, then the validators in the
order of `validateUpload`, one step each, and the verdict. A cell is blank,
malformed or a value; names and dates are texts (`Spellings`, `DateTexts`) with
what they stand for (`Normal`, `DateOf`), because some rules compare the text and
the tables compare the value. Each validator's errors are sets of slot, line and
column; rows without an error go on, and ownership and filing rows are checked
against the entity rows that passed (`Named`), while a Domestic Entity is looked
up among all rows, the last of a name winning (`NamesAnEntity`). `Write` is pass 4
of `writeUploadBatch`, in chunks: a key twice in a chunk makes the statement
fail, a key twice in two chunks leaves the later row.

**Compliance** derives an entity's status from the filings stored: the earliest
due date of those neither filed nor canceled, the days to it on the server's
calendar (`UtcOffset`), and the ladder of `computeComplianceStatus`.

**Registry.** Any number of uploads, each going through `CheckBusinessIds`,
`CheckGraph` and `Commit` or `RollBack`, interleaved. The verdict of the cycle
check is a nondeterministic choice among `CycleVerdicts`: exact on an acyclic
persisted graph, and otherwise never an error unless the names are on cycles. `Commit` is passes 1 to 3 of `writeUploadBatch` and of
the inline transaction as one step, with what they leave alone: pass 1 does not
touch `domestic_entity_id`, pass 2 sets it for FQ rows only, and edges are never
deleted. Two history variables say which uploads in flight were validated
against data that a later commit has replaced (`staleIds`, `stale`), a third
whether one of those committed.

**BatchWriter** is the transaction as it is executed: each row of pass 1 is
locked (`LockRow`) and written (`PutRow`), in any order a file may have; one query
looks up the ids (`LookUp`), pass 2 is one `UPDATE` (`SetDomestics`), pass 3
upserts edge by edge (`UpsertEdge`), and `CommitTx` makes all of it visible. Until
then what it has written is in `draft` and `draftEdges`, which only the transaction
itself sees. PostgreSQL's part is stated where it decides something: a
transaction waits for the one that holds a row, that writes or replaces a version
with the business ID it inserts, or that has written the edge (`Waits`); the
unique index rejects an ID that a row nobody is changing has (`IdRejected`); of
transactions that wait for each other one is rolled back (`BreakDeadlock`); and
any can be lost at any time (`LoseTx`). It implements `Registry`.

**EntitiesList.** One request of `GET /entities`: `FetchCandidates`,
`FindMatching` (skipped without a term), `FilterCompliance` (skipped if no compliance
status is asked for), `FetchSubtrees`. Between them uploads
add entities and edges and move FQs. `Subtrees` is the recursive query; it is a
`UNION ALL`, so a row stands for one *path* from a root of the page; `Walk` is its
recursion, over any links, level by level. Names are
numbers in sort order, a search term is the set of names it occurs in, and the
filters on jurisdiction and status are the set of entities they pass. Filings are not in
this model, so `FilterCompliance` keeps whatever candidates a filter may let pass at the
moment it reads them. The nesting of `buildChildren`
is `ChildrenOf`: rows of all roots grouped by their parent alone.

**AnalyticsReport** has chart (c) of `getAnalytics`, the subsidiaries and FQs
below each top-level entity, over the tables of `EntitiesList`, to relate the two
answers: one leaves the walk to a recursive query, the other walks maps in memory.

**AnalyticsCache.** The base of `getAnalytics`: requests that find the cache
empty read both tables, in either order, and then fill it; uploads commit and
then clear it, as separate steps. A table's content is the number of uploads
committed before it was read.

## 3. Runs

| Run | Question | Result |
|---|---|---|
| `jobs` | one job, two callbacks, two fallback runs, up to three faults or sleeps, fair scheduling: types, at most one commit, completed means visible, orphaned only by a fault, the inductive invariant, the contract; a queued job leaves *queued* provided a sleeping process is always woken; it ends completed or failed, or a fault happened | holds |
| `stuck_processing` | a claimed job gets an outcome (`upload-async.controller.ts`: "Poll GET /upload/async/{jobId} for the outcome") | violated |
| `cycles` | persisted graphs of up to two edges and uploads of up to three rows over four names, every order: flagged names are on cycles, a batch on an acyclic graph is rejected exactly if it closes a cycle, no tangle of cycles goes without an error, the walk ends | holds |
| `registry_sequential` | uploads one after the other over three names, statement by statement, Entities and FQs, rows of 60%: soundness, references, re-upload passes | holds |
| `registry_overlapping` | two uploads with edges and business IDs, interleaved at every read, row and statement: the inductive invariants, the unique index rejecting row by row only what a commit overtook, waiting in pass 1 only, the refinement of `Registry` | holds |
| `endless_walk` | the recursive query ends ("Cycles are rejected at upload-validation time, so this always terminates") | violated |
| `analytics_fresh` | two requests and two uploads at a time, four uploads, two faults: the cache is fresh and whole unless a commit outran the request that filled it | holds |
| `analytics_stale` | the cache is fresh between uploads ("this data only changes via processUpload, which clears the cache") | violated |
| `entities_pages` | a list request on every registry of three entities and an FQ, two uploads meanwhile: trees, counts, search, pages, agreement with chart (c) | holds |
| `entities_duplicates` | a child is listed once per parent ("appears once per parent") | violated |
| `sheets` | every upload of up to two entity rows, two ownership rows and three filings, right and wrong, readable or not: exactly the rows at fault are reported, what passes fits together, an accepted batch is one `Registry` may start from, pass 4 stores every filing unless one date has two texts, and the status at any instant is what the rows say | holds |
| `duplicate_filings` | an accepted batch is written (`POST /upload`: duplicate keys fail the validation) | violated |

What the violated ones show:

- **stuck_processing.** A process that dies after its claim (or whose claim took
  effect without an answer) leaves the job *processing*. `claim()` refuses it
  and `findStaleQueued` looks for *queued* only, so polling never ends.
- **endless_walk.** The walk follows ownership edges and the link from an FQ to
  its Domestic Entity, validation looks at ownership edges only. Upload `a` and
  `b` with `a` owning `b` under a root, then `a` again as an FQ of `b`: the edge
  stays, and `a` and `b` are a loop below that root.
- **analytics_stale.** A request reads both tables, an upload commits and clears
  a cache that is still empty, the request fills it with what it had read.
- **entities_duplicates.** Two top-level rows of a page both own `b`, and `b`
  has an FQ: the query returns the FQ once per path, so it is listed twice below
  `b`, and `fqCount` of `b` is 2.
- **duplicate_filings.** Rows due on `2026-01-02` and on `1/2/2026`, of one entity and
  type, are no duplicates to the validator; the statement of pass 4 that holds
  both meets one row twice, PostgreSQL refuses it, and the whole upload fails.

Every property of a passing run has a mutant in `PROJECT.json`: a definition
changed as a plausible bug would change it, on which TLC reports the property
violated. The mutated operators stand in the modules before the definitions
they replace, with the comment "Mutant".

### Bounds

- `MaxFaults` counts refused calls, lost answers, crashes and sleeps together.
  Sleeps have to be bounded as crashes do: an instance that fell asleep before every
  sweep would never sweep. That it does not is an assumption about the platform:
  once woken, an instance stays up for longer than the sweep's interval and the age
  it waits for (120 s each). Three faults let a crash follow a lost answer and
  precede another refusal. One job: jobs share the sweep, the process and the cache,
  and the safety properties, which are what that could disturb, are proved for any
  number of jobs and runners.
- Four runners let a late callback, a second delivery, the request's fallback and
  the sweep's race for the job.
- Four names, two edges and three rows allow a second cycle that leads back
  through a finished name, which is where the walk misses names of a cycle: with
  `a->b, b->c, c->a, b->d, d->c` and `c` visited before `d`, the rows of `d`, which
  are on the cycle `a, b, d, c`, get no error. `EveryTangleFlagged` says how far that goes: rows of a cycle may be
  unreported, but never all cycles that hang together.
- `registry_overlapping` has two names with rows of 100%, the smallest instance
  in which two uploads close a cycle together, and one business ID that two rows
  of two uploads compete for and can hand over. `registry_sequential` has three names and rows of 60%, so that two
  parents exceed 100% and one does not.
- `MaxUploads` is 4 for the cache, enough for each of two writers to commit
  before, between and after the two reads of a request; 2 for the list, one
  between each pair of its queries.
- In `entities_pages` page sizes 1 and 2 and pages up to 3 give full, partial
  and missing pages of up to three rows.
- `sheets` has one row for each kind of mistake and rows that are wrong only in
  company: two spellings of a name, an FQ of an FQ, an ID or a key twice, two texts
  of a date, due dates on both sides of the day of the upload. `ChunkSize` 2
  with three filings gives a full and a partial chunk. `Instants` are the first and
  last hour of the days on which a status changes, so every boundary of the
  ladder is met from both sides. With `UtcOffset` other than 0 `StatusFollowsFilings`
  fails: `daysBetween` takes local days of dates that are midnights in UTC, so its
  comment "UTC, DST/timezone-safe" is true of a server in UTC only, as the
  containers of `src/Dockerfile` are.

### Fairness

Only `jobs`, `stuck_processing` and `cycles` assume any. In the
jobs model it is weak fairness of what a running process does by itself: an
await that resumes (`RunnerStep`, the request's steps once it has begun), the
sweep's interval (`SweepRead`, `SweepRun`), time (`Age`), and the platform that
restarts a process that stopped (`Restart`). Nothing is assumed of clients, of QStash, or
of faults, so `Deliver`, `Drop` and `Wake` are not fair: only an inbound request wakes a
sleeping instance, and nothing promises one. `LeavesQueued` therefore has the condition
`SomethingWakesIt`, that a sleeping process is woken each time. The condition is needed:
without it TLC finds the job that was queued when its process went to sleep for good,
as the comment of `upload-reconciliation.service.ts` says (the sweep "only ever runs
while this process happens to be awake"). Fairness of `RunnerStep` means that
a database call answers or fails in the end; the code sets no statement timeout,
so this rests on the driver and the server. In `CycleDetection` weak fairness of
`Next` says that a synchronous function runs on. `CHECK_DEADLOCK FALSE` is set for
`EntitiesList` and `SheetValidation`, where an answered request is the end; `Settled` and `Return`
are the stuttering of a system at rest, so that any other state without a
successor is reported.

## 4. Proofs

All constants are arbitrary, under the named assumptions of the modules: any
number of jobs, runners, faults, names, uploads and requests, sheets and chunks of
any length, tables, page sizes and search terms of any kind. Only the list is
assumed to be of finitely many entities (`ListAssumption`), since it counts them; the
other proofs assume no finiteness, and `Cyclic` means "has a cycle" on finite sets of
names, the ones the program has.

| Module | Theorems | Argument |
|---|---|---|
| `UploadJobsProofs` | `TypeCorrect`, `ClaimInvariant`, `AtMostOneWrite`, `CompletedIsVisible`, `ProcessingIsOwned`, `JobsImplementContract` | `ClaimInv` |
| `CycleDetectionProofs` | `WalkTypes`, `WalkInvariant`, `CycleErrorsAreExact`, `OnlyCyclesFlagged`, `TanglesFlagged`, `WalkGivesVerdict`, `WalkShrinks` | `WalkInv` |
| `RegistryProofs` | `RegistryTypes`, `ValidatedStaysSound`, `GraphSoundness`, `CheckedIdsStayFree`, `ReferencesHaveRows`, `ReuploadValidates` | `GraphInv`, `IdsInv` |
| `BatchWriterProofs` | `WritesAreReserved`, `WriterRefinesRegistry`, `WaitsEndWithPass1`, `WriterGraphSoundness`, `WriterIndexRejections`, `WriterReferencesResolve`, `WriterReuploads` | `WriterInv` |
| `SheetValidationProofs` | `UploadInvariant`, `PassedRowsFit`, `AcceptedIsABatch`, `ReportsExact`, `FilingsStored`, `StatusIsOfTheFilings` | `UploadInv` |
| `EntitiesListProofs` | `ListInvariant`, `SearchesShowMatch`, `PagesPartitioned`, `TreesShown`, `CountsExact`, `ReportAgrees` | `ListInv` |
| `AnalyticsCacheProofs` | `CacheTypes`, `CacheInvariant`, `CacheFreshness`, `CacheWholeness` | `CacheInv` |
| `OrderFacts` | lemmas only: least and greatest members, images under an injection, places in a sorted set, quotients | least counterexamples |

- **ClaimInv.** `WrittenAtMostOnce` alone is not inductive: one must know that
  whoever is about to write owns the job alone (`OneOwner`), that the job is
  *processing* while it does (`OwnersHoldTheClaim`, so nobody else can claim
  it), that nothing was written before the claim (`UnclaimedUnwritten`) and what
  was written at each later step (`ProgressMatchesWrites`). The exceptions carry
  `faults > 0`: a completed job whose answer was lost may still be overturned.
  The refinement then maps every action to a step of the contract or a stutter.
- **WalkInv.** The grey names are the stack, which is a path, and flagged names
  contain a loop. The third part speaks of every *part* of the graph that no path
  leaves and comes back to (`Parts`): as long as no loop of that part is flagged,
  its black names lead, within it, to black names only and contain no loop. Taken of
  the whole graph it gives exactness: at the end all names are black, so nothing
  flagged means no cycle (`UnflaggedIsAcyclic`), and on an acyclic persisted graph a
  flagged loop has an edge of the upload within it (`NewLoopHasRow`), a flagged row.
  The whole graph is not enough for `EveryTangleFlagged`, which is about each tangle
  of cycles by itself: once any loop is flagged, the statement for the whole graph
  says nothing more. Taken of one tangle, it does. `FlaggedOnCycles` is inductive
  with it: what `CloseCycle` flags is a slice of a path that the closing edge leads
  back into.
- **GraphInv** says of each validated upload that no commit has outdated that its
  merged graph is sound; a commit then makes the persisted graph just that.
- **IdsInv** says of each upload, from the check of its IDs to the next commit, that it
  has an error or no row of another name has one of its IDs. With `WriterInv` that gives
  `IndexRejectsOnlyOverlaps`: the row the index rejects an ID for is none the
  transaction has written, since the IDs of a batch differ, so it is a committed row of
  another name, which the check would have found (`RejectedIdsAreTaken`).
- **WriterInv** says of each transaction that the rows it has written are locked by
  it alone and are what its batch says as far as the passes have come, and of each
  business ID it has written that no other row has it, committed or not
  (`IdsReserved`): that is what waiting buys, and why the index, asked row by row
  while others write, still judges the batch as a whole. With it `CommitTx` is
  `Commit` and every other statement a stutter, for any number of transactions and
  rows in any order, and the theorems of `Registry` carry over.
- **ReferencesResolve** is inductive by itself, since a batch brings the rows its
  references need and no upload deletes one.
- **ReuploadPasses** is an action property: after a commit that outdated nothing
  the graph is sound by `GraphInv`, merging the rows once more changes nothing
  (`MergeTwice`), and by the index nobody else has the IDs.
- **UploadInv** says, for each step of the validation, that the rows it goes on with
  are those without an error of the validators behind it, and that the errors
  collected are theirs. The properties of the verdict then follow from what each
  validator's error sets are, cell by cell (`CellErrorsAt` and its like); that pass 4
  loses nothing follows from the keys of the filings, a chunk at a time, by the
  bijection between filings and keys. `StatusIsOfTheFilings` assumes
  `UtcOffset = 0`: with another offset the property can fail (see Bounds).
- **ListInv** says what the three queries of a request may rely on although uploads
  commit between them: the tables stay an acyclic registry; the candidates stay top
  level unless an edge appears (`grown`); a candidate's match stays below it unless
  an FQ moves (`moved`), since no upload takes another link away and more links make
  more rows (`WalkGrows`). The rest is about the recursive query. `WalkIsPaths`: it
  returns the paths down from its roots that are no longer than there are nodes;
  `PathMeetsOnce` and `PathsAreShort`: on an acyclic registry every path is that
  short, so it returns all paths (`SubtreesArePaths`). Hence the links shown below a
  root are those below it in the tables (`TreesShowSubtrees`), a root nothing leads
  to has one row for each of its links (`ChildrenAreLinks`), and the report, whose
  levels hold the ends of paths too (`IdsHoldEnds`), collects the same names
  (`BelowIsCollected`). Pages partition the candidates because their places in the
  sorted list are the numbers from one to their count, each once (`PlacesFill`).
- **CacheInv** says that a request no commit has outrun has read present content.

`Walk` and `subsidiaryIds` are recursive functions, and the prover cannot instantiate
the library's induction theorems, whose parameter is an operator. What they compute is
proved without: among the counterexamples there is a least one (`LeastNatural`, from
the well-foundedness of `<`), and it cannot be. That there is a function with the
recursion's levels at all is proved the same way (`LevelsExist`, `IdsExist`).

The type invariants of `Registry`, `CycleDetection` and `AnalyticsCache` are
proved and in no run; `BatchWriter` is typed by `TxTypes` in `WriterInv`.

Every safety property of the passing runs is a theorem. Only model-checked are the
liveness properties `LeavesQueued`, `EveryJobFinishes` and `Terminates`: they rest on
fairness, and so on `ENABLED`, which the prover does not reason about. The part of
`Terminates` that needs none is proved: every step of the walk leaves a proper subset
of the work that was left before it (`WalkShrinks`), and the graph is finite. The
properties of the violated runs are false.

## 5. Not modelled

- One instance of the service is modelled. With two, the job table still
  decides every claim, but each has an analytics cache of its own that the
  other's uploads do not clear.
- That a transaction which waits gets its turn: locks are PostgreSQL's to hand
  out, and a run may lose every deadlock. What is shown is that nobody waits for
  edges, so whoever has its entities gets through.
- The write of filings is in `SheetValidation`, one upload on an empty table, not in
  `BatchWriter`: no rule relates filings to other tables but their entity. Columns
  no rule relates (region, dates, registered agent) are left out.
- Charts (a), (b) and (d) of the report are counts and sums over rows; (a) uses
  the status that `Compliance` has.
- Floating point: totals are exact in the model, sums of doubles in the code.
- Keys joined and split with `'|||'`, case folding and whitespace of names:
  names are opaque, already normalized.
- A database call that never answers; see Fairness.
- The QStash signature, DTO validation, throttling, error formatting, file
  parsing, health check, suggestions and jurisdictions, and running migrations:
  no state of their own, or pure text.

## 6. Plan

What could come next, in order of importance:

1. Several instances of the service: a cache for each, one table.
2. The filings read of `getAnalytics`, which is newer than the cached base it is
   joined with.
3. Proofs: the part of `EveryJobFinishes` that needs no fairness, as `WalkShrinks` is
   of the walk's end.
