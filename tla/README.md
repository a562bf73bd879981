# Verification of dolico

TLA+ models of dolico, their TLC runs and the TLAPS proofs about them. dolico
takes documents over HTTP, decides page by page which engine should read them
(a Rust shim, an OCR service, a vision tier behind the same service), and keeps
the result under the digest of the bytes.

Run from this directory:

    tlc -workers 2 -config jobs_safety.cfg MCJobStore     # one run
    tlapm DocStore_proofs.tla                             # one proof

`PROJECT.json` lists the runs with their configurations, the source lines of
every definition, the mutant that each property kills, the hazards and the
findings.

## 1. The system

| Part | Source | State it keeps | Operations | Modelled in |
| --- | --- | --- | --- | --- |
| job store and pool | `internal/jobs` | jobs, waiter channels, the queue, closed or not | Submit, Wait, run, SetState, Shutdown | `JobStore`, `JobLifecycle` |
| document store | `internal/blob` | blobs by digest, one directory per document | Put, PutFile, Exists, WriteDerived, ReadDerived, Remove, Sweep | `DocStore` |
| document processing | `cmd/dolico/main.go` 374-479 | a scratch directory per job | processDocument with the asset loop, storedPageCount | `DocStore` |
| retention sweep | `main.go` 185-223, `blob.go` 198-241 | the pass | boot sweep, ticker, Cache.Forget | `DocStore` |
| page cache | `internal/cache` | pages and assets by digest, engine, version, page | Get, Put, GetAssets, PutAssets, Forget, wholesale clear | `DocStore` (a document as a whole), `Router` (pages), `OcrClient` (keys) |
| HTTP API | `internal/api` | none of its own | upload, extract stored bytes, inspect, DELETE, GET | `JobStore`, `DocStore`, `Inspection` |
| configuration | `internal/config` | read once | Load | `Startup` |
| process life | `main.go` 101-370 | tiers chosen at start, stop in progress | start, waits for the service, signal, two drains | `Startup`, `Service` (the start), `JobStore` (the stop) |
| engine registry | `internal/engine/engine.go` | engines in order | Inspect, Kind | `Inspection` |
| router | `internal/engine/router` | one run: pages, scores, reasons | Process, escalateToVision, extract | `Router`, `Escalation` |
| OCR client | `internal/engine/paddleocr` | identity of two tiers, semaphore | New, Extract, shard, adopt, refresh | `OcrClient`, `Shards` (shard), `Startup` (New) |
| OCR service | `python/ocr-service` | the tier it serves, its models | lifespan with its fallback, version, extract | `Startup` (start), `OcrClient` and `Router` (outcomes) |
| shim client | `internal/engine/rustshim` | inspection memo | New, inspect, extract | `Inspection`, `DocStore` |
| Rust shim | `rust/dolico-rs` | none | detect, inspect, extract, exit codes | `Inspection` |
| image engine, stub | `internal/engine/imagedoc`, `ocrstub` | none | Inspect | `Inspection`, `Startup` |
| table assembly | `tables.py`, `canonical.py` | the open row and cell | tags, grid, header rows | `TableGrid` |
| quality | `internal/engine/quality` | none | Score, Disagreement | `TextDistance` (Disagreement), `Router` (scores as numbers) |
| canonical, render | `internal/canonical`, `internal/render` | none | Incomplete, Markdown | `Router`, `DocStore` (Incomplete), `TableGrid` (tables) |
| order of blocks on a page | `layout.py`, `raster.py`, `md.rs`, `pdf.rs` | none between calls | | not modelled |

How they interact. run() reads the configuration, checks the shim, and waits for
the OCR service, which comes up, falls back or dies on its own. Then a handler
stores the bytes, submits a job and perhaps waits for it. A worker runs
`processDocument`: reuse what is stored under the digest, or let the registry
say who reads the bytes and the router consult the tiers through the page
cache, then store the assets and write `canonical.json` and `document.md`.
DELETE and the sweep take the same files away with no lock around a document.
The OCR client talks to a service that can be restarted under it. SIGTERM drains
the HTTP server and then the pool under one 30 s context.

What is hard about it: handlers, workers, main and background goroutines
interleave at critical sections and channel operations; two files per document
are written one after the other by a process that may be killed; a result stored
during an outage must not become permanent; answers come in part; the identity
that keys the cache moves while calls are in flight; removals fail half-way;
assets outlive, or do not outlive, the scratch directory they were found in; a
service is asked while it starts; a model writes tables whose tags do not match.
Section 6 lists what was found; `PROJECT.json` lists the hazards one by one.

## 2. The modules

Every module says in its header what it abstracts, and every definition that
stands for code has its lines in `PROJECT.json`. Definitions under a comment
`MUTANT of X` are X with a plausible bug; no specification uses them.

### JobStore (and JobLifecycle)

The state of `jobs.Store`: `state` and `kind` of each job, `queue`, `closed`,
`waiting` (the channel is in `waiters`) and `woken` (it has been closed). Beside
it, the position of every handler, worker and of main. A step is what runs
between two points where another goroutine gets in: `SubmitRecord` and
`SubmitSend` are apart because `Submit` gives up the lock between them, while
`fail` and `notify` are one step. `WaitOver`/`WaitRegister` are the two outcomes
of one critical section; `WaitWake` and `WaitTimeout` of the select. `Break`
stands for an error and for a recovered panic. `Signal`, `CloseQueue`,
`ShutdownDrained`, `ShutdownExpired` and `MainReturns` are main, `Deadline` is
its context. `ListenFails` is the other way out of run(): the listener breaks, and
the process goes without any drain.

`SetState` has no caller yet; it is modelled because it is an
exported operation that would race the end of a job.

`JobLifecycle` is the abstract specification: each request becomes at most one
job, a job settles once, and an answer that names an outcome names the one the
job settled with. `JobStore` implements it under the mapping `StatusOf`,
`AnswerOf`.

### DocStore

One document and its one asset: the blobs with the age of their modification
time, the two derived files (each named by the job that wrote it), what the page
cache holds of the document, and the shim's inspection memo. Jobs run
`processDocument` one file-system call at a time; `Put` is a rename and
therefore one step. `format` says which way through the router a document takes;
what the router does in detail is in `Router`. Here a "native" document is the
one with an asset, its pages are cached as those of the other formats are, and an
extraction ends "whole", "torn" (complete pages, but the reference to the asset
leads nowhere), as an "outage" (placeholders), or fails.

Assets follow the code from the engine to the blob: `Extract` leaves the asset in
the scratch directory of its job (`scratch`), `PutAssets` puts the path into the
cache beside the pages (`cachedRef` says whose directory), `FromCache` hands that
path to another job, and `StoreAsset` or `LoseAsset` is what `PutFile` comes to
when the directory is there or has been removed. The bytes of the asset may be an
upload of their own, which other requests store and delete (`TwinStored`,
`TwinDeleted`).

`Remove` is two steps, each of which may fail, for DELETE and for the sweep
alike. `Crash` keeps the files and loses everything else.

What a GET answers is a condition on the state, `DocumentServed`,
`MarkdownServed` and `AssetServed`, which the properties use: `getAsset` reads
`canonical.json` first and then the blob its entry names.

`alone` and `purge` are history: which jobs nobody has disturbed since they were
queued, and whether the latest DELETE began with no job in flight ("quiet") and
was answered with 204 since ("gone").

### Router (and Escalation)

One document through `Process`, page by page: who made page `p` of the result
(`by`), what is on it (`read`), the score attached (`quality`), the reasons
(`marks`). A text is a number, its quality; `Blank` is a page without blocks.
`pc` is the tier consulted or a step between tiers. A consultation is
`FromCache` (all pages hit), or `Ask` and then `Answer` (any subset of the pages
asked for, with any text) or `Fails`. `Rank`, `Below`, `Worst`, `Kept`,
`Remaining` and `Replace` are the parts of `escalateToVision`; `TakeProbe` is
`probeVision`. The same bytes are processed again (`Again`) over the same cache,
which `CacheCleared` may empty at any time. Whether two texts disagree is left
open, except where exactly one is empty.

The pages of one answer are cached in one step; the clear between two of its
puts gives cache contents that partial answers give as well.

`Escalation` is the abstract specification: native, OCR, vision and assembly come
one after another, each once. Any page may be read natively; OCR may read pages
that were escalated, or, when it cannot be had, puts placeholders where nothing is
and leaves the native text; vision replaces at most `VisionMaxPages` of the
escalated pages that are there, by text only; assembly fills gaps. The cache, the
engines, the scores, the probe and the choice of pages are hidden. `Tier` says
whose turn it is; inspection, ranking and a probe that is followed by a second
call are stutters. Which pages vision may take (`VisionBudget`) and with which
score (`ScoreIsOfText`) stay properties of `Router`.

### OcrClient

Calls of the two tiers over one semaphore. An OCR call has `width` chunks, each
at a position `at` from "queued" to "filed"; one chunk alone goes without a
token (`Direct`), as in the code. `service` says who serves the tiers and may
`Change`; `name` and `version` are what the client knows. `Learn` (the version,
under the lock) and `Check` (the name) are apart because `extractTier` gives up
the lock between them. `Look` and `Update` are the background refresh of a
failed vision call; its critical sections are one step. The key of a page is
made after the call, as in `Router.extract`, from a name and a version that are
read under the lock one after the other (`ReadName`, `File`). Pages are
abstracted to the chunk they are in.

### Startup, Inspection and Service

`Startup` is `run()` up to the point where it listens, against the OCR service's own
start. `Load` looks at the variables that decide what is served: what is not set has
its default, what does not parse or is out of range refuses the process. A switch
always parses, and a threshold may be NaN, which no comparison refuses (`Above`,
`AtLeast`). Thresholds are whole numbers of steps, `Fine` steps to a hundredth.
`Ask`, `Connected`, `Unconnected` and `Sleep` are the loop of `ocrEngine`, in the
order of the code: the attempt, then the look at the deadline, then the pause. Time
is a number of seconds since the first attempt and moves only in that loop. The
service is a set of uvicorn workers behind one port and has no clock; between any
two steps one of them may start, load its models, fall back to another tier, or die,
each with a `TIER` of its own. Whichever accepts the connection answers `Ask`. `met`
is history: the worker the report is from, as long as it has not died. `Restart` is
the supervisor of dolico.

`Inspection` is `Registry.Inspect` over the engines native, pdf, image and ocr,
with the shim's process (`Detect`, `ShimCall`), its memo (`ShimInspect`), the
errors that are kept or passed over (`Learned`), the word an error is answered
with (`Kind`), and the way of its pages (`Route`): a document without a text layer,
an image or a PDF all of whose pages are scanned (`scans`), goes to OCR alone
(`OCRAlone`), a PDF with some scanned pages to both, any other to the primary
extraction, which detects the format anew by the filename of its own request.
Several requests, inspections and jobs, are for the same bytes under different names.

`Service` composes the two: requests are answered only while the process serves,
and a restart takes the memo and what was in flight.

### TableGrid

A table that a model has recognized, from its HTML to Markdown. First the actions
are the tags, in any order a model may write them, with missing and misplaced ones
and any number of `<thead>`, until the HTML ends (`EndOfHTML`, which keeps an open
row). Then the loops of `parse_table_html` go on one turn at a time: `Skip` passes a
position that is taken, `Place` puts a cell and its shadows, `PlaceRow` goes on with
the next row, `CountHead` counts header rows. `Grid` is what is returned, `Said`
what `writeTable`, or the vision tier's flattening of one column, writes of it.
Cells are numbered in the order of the HTML, so that lost, doubled and displaced
cells can be told.

### TextDistance

`Disagreement`, by which the vision probe trusts or distrusts the OCR of a whole
document. `Normalize` is collapse, the cap, the early returns and the swap of the
sides; then `levenshtein` cell by cell (`Cell`) over two rows that change places
(`NextRow`, `Finish`). The fraction it returns is kept as its numerator and
denominator. The reference, `Edits`, is independent of it: the fewest edits that
any order-preserving match of characters leaves.

### Shards

`shard`: the setting is brought within one and the number of pages (`Clamp`), and
the pages are cut chunk by chunk (`Cut`), the first `pages % n` of which have a
page more.

`MCAlgorithms` runs `TableGrid`, `TextDistance` and `Shards` side by side, one of
them in each behaviour, because none keeps anything between calls.

### How the modules meet

`JobStore` leaves the work open (`Finish`, `Break`); `DocStore` has the work and
leaves the router open (`Extract`, `Outage`, `Fail`); `Inspection` has the first
step of the router, and `Router` the rest, which leaves the engines open
(`Answer`, `Fails`); `OcrClient` has the engine of the OCR and vision tiers;
`Shards` says into how many chunks of pages a call of it is cut (`width`), and
`TableGrid` has what one answer is made of. `TextDistance` decides whether
`TakeProbe` finds that two tiers agree. `Startup` decides with
which tiers all of them run. Each module allows its surroundings to do anything
the next one does. For `Startup` and `Inspection` the composition is a module
(`Service`); for the others it is argued here and not checked.

## 3. The runs

| Run | Question | Bounds |
| --- | --- | --- |
| `jobs_safety` | Is a job lost, run twice, or told wrongly, and does the store implement `JobLifecycle`? | 3 requests, 2 workers, queue of 2 |
| `jobs_liveness` | Do accepted jobs settle, callers wake and the process go? | 2 requests, 1 worker, queue of 1 (the settings 0 and 1; `NewStore` makes one worker of the first) |
| `jobs_submit_panics` (violation) | Can Submit panic? | 2 requests |
| `docs_safety` | After any crash, failure or race, does a job that ends well leave a readable document with the asset it stored, and does a quiet DELETE remove the upload, its extraction and what is cached of it? | 3 jobs, 1 crash, scanned and native documents, a twin of the asset, no sweep |
| `docs_sweep` | Beside the sweep, failing removals and re-uploads, does abandoned data go in the end, assets included? | 1 job, re-uploads, 1 crash, all formats |
| `docs_stale_view` (violation) | Does the Markdown always belong to the JSON? | 3 jobs, 1 crash |
| `docs_cached_assets` (violation) | Does a hit in the page cache keep a good document good? | 2 jobs, no fault at all |
| `router_tiers` | Is a finished document whole, honest about holes, scored as it reads, and within the rules of the vision tier; does the router implement `Escalation`? | 2 pages, 4 texts, all tier sets, probe on and off, cap 1, 2 runs, 1 clear |
| `router_unread` (violation) | Is a document redone when a page was to be read by OCR and was not? | 2 pages, 1 run, OCR tier only |
| `ocr_client` | Are tokens and identities kept, and do calls end? | 1 OCR call of 1-2 chunks, 1 vision call, 2 tokens, 1 change among 3 OCR engines |
| `service` | Does the process come up as it was told or refuse in time, and is each document given to an engine that can read it? | 6 environments (accepted, NaN, unparsable, zero, out of range, out of order), 3 s wait with a pause of 2 and calls of 1, five deployments with 2, 1 or no workers, 2 requests, 2 kinds of filename |
| `algorithms` | Is every cell of a table in the Markdown once, in order, whatever the spans and the tags; is the distance of two texts the edit distance; are pages split fairly? | 3 cells and 2 `<tr>` (a cell outside a row opens one more), of the cells a plain one, a header over two columns and one that spans two rows; texts of up to 4 characters of which 3 are compared; up to 11 pages, settings -1 to 6 |

What the passing runs show, property by property, is in the comment above each
property. The ones to know:

- `Custody`, `RunOnce`, `NoLostWakeup`, `DrainLosesNothing`: the queue, the
  table of channels and the states agree in every interleaving of handlers,
  workers and the stop. A drain that ends in time settles the jobs that no
  worker had started as well; `deploy/README.md:403` says those are lost, which
  is true of a drain that expires.
- `PanicNeedsDeadline`: the order of the two shutdowns protects Submit, up to
  the deadline.
- `DoneMeansServed`, `DoneKeepsAsset`, `QuietDeleteIsComplete`,
  `AbandonedIsSwept`: what the content hash finds is complete, and so is its
  asset. A DELETE with no job in flight removes the upload, the two files and what is
  cached; the asset's blob it leaves, which the model has and section 6 lists.
  `DoneKeepsAsset` leaves out a job whose asset a sweep has
  just taken or another request has deleted; no lock of the code excludes that.
  `docs_safety` checks the first three without the sweep; that they hold beside it
  is proved (section 5), and `docs_sweep` asks only what must happen in the end.
- `HolesAreMarked`: a page carries a reason of `Incomplete` exactly when no
  engine made it, through every tier and every failure.
  `HealthyRunIsWhole`: what earlier runs cached does no harm.
- `ScoreIsOfText`, `VisionBudget`, `AgreementKeepsOCR`, `PaidOnce`,
  `VisionNeverBlanks`: the rules of the vision tier. `AgreementKeepsOCR` still lets
  pages below the threshold be replaced, and `PaidOnce` counts answers and allows a
  second one for the page of a probe when the cache was emptied in between.
- `ImplementsEscalation`: no tier touches what is not its business, and the native
  text of an escalated page outlives an OCR tier that fails. The types of `Router`
  are proved for every value of the constants and are not checked again in a run.
- `TokensAreHeld`, `CallEnds`, `SteadyKeys`, `SwitchIsRefused`: the client.
  `SteadyKeys` is about a service that has not changed, `SwitchIsRefused` about a
  client whose tier no background look has renamed; section 6 says what happens
  otherwise.
- `GivesUpInTime`, `StartSettles`: the deadline of the start against the attempt
  and the pause, from both sides: not too late, and not while the service is there.
- `ConfiguredIsUsed`, `ReportIsTrue`: what is wired is what was configured and
  what the service serves. The tier in the report is that of the worker that was
  asked, through its fallback, until it dies; another worker may serve another tier
  (section 6). That the vision tier is not the engine pages are read with anyway
  holds for every worker, through fallbacks and restarts of one deployment.
- `BrokenMasksNothing`, `SameWord`: engines that fail, decline and accept in any
  combination, with a memo another request has filled. A document some engine has
  accepted is rejected by its own extraction alone, never by inspection or on its
  way to OCR.
- `TextSurvives`, `SpansPointHome`: tables, their headers included.
- `DistanceIsEdits`, `AgreementIsExact`: the number the probe compares with its
  threshold is the edit distance of what is compared, the texts collapsed and cut
  off. Texts that differ after the cap measure zero (section 6 says what else the cap
  does).
- `ShardsAreFair`: no page is lost between two requests or read by two.

Why the bounds are enough. Two workers and two queue places with a third request are
the smallest pool in which two jobs run, one waits and one is refused. Three jobs of
one document let one store an outage, one die half-way and one find the result;
`text` is left to `docs_sweep`, its jobs being those of `scanned` without an outage.
Two pages let every set of a tier be empty, one page or all; a cap of one with two
pages makes the cap bite; four texts lie on each side of both thresholds, on a
threshold (text 2 is exactly `VisionThreshold`), and on an empty page; a second run
is enough to meet what the first one cached. Two tokens and three requests make one
request wait. A wait of 3 with a pause of 2 and a call of 0 or 1 puts an attempt
before, on and after the deadline. Two requests are one that fills the memo and one
that meets it; they are explored where not all workers of the service are deployed,
since nothing they do depends on it, and the start is explored everywhere (the proof
is about the two together). Of two workers one can fall back or die while the other
is up. A cell of each kind is enough for tags and spans: three cells in two rows let
one span push a cell aside, two spans overlap and one reach past the last row, and
cells outside rows make up to five rows. Four characters with a cap of three, a
space in any place, give runs of spaces, spaces at the ends, empty texts, texts that
are cut off, both orders of length, and three changes of the rows; eleven pages in
four requests leave a remainder of three, and the settings lie below one, at it, and
beyond the pages. `MaxRuns`, `MaxClears`, `MaxCrashes`, `MaxChanges`, `MaxCells` and
`MaxRows` bound the counters in the guards and appear nowhere else. One dimension is
left to one value: one vision call is made at a time.

`CHECK_DEADLOCK FALSE` is set in the runs of `Router`, `OcrClient` and
the algorithms: the document has been processed the last time, the calls are over,
the HTML has ended, the distance or the chunks are there.

## 4. Fairness

`JobStore`: the scheduler lets a goroutine that can go on do so, the work and
every wait of the code end by the shim's and the clients' timeouts, and a client
may be slow for ever, so nothing is assumed of handlers that read an upload. The
deadline comes. `DocStore`: the ticker starts passes and a pass goes on; a
removal that may fail does not fail for ever (strong fairness of the success,
for each digest). No fairness of clients or jobs. `OcrClient`: a request is
answered or fails (`http.Client` has a timeout for both tiers); what runs after
it goes on; a channel serves those who wait for a token in turn, which gives a
strong fairness of `Acquire`. Nothing is assumed of the service, the stop or the
refresh. `Service`: a weak fairness of the steps of run(), each of which is a
call with a timeout or a pause; nothing of the service, the supervisor and the
clients. The algorithms need none.

## 5. The proofs

Eight modules prove, for every value of the constants, what the runs check on one
instance. The assumptions are those of the modules, `JobStoreAssumption`,
`DocStoreAssumption`, `RouterAssumption`, `OcrClientAssumption`,
`StartupAssumption`, `InspectionAssumption`, `TextDistanceAssumption`,
`ShardsAssumption` and `TableGridAssumption`: the sorts of the constants, that
`NoJob` is no job, the sets of pages and calls are finite, the caps and the
semaphore are at least one (which `config.Load` and `New` see to), a vision tier
or a probe comes with an OCR tier, an environment has switches where switches are
read and elsewhere numbers or what does not parse, thresholds may be NaN, texts are
sequences of characters, and a call is for at least one page
(which `Extract` sees to), and a cell spans at least one row and one column (which
`_span` sees to). TLC evaluates all of them in the
runs. No step is left out.

*JobStore.* `TypeCorrect`; then `IInv`, with `Custody`, `RunOnce` and
`NoLostWakeup` at its core. None is inductive alone: that a job is not taken
twice needs that an id in the queue or with a worker is a job that was recorded
and sent (`Submitted`), that a worker holds a job exactly between taking and
ending it (`Holding`), and that ids are not shared (`Unshared`); that a channel
is closed once needs to know which handlers can have one (`Channels`). The
parts about the stop say that the queue is closed in the phases after
`CloseQueue` only, and that before the deadline it is closed only when all handlers
have ended. From `Invariance` follow `CustodyHolds`, `RunOnceHolds`,
`NoLostWakeupHolds`, `PanicNeedsDeadlineHolds`, `DrainLosesNothingHolds`, and
`Refinement`: every step of the store is a step of `JobLifecycle` or stutters.

*DocStore.* `TypeCorrect`; then `IInv`: a file has a writer that got that far
and has a result (`Writers`), an undisturbed job finds what it wrote and what it
read at each of its points, its asset included (`Undisturbed`), and a quiet DELETE
has removed so much at each of its points and no job has come back in between
(`Purging`, `Purged`). From it follow `DoneMeansServedHolds`, `QuietDeleteHolds`
and `DoneKeepsAssetHolds`.

*Router.* `IInv` says at each point of a run what is known of every page: that its
maker, its text, its score and its reasons belong together (`Result`), what no
tier can have done yet (`Early`), what each tier is asked for (`Request`), how the
pages for the vision tier were chosen (`Choice`), which pages there must be when
nothing has failed (`Healthy`), and that a page that was paid for is in the cache
until that is emptied (`Paid`). The theorems follow. `VisionBudgetHolds` is
the one that needs arithmetic: the cap keeps a page when fewer than
`VisionMaxPages` targets come before it, and for any finite number of pages the
kept ones are at most so many and no kept page is better than one left out. This
rests on lemmas about the order of the pages (`BeforeOrders`, `FirstIs`,
`LastIs`, by the well-foundedness of < on the naturals) and on cardinalities
(`KeptFew`, `KeptWorst`). `Refinement`: every step of the router is a step of
`Escalation` or stutters. It needs three more facts (`Routed`): OCR is consulted
only when pages are due, its answer holds no page it was not asked for, cached ones
included, and only pages that are due and there are ranked.

*OcrClient.* `IInv` adds to the types that the semaphore counts the chunks in
flight (with the cardinality lemmas for one chunk that enters or leaves), what a
chunk has heard from whom, and that without a change or a renaming the client
believes what was there when it was built.

*Service.* For the start: which checks each phase has behind it (`Wiring`), how late
it can be at each point of the loop and since when some worker is up (`Times`), which
tiers a worker can have come to in its deployment (`Tiers`), what an answer in flight
and the report say of the worker they are from (`Truth`), and that a fallback, which is
from layout to text only, takes none of it back. For the inspections: what is
remembered can be read, under some name (`MemoOK`, `BestOK`), pages go to OCR only
where some are scanned, and the errors a request has
collected, however many the engines gave and in whatever order, leave it one word
that depends on the bytes and the name alone (`ErrsOK`, `Word`), from which
`SameWordHolds` follows for any two requests.

*TextDistance.* Two invariants. One gives every cell its meaning as far as it is
needed for zero: the distance of two beginnings is zero exactly when they are the
same, it is at most the length of the longer one, and what the two rows hold of
cells that are not computed yet is of no account. From it follows
`DisagreementIsExact`. The other (`EditsInv`) says what a cell is: the least price of
a match of the two beginnings that keeps the order. The induction over the lengths
is the run of the program itself, so that one step suffices: a match of two
beginnings leaves the last character of one or of the other, or pairs
the two (`MatchSplits`), and each of the three can be put back (`MatchFewer`,
`MatchLast`), which is what levenshtein takes the minimum of (`CellIsFewest`). As the
program puts the shorter text first, it is also shown that matches can be turned round
at no cost (`FewestTurns`). `RowsFindFewestEdits` follows.

*TableGrid.* `ParsedInv` is about the parser: texts increase along the rows, a cell
that is open comes after all of them, and as long as the HTML is tidy no cell is
missing. `GridInv` is about the layout at every turn of its loops: an origin is a
cell of its own row that has been placed and stands before the position of the
loop, so a later span never covers it; a shadow belongs to an origin that spans
into it, even when it has changed hands; the texts of the origins increase.
`PhaseInv` is about the header rows. With the lemma that a maximum exists (`MaxIs`) the
returned grid has room for all of it, and `CellsSurvive` and `SpansAreReadable`
follow, for any spans and any table.

*Shards.* The invariant says where the loop is after `k` chunks,
`start = k * base + min(k, extra)`, and that those chunks lie end to end. At `k = n`
this is the number of pages, by the law of division with remainder.
`PagesAreSharedOut` follows.

Only model-checked: liveness (`AcceptedSettles`, `WaiterReleased`,
`StopCompletes`, `AbandonedIsSwept`, `CallEnds`, `StartSettles`), because the
prover does not reason about ENABLED and fairness.

## 6. What was found

With a run that shows it:

1. Submit can panic on the closed queue when the HTTP drain runs into the
   deadline (`jobs_submit_panics`).
2. A run that is interrupted between its two writes is not redone when an outage
   has left a `document.md`: old Markdown is served beside the new JSON for ever
   (`docs_stale_view`).
3. The asset entries of the page cache hold paths into a scratch directory that is
   gone by the time of the next hit, and are put there after the pages: a hit
   replaces a complete document by one without its asset (`docs_cached_assets`).
4. A page escalated to an OCR tier that fails keeps its bad native text with no
   reason, so the document counts as finished (`router_unread`).

Met while modelling, without a run (`PROJECT.json` has the lines and quotes):

- Documents and their removal: a job in flight writes a document back while DELETE
  answers 204, and no sweep finds it; a sweep that cannot delete an extraction
  deletes the blob all the same and never comes back to it; DELETE leaves the asset
  blobs, though `README.md:163` names them; the shim's inspection memo survives
  DELETE, which costs memory and nothing else.
- OCR: a failed vision call renames the OCR tier in the background, after which one
  document mixes two tiers; the limit "across all documents" does not hold for calls
  of one chunk; cached OCR pages are given up when the call for the others fails; an
  empty vision answer is marked `vision_failed` as well as `vision_empty`; a page
  cached while another call brings a new identity can be filed under that identity;
  when one of several OCR workers falls back alone, the client refuses the pages of
  every worker that serves another tier than the one that was asked at the start.
- Inspection: the shim's memo is keyed by the digest while its answer depends on
  the filename; bytes without a signature go to the native engine by their extension,
  an image included; a stored document extracted by its digest alone has the
  filename "." and a text file is then rejected.
- Start: durations of zero are refused although zero is documented as "keep for
  ever"; NaN passes every check of a threshold; readiness is asked for at
  `/v1/version`, which answers before the models are there when they load lazily.
- Pages compared: the cap on the texts is said to under-report disagreement only; it
  raises it when the texts differ near their beginnings, because the distance is
  divided by what is left.
- Markdown: what is nested in an item of an ordered list is indented by two columns
  where CommonMark asks for three, so it does not nest.
- Tables: a `<tr>` drops the row that is open with its cells, and a cell that is
  open is dropped by the next one, though comments say otherwise.

## 7. Not modelled

Algorithms without state between calls whose correctness is arithmetic over boxes
or the reading of a text format: the order of blocks on a page (`layout.py`), the
attachment of boxes and tables in `pdf.rs`, the block scanner of `md.rs`, image
scaling (`raster.py`), the signals a quality score is made of, and the rendering
of blocks other than tables. A model of them would repeat them line by line; what
other parts rely on (a score depends on the text alone, an empty page scores zero)
is in the models that use it.

Left out inside modelled parts: the health check and the handlers that read jobs and
statistics, which change nothing; temporary files of `Put` (a failed `Put` changes
nothing); metadata, traces and logging; the addresses, paths, sizes and timeouts of
the configuration; the form that is sent to the service; stored documents of an
earlier pipeline version; the text inside table cells.

## 8. Plan

Done, in the order of importance: `JobStore` with `JobLifecycle`, `DocStore`,
`Router` with `Escalation`, `OcrClient`, `Service` over `Startup` and `Inspection`,
each with its proofs, then `TableGrid`, `TextDistance` and `Shards`, with theirs.
What could follow:

1. The composition of `JobStore` and `DocStore`: a drained stop leaves no half
   document.
2. An abstract document store (absent, being made, readable; DELETE makes it
   absent) that `DocStore` implements as long as DELETE is quiet.
3. The sweep of assets that are in use by a document that is short-circuited, once
   the code says what it promises there.
4. Pure algorithms against a reference over bounded inputs: the grouping of lines
   (`layout.py`), the block scanner of `md.rs` (every line in exactly one block,
   progress at each step), the box attachment of `pdf.rs`.

Liveness stays with TLC, and so do the algorithms of 4 where they are recursive.
