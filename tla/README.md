# A TLA+ development of the Epsilon platform

The platform is a multi-tenant retrieval service. A Gradio frontend talks to a
FastAPI backend (tenants, users, tokens, uploads), which talks to `rag_service`
(ingest, query, channels, reports) over HTTP; `rag_service` runs the
`epsilon_rag` pipeline against PostgreSQL/pgvector and MinIO. These modules
model what the parts do to shared state, check it with TLC on small instances,
and prove the main invariants for every value of the constants with TLAPS.

Paths below are relative to `src/`.

## Inventory

| Component | State it keeps | Operations | Talks to | What makes it hard | What makes it correct |
|---|---|---|---|---|---|
| Ingest pipeline (`epsilon_rag/pipeline/ingest.py`, `rag_service/main.py`, `registry.py`, `core/storage.py`) | tables `reports`, `report_chunks`; MinIO bucket and raw, markdown, metadata objects | `POST /ingest`: upsert the report, eight stages with `_retry`; `DELETE /reports/{id}` | PostgreSQL through a pool of two connections, MinIO, the models | overlapping requests at READ COMMITTED, retries of transactions whose commit was not acknowledged, failures between stages, restarts | rows belong to their report and tenant, documents are indexed whole, objects precede rows, every request is answered |
| Chunker (`chunker.py`) | the chunk being packed, the running section title | one pass over the blocks of a document | called by ingest | five ways to leave a pending chunk, partly reset by `flush` | order, size, page, section and boxes of chunks |
| Extraction (`orchestrator.py`, `layout.py`) | none between calls | layout analysis, then page by page, region by region | Docling, PyMuPDF, RapidOCR, BLIP, the formula model | a failure anywhere must stay local; decisions taken before they are used | no region with content is dropped, pages in order, rendering foresees every engine |
| Region geometry (`layout.py`, `ocr.py`, `figures.py`, `formulas.py`) | none | box to crop: units, origin, clamping, rounding, in four places | extraction | mirrored or transposed boxes, rounding at borders | the engine sees the region |
| Tables (`layout.py` `_resolve_table`, `tables.py`, `arabic_normalize.py`) | none | cells to a grid, normalisation, escaping, Markdown, a cut | extraction | merged and overlapping cells; normalisation makes characters Markdown gives a meaning to | a table reads back as its cells |
| Retrieval (`retrieval.py`, `query.py`) | none between calls | hybrid SQL, PRF, fusion, rerank, neighbours; a channel check on the command line | PostgreSQL, the models | several snapshots per answer while ingests commit; regrouping of results | tenant scope, one version per report, no result lost, order |
| Tenant linking and tokens (`backend/admin.py`, `auth.py`, `jwt_auth.py`, `orchestrator.py`) | `control.channel`, `control.users`, `control.sessions`, tokens | create channel, create and link RAG channel, login, logout | `rag_service` over HTTP | check and write in two transactions around a call that may be late or lost; claims copied for eight hours | a link and a token lead to the tenant's own corpus |
| Uploads (`backend/main.py`, `frontend/app.py` `handle_ingest`) | the shared uploads volume | `POST /upload`, then an ingest of the path | backend, `rag_service` | names shared by tenants, half-written files, callers that give up on jobs that go on | a report serves what its own tenant uploaded |
| Command line (`epsilon_rag/main.py`) | the lists of succeeded and failed files | ingest a file or a folder, one file after another | the same database and objects as `rag_service` | failures and interruption in the middle of a list; other people's ingests and deletions beside it | exit 0 can be relied on |
| Frontend page (`frontend/app.py`) | components of a page, `session_state` on the server | ten listeners | backend | a queue per handler, inputs captured at the click, outputs that overwrite | the screen follows the session; a click acts for who made it |
| Migrations and pool (`scripts/migrate.py`, `core/db.py`, `migrations/`, `db/init_rag.sql`) | the schema, the ledger, pooled connections | one runner per `up` or by hand | PostgreSQL | runners that race, crashes, lost commits, connections configured too early | the ledger is true, exit 0 means migrated |
| Registry reads, configuration, schemas, tracing, presentation forms of Arabic, images | – | – | – | – | not modelled: reads, formatting, configuration, or output only (see the end) |

## Modules

`MC<Module>.tla` gives a module its constants, and there is one `.cfg` per run;
`Migrations` needs nothing but model values and is checked itself, and
`MCExtraction` serves `Regions` too. Where a
property holds under one way of using the system and not under another, a
variable that never changes says which it is (`queued` in `Uploads`, `patient`
in `Console`, `options` of a question in `Retrieval`), so that one run covers
both and the property names its condition.

| Module | Code | State and actions |
|---|---|---|
| `IngestPipeline` | `run_ingest_from_path`, `_retry`, `upsert_report`, `delete_report`, `ensure_bucket` | a worker is a request thread; `pc` is the stage or the statement it is about to run; every SQL statement of a transaction is an action, with the locks it takes (`locked`, `target`, `inserted`) and what it waits for (`WaitsFor`) |
| `ReportStore` | what readers of the store may rely on | reports and the documents each serves: `Register`, `Publish`, `Remove`. The abstract specification of `IngestPipeline` and the store `Uploads` is composed with |
| `Chunker` | `chunk_blocks_with_meta`, the flattening before it | one action per kind of block; text is a length and the positions it comes from |
| `Tables` | `_resolve_table`, `normalize`, `grid_to_markdown` | operators only: cells, their grid, Markdown as a sequence of characters of which those count that mean something to Markdown; and a reader, independent of the code, that takes Markdown apart again. Loops over characters and parts are recursive functions, so that they can be reasoned about |
| `Extraction` | `analyze_document`, `process_document`, `_process_region`, `_render_page_if_needed` | one PDF; a step is the layout, a page, a region. Pages and items that are not done yet are sets (`todo`, `left`), and what comes next is the least of them; `tried` and `denied` are history, the pages whose rendering was tried and the items an engine was wanted for in vain. A table item has the cells of `Tables`, and its block their Markdown |
| `Regions` | `_resolve_bbox`, `_region_worth_ocring`, the crops of the engines | one box; `Resolve`, the gate, the crop, in twelfths of a pixel so that 150 dpi is exact |
| `Retrieval` | `hybrid_query` and everything under it | one question after another, one action per stage, with commits of other requests between them; the results that wait for their context are `left`, and `window` is what the statement for the current report returned |
| `Tenancy` | `create_channel`, `create_and_link_rag_channel`, `login_user`, `_query` | an admin request is two transactions and an HTTP call between them; `late` holds calls whose caller has given up; `tokens` the claims handed out |
| `Uploads` | `handle_ingest`, `upload_file`, `_ingest`, `ingest` | an attempt and its job, which part when the caller gives up; instance of `ReportStore` |
| `CommandLine` | `main`, `_resolve_pdfs`, `_ingest_one` of `epsilon_rag/main.py` | extends `Uploads`: the files of `batch` are attempts that begin at the upsert and read local files; `turn` is the loop, `stop` is `--stop-on-error`; the actions of `Uploads` go on beside it (`Service`) |
| `Console` | every handler of `frontend/app.py` | `page` is the record of components; an event holds the inputs of a click and what its handler returns, which updates the page |
| `Migrations` | `migrate.py`, `_configure_conn`, the pool | a runner's statements, its open transaction (`made`), the ledger, the connections of a service |

How they fit: `Chunker` and `Extraction` are the stages `Extract` and the
chunking of `IngestPipeline` (there a document is the pages of its chunks);
`Uploads` composes the frontend, the volume and the abstract `ReportStore`,
`CommandLine` adds a second writer to that composition, and `IngestPipeline` is
shown to implement the store; `Retrieval` reads the rows
`IngestPipeline` commits (there as versions of a report that are replaced at
once, which is what `WholeDocuments` and the refinement allow a reader to
assume of a single ingest); `Tenancy` says which channel a token may name, and
`Retrieval` that a query stays in it.

## Runs

Twelve runs; nine pass and three show the code doing something else than its
comments say.

* `ingest_safety`: two workers (symmetric), two channels, a file name both
  share, two report ids, a short, a long and an empty document, two attempts,
  three requests. Overlapping ingests and deletions with every failure and
  restart keep rows with their report and channel (`ChunksBelongToReport`),
  index documents whole (`WholeDocuments`), store objects before rows
  (`ObjectsFollowStages`), leave exactly the document of an ingest that nobody
  overlapped, whatever failed or was retried before (`AnsweredIngestStands`),
  and implement `ReportStore` (`ImplementsReportStore`). Two workers give every
  pairwise race, three requests a third party that meets the leftovers, two
  attempts a retry of what was already done.
* `ingest_liveness`: three workers for two connections, so that one must wait,
  on one report: `EveryRequestAnswered`.
* `ingest_mixed` (violation, `OneDocumentPerReport`): overlapping ingests of a
  report leave chunks of both documents. Overlaps arise although the frontend
  serves one ingest at a time: by a caller that gave up after 600 s, by direct
  callers of the API, by the command line.
* `chunker`: all documents of up to four blocks of the kinds, sizes, pages and
  boxes of `MCChunker`, with limits small enough that every branch of the
  packer is met (a block that fits alone, with another, not with another, not
  at all): `BlocksInOrder`, `ChunksAreBounded`, `PagesFollowOrder`,
  `EveryBoxIsCited`, `SectionIsEnclosingHeading`. A chunk depends on what is
  pending and on the next block, so four blocks reach every pair of what may be
  pending and what may follow.
* `extraction`: every document of up to three items on two pages, everything
  switched on, without OCR or with OCR alone,
  every engine failing or not, two blocks per page at most: `InReadingOrder`,
  `ContentIsShown` (a region below the cap that Docling gave text or cells to, or
  a figure, has a block; the block has the region's own text unless that was
  short and OCR read something), `DeniedOnlyAfterTrying` (where `_process_region`
  wanted an engine and had no image, `_render_page_if_needed` had asked PyMuPDF
  for one). Both are recorded where the code decides: what a block shows in
  `TextBlocks`, what was denied in each `Process` action, what was tried in
  `StartPage`. Three items exceed the cap of blocks and can be out of page order.
  And every table of one or two cells, of up to two rows and columns, merged or
  overlapping, with bars, line breaks and the characters that become bars in
  them, cut at 16 characters: `TablesKeepTheirShape`. Two cells are enough for one to cover another, and 16
  characters for tables that are cut and tables that are not. A behaviour of the
  run is about a document or, for the properties of `Regions`, about a box: on,
  across and outside the borders of pages whose size is not a whole number of
  pixels, of both origins, with transposed corners: `CropShowsRegion` (each edge
  of a crop is within a pixel of the box on the page: rounding moves it by half a
  pixel at most, and the last pixel of a page may be cut) and
  `OcrReadsWhatWasGated`.
* `extraction_ocr` (violation, `HeadingsKeepTheirText`): a heading whose text is
  below `ocr_fallback_min_chars` is given to OCR, and what OCR reads replaces it,
  although `orchestrator.py:14` says that headings and footers are never given to
  OCR and `ocr.py:6` that real text is never overwritten.
* `retrieval`: three channels, one of which does not exist, three reports, two
  of them in one channel, up to three chunks each, one commit of another request
  at any moment, with the options `rag_service` asks for and with those of the
  command line: `TenantScoped`, `ResultsSurvive`, `OneVersionPerReport`,
  `ContextIsAdjacent`, `BetterOnBothComesFirst`. Three chunks make a window
  with a neighbour on each side; three results can be two of a report around one
  of another; one commit is enough to separate any two of the statements of a
  question.
* `retrieval_order` (violation, `AnswerIsRanked`): results of two reports that
  alternate in the ranking are regrouped by report, although
  `retrieval.py:473` says that they keep their order.
* `tenancy`: two concurrent admins, two tenants, two names, three RAG channels,
  four requests; calls fail, are lost, or run late, the backend restarts:
  `LinksStayInTenant`, and `LinkIsKept` while no two admins are at it at once (two
  at once do replace a link, see the end). Four requests are a tenant, a link, and two that compete with it.
* `uploads`: two tenants, names of their own or shared, three attempts, any
  timeout, both services restarting, at once or through one queue, and none or
  two of the attempts a batch of the command line, which fails, stops at the
  first error or not, or is interrupted: `OwnDocuments` when no name is shared,
  `AnsweredDocument` for the queue and shared names too, `ExitZeroIsTrue` for
  the batch. Three attempts are two that collide and one that repeats; for the
  batch, two files, of the same name or not, and one ingest beside them.
* `console`: two people after one another at one page, six clicks, handlers
  that wait and answer at any later time: `ScreenMatchesSession`,
  `ChangesAreByAdmins`, and `ConversationIsOwn` for people who wait for each
  answer. Six clicks are a login, two clicks, a logout, a second login and one
  more. Patience is an assumption on people; impatient ones do lose an answer
  (two questions at once) or see one that arrives after a logout.
* `migrations`: the runner of compose and one on the host, two pooled
  connections, two crashes or lost answers, from databases that are new, at any
  older version, current, or made by `init_rag.sql`: `LedgerIsTrue`,
  `ExitsTellTheTruth`, `SettlesEventually`. Either runner may be ahead, behind or
  at the same statement, and crash in its rerun too.

`CHECK_DEADLOCK FALSE` is set for `chunker`, `extraction`, `extraction_ocr` and
`console`, which end when their one document, box or the clicks are used up; no
other model has a state without a successor.

## Fairness

* `IngestPipeline`: a thread goes on (`WF(Progress)`): threads are scheduled,
  calls to MinIO and to the models return, PostgreSQL decides each statement.
  A failure is fair only when it is bound to come (`Refused`): a violated
  constraint, a 404, the victim of a deadlock. Other failures may happen and
  need not.
* `Migrations`: a live runner goes on; one that exited with an error is run
  again (the application waits for `service_completed_successfully`, and
  operators repeat the command); the pool retires connections (`max_lifetime`,
  `max_idle`). Crashes are bounded.

## Proofs

Everything below is proved for all values of the constants that satisfy the
named assumptions: any number of workers, channels, documents, blocks, pages.

* `IngestPipelineProofs`. Type correctness rests on `TypeInv`, which adds what a
  worker at a stage must know (its report, its document, an id that was handed
  out) to `TypeOK`. Safety rests on five families: `LockInv`, what a transaction
  has locked is committed and locked by it alone; `FamilyInv`, the rows it is
  about to publish have one report and channel, and the foreign key cannot go
  under it; `ObjectInv`, stages behind a worker have stored their objects;
  `AloneInv`, what a worker has stored that nobody has overlapped so far; and
  `OwnInv`, what the refinement needs of rows about to be removed. They give
  `TenantIsolation`, `DocumentsAreWhole`, `StagesInOrder`, `AnswersStand` and
  `ImplementsReportStore` (`Refinement`): a commit is one `Publish`, a deletion
  one `Remove`, everything else stutters. `WholeDocuments`
  needs the locks: that a row which survives a commit brings its whole document
  with it holds because a DELETE takes all rows of a report that were committed
  together, or finds them removed together. `AnsweredIngestStands` needs that the
  DELETE of an undisturbed worker names all rows of its report and that nothing
  is committed between it and the end of the transaction, whatever was left by
  earlier attempts of its own.
* `ChunkerProofs`. A step opens, grows or leaves the pending chunk
  (`StepShape`); `PendingOK`, that the pending chunk is what the last blocks
  make of it, is what `BlocksInOrder`, `PagesFollowOrder` and
  `ChunksAreBounded` need and do not say. `BoxesAreCited` needs that the boxes
  of what is pending are those of its blocks, and `SectionsEnclose` what the
  running title is at any time; that the title's length is what the headings
  add up to is an induction over their recursive function.
* `TenancyProofs`. `LinkInv`, `TokenInv` and `RequestInv`: a request that has an
  answer has the id of a channel made for its own tenant, because `Insert`
  makes a channel for one caller and no second answer names it. `LinksAreKept`
  is the action property: as long as a request is alone since the backend came
  up, the row it is going to link has no link (`SoloOK`), for nobody else has
  stepped; it needs `RequestInv` to know that the row exists.
* `UploadsProofs`. `VolumeInv`, `JobInv`, `StoreInv`: what a path, a job's bytes
  and a report hold was chosen for that name; `OwnDocuments` (`NamesIsolate`)
  follows when no two channels use one name, and nothing is claimed otherwise.
  The invariant is stated for the attempts that come from the page (`IInv(js)`),
  because a file of the command line is read without having been uploaded, so
  that the same lemmas serve `CommandSpec` (`NamesIsolateBesideCommand`). That
  exit 0 is true (`ExitCodeIsTrue`) needs `BatchInv`, files before the turn have
  ended and later ones have not begun, and `DoneInv`, what a file that was
  ingested leaves behind until a deletion or a later ingest of its name; both
  must survive every step of the service beside it.
  `QueueInv` is about the page's queue: at most one attempt is waited for, only
  such a one can be uploading, and its file stays in the volume, its own, until
  it is read. It gives `AnsweredDocument` (`QueueAnswersAreTrue`), names shared
  or not: a job that was given up still reads and commits, but nobody is told.
* `MigrationsProofs`. A file refers to what earlier files create (`Referred`),
  and a runner at a file has all earlier ones in the ledger (`RunnerOK`), so no
  statement ever misses anything (`NothingMissing`): a runner fails only because
  it has waited for what another has committed. `SomeoneGoesOn`: without a
  crash, either the schema is complete or some runner is not waiting in vain;
  the one that commits is such a runner. They give `LedgerIsTrue` and
  `ExitsTellTheTruth` for any number of runners.
* `RetrievalProofs`. `IInv`: whatever a query holds at a stage was found in its
  scope by one statement, and a window is one version of one report, though the
  report may have changed since. Then `TenantScoped` and `OneVersionPerReport`
  follow however commits interleave; that positions in a version have no gaps,
  which `ContextIsAdjacent` needs, is the pigeonhole principle. `ResultsInv`:
  results that are placed precede those of their report that are left
  (`NoResultIsLost`). `ContextInv`: how many rows lie between a piece of context
  and its result (`ContextSurroundsResults`, for any number of neighbours).
  `FusionRespectsBothHeads` is arithmetic: for any weights that are not both
  zero and any `rrf_k`, the fused order respects what both heads agree on. The
  proof found an error in an earlier form of the model's score, which lost the
  order for `rrf_k` = 0.
* `ExtractionProofs`, about `Extraction`, `Regions` and `Tables`.
  - The page: `PlaceInv` (what is left is below the cap, of the page at hand),
    `OrderInv` (pages and blocks done precede what is left) and `ContentInv`
    (what is not left and has content is shown by a block) give
    `ReadingOrderIsKept` and `NoContentIsDropped`. `PixelInv`: while a page is at
    hand, its rendering was tried if any of its regions may want an engine; every
    `Process` action then records a denial on such a page only
    (`NoEngineIsForgotten`). An ordinal is a
    cardinality, so that ordinals rise with the items. The types of this module
    are proved (`ExtractionTypeCorrect`) and not checked by a run.
  - The region: `GeometryInv` says what each number is at each stage; that
    rounding moves an edge by at most half a pixel (`RoundIsNear`) and that
    clamping commutes with it (`AxisIsNear`, `AxisAgrees`) give both properties.
  - The table: `MarkdownInv`, a table block carries the Markdown of its own
    item, leaves a fact about operators, `MarkdownReadsBack`. `SplitUndoesJoin`:
    splitting at a mark undoes joining with it, for parts that do not hold the
    mark, which is what normalising before escaping sees to. `PrefixKeeps`: of a
    text that is cut, the reader sees the complete parts unchanged, so that a
    cut costs the last lines and nothing else. `SlotIs`: the cell written last
    into a slot is the one with the greatest index that covers it.
* `ConsoleProofs`. `Typed` adds to `TypeOK` how many questions may still be
  answered and what each handler may return. `SessionInv`: what a login that
  has not returned yet is going to show (`ScreensFollowSessions`). `AdminInv`:
  who clicked what is queued, and with whose token it runs
  (`OnlyAdminsChange`). `PatientInv`: people who wait have one click in flight,
  and its history is what the page shows (`ConversationsAreOwn`).

Every invariant of the passing runs is proved, and so are the two action
properties and the refinement. Only model-checked are the liveness properties, `EveryRequestAnswered` and `SettlesEventually`, because fairness and
`ENABLED` are out of the prover's reach; the three violations are shown by TLC's
counterexamples.

Where a proof follows a loop (sections, tables), it inducts over the numbers as
a set, `S` with 0 in it and closed under successor contains `Nat`, which follows
from the well-foundedness of `<` (`AllNumbers`). The prover has no definitions
for sorting, filtering or folding a sequence: the modules with theorems state
such steps with sets, cardinalities and recursive functions.

Assumptions on constants are named (`ConstantsAssumption`, `SourcesAssumption`,
`RegionsAssumption` and so on) and evaluated by TLC in every run.

## Abstractions

* A document of `IngestPipeline` is the sequence of pages of its chunks; a
  commit's effect on readers is its row set. Titles are left out: a report is
  its channel and file name.
* Waiting for locks: a statement waits for the transactions `WaitsFor` names;
  PostgreSQL's choice of a victim is any member of a cycle.
* Scores, distances and embeddings are arbitrary rankings, constrained only by
  the ORDER BY the SQL has.
* Text is its origin, length, or whether it passes a threshold.
* Expiry of a token is a request that fails; nothing else depends on the time.
* Gradio, PostgreSQL, Docling, psycopg and MinIO are modelled from how the code
  uses them; `PROJECT.json` marks those definitions external.

## Not modelled

Langfuse tracing (output only); model loading and inference, and the filter by
confidence and joining of lines of OCR, which only shape text; presentation
forms of Arabic beyond what normalisation makes of them, and the HTML of a
table; configuration and schemas; argument parsing and printing of the command
line tools, and `channels.py`, whose commands are the endpoints' one row or one
SELECT; `process_page` and `analyze_page`, which nothing calls; images, ports
and Compose files beyond restarts and start order. The counts of `list_reports`
(`rag_service/main.py:296`) come from a second transaction and may belong to
another moment than its rows; they are only displayed.

## Noted on the way

What reading and modelling the code showed beside the three findings; no property
states it.

* Engines: a model that failed to load once is not tried again
  (`_init_attempted`), and its captions, formulas or text are missing silently.
* Ingest: the metadata object can outlive the document it describes. Chunks
  removed by the cascade of a deletion are not counted in its answer. An
  embedder out of memory returns nothing instead of raising, so that the retry
  around it does not see the failure. With retries, requests can wait for each
  other in a circle (an unacknowledged commit, an insert that waits for a
  foreign key, a deletion); PostgreSQL then aborts one, which is why the
  liveness run counts on `Refused`.
* Command line: a folder with `--recursive` may hold files of the same name;
  they are one report, the last one stays, and all are counted as succeeded.
  `.pdf` and `.PDF` are found, `.Pdf` is not, although a comment
  (`epsilon_rag/main.py:197`) says that mixed case is not dropped. A failure to
  reach the database before the loop leaves a traceback and no summary.
* Tables: a cell that ends in a backslash makes the escape of its bar ambiguous
  (`a\|b` becomes `a\\|b`), although `tables.py:58` leaves backslashes to the
  renderer.
* Chunker: a heading that nothing follows becomes a chunk. Chunks are numbered
  over the document and not per page, as a comment of `retrieval.py:143` has it.
* Extraction: a page is rendered on account of a text that is merely below
  `ocr_fallback_min_chars` (`orchestrator.py:579`), although the docstring
  (`orchestrator.py:563`) has it rendered only for text that came back empty and
  skipped otherwise. The code agrees with itself, which is what
  `DeniedOnlyAfterTrying` checks: the rule of the docstring, `NeedsImageIfBlank`,
  is the mutant that breaks it. A PDF that cannot be opened raises. The cap of `max_blocks_per_page`
  cuts text regions too, although `core/config.py:154` speaks of figures, tables
  and formulas. Without a page height a box is mirrored and still valid, so
  that nothing notices.
* Retrieval: PRF takes the first rows of a statement without ORDER BY for the
  best ones (`retrieval.py:253`); context that precedes its result is shown
  above it (`frontend/app.py:217`); a result whose report changes between the two
  transactions comes without its context (`retrieval.py:527`).
* Linking: two requests at once both succeed and the second replaces the first,
  although `backend/admin.py:163` says it fails if the channel is linked.
* Uploads: two channels that share a file name and overlap in time can exchange
  documents.
* Frontend: a question that waits when its sender logs out runs with the token
  of whoever logs in next.
* Pool: a connection that was opened before the extension exists stays without
  the vector types until the pool retires it.
* Comments that call figure captioning disabled (`models/schema.py:28`) are
  older than the code.

## Plan

Done, in the order of what the service promises: the write side
(`IngestPipeline`, `ReportStore`, and their proofs), `Chunker`, `Tenancy`,
`Uploads`, the read side, extraction, the page and the migrations; then the
command line beside the service, tables, the options of `query.py`, and the
proofs of `ExitZeroIsTrue`, `LinkIsKept` and `Migrations`; then the proofs of the
read side, the page, extraction with its tables, and of what was left of the
ingest and the chunker.

Next, for the model:

1. `Retrieval` over the rows of overlapping ingests instead of whole versions,
   which is where `ingest_mixed` would become visible to a reader; and
   `list_reports` beside them.
2. The frontend's statuses and dropdowns, which a page in the queue may refresh
   from an older state.

Next, for the proofs: what these two add; an abstract specification of what a
question may be answered with, which `Retrieval` implements for versions and
for overlapping ingests alike; and that the batch of `CommandLine` and the
service beside it together implement a store with two writers.
