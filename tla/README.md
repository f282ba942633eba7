# Verification of the ingestion and processing core

TLA+ models, TLC runs and TLAPS proofs for the evidence-first investment research
repository. The parts that exist today bring company disclosures from a source into
PostgreSQL and object storage (`src/src/ingestion`, `src/src/db`, `src/src/storage`)
and turn stored files into pages and blocks (`src/src/processing`,
`src/src/services`). Paths below are relative to `src/src/`.

## The system

| Component | State | Operations | Talks to |
|---|---|---|---|
| `ingestion/service.py` `IngestCompanyService` | counters, `publication_ids`, one `ingestion_runs` row | `ingest`: start run, prepare storage, discover, upsert publications, link versions, download and record attachments, finish run | connector, downloader, repositories, object storage |
| `db/repositories/source_publication.py` | `source_publications`: natural key, parent, `is_latest_version`, `processing_status` | `ensure`, `mark_needs_review`, `mark_not_latest`, `link_child_to_parent_and_update_latest` | PostgreSQL row locks |
| `db/repositories/raw_object.py`, `document_artifact.py`, `ingestion_run.py` | `raw_objects` by SHA-256, `document_artifacts` by publication and reference, `ingestion_runs` | `ensure` (insert, on conflict do nothing), `start`, `finish_by_id` | PostgreSQL |
| `storage/minio_adapter.py` | objects by content digest | `ensure_ready`, `exists`, `put`, `get` | MinIO |
| `ingestion/downloader.py` | none kept | download with retry and backoff, size limit, HTML rejection | HTTP |
| connectors (`fixture`, `issuer_ir/fpt`, `hose`, `hnx`, `ssc`) | none | `discover`; HOSE, HNX and SSC only raise | HTTP, a catalog file |
| `services/process_document.py` `ProcessDocumentService` | `document_processing_jobs`, `document_pages`, `document_blocks` | `process_document`, `process_company`, stale sweep, failure recording | storage, pipeline, repositories |
| `processing/pipeline.py` and below | none kept | file type, PDF, OCR fallback, classification, sections, tables, reconstruction, status | libraries |
| `config`, `scripts`, `migrations` | schema, settings | wiring | |

Nothing serialises the services: two operators, or an operator and a scheduler, may
run `ingest` or `process_document` on the same company or artifact at once, in
different processes, and meet only in PostgreSQL and in the bucket. Every
`session.begin()` block is a short transaction of its own and network calls happen
between transactions. The hard behaviours are therefore:

* interleavings of whole runs between any two transactions, and of link transactions
  and output replacements statement by statement;
* runs that die, or fail, between two transactions of one logical operation;
* versions that arrive in any order, are cut off by date windows, or are declared anew;
* the stale sweep, which guesses from a timestamp that an attempt is dead;
* stages of the pipeline that fail on their own, leave a warning and let the document
  go on, so that its status must be read off warnings of many places;
* servers that answer anything, break off or do not answer, and pages whose cards are
  told apart by their titles alone;
* grids whose header band, label column and figures are guessed from the look of cells.

What makes each part correct:

* *lineage*: linked versions form a forest; a lineage has at most one latest row, and
  it is its newest leaf; an unresolved successor or correction is not latest;
* *files*: rows never point to missing bytes and are never rebound; a run's status
  tells what it stored;
* *runs and jobs*: every run and attempt reaches a terminal status;
* *output*: the pages and blocks of an artifact are those of one attempt, whose verdict
  is on record;
* *company calls*: what a call reports is what the job rows say, and no failure that was
  recorded stops it;
* *fetching*: each complete card of a page with a title the parser knows is one document
  with its own date and its own links first, nothing is taken from beyond the next known
  title, and what is delivered is the whole of what one attempt was sent;
* *tables*: what a table that passes without review may lose to its header ends at the first
  labelled amounts below its first header row, and its columns lose a figure only to a label,
  number, code or note column;
* *pipeline*: a document is `PROCESSED` only when nothing it rests on is in doubt, and
  its blocks and table ids identify what they name.

## Modules

| Module | Models |
|---|---|
| `Lineage` | the forest of `parent_publication_id` and the recursive queries over it, as sets |
| `LineageProofs` | theorems about those operators |
| `IngestionRuns` | `ingest`, one action per transaction, storage call or network call |
| `IngestionRunsProofs` | its inductive invariant and the theorems that follow from it |
| `LineageAtomic` | abstract: each link happens in one step, or the run gives up |
| `LineageLink` | `link_child_to_parent_and_update_latest` by statements, with row locks and deadlocks; implements `LineageAtomic` |
| `LineageLinkProofs` | its inductive invariant, and that it implements `LineageAtomic` |
| `ProcessingAtomic` | abstract: an attempt replaces the output of its artifact and records its verdict in one step |
| `ProcessingJobs` | `process_document`: stale sweep, job row, extraction, replacement by statements, failure recording; implements `ProcessingAtomic` |
| `ProcessingJobsProofs` | its inductive invariant, that it implements `ProcessingAtomic`, and the theorems that follow |
| `CompanyProcessing` | `process_company`: the loop over the attempts of `ProcessingJobs` |
| `CompanyProofs` | that its steps are those of `ProcessingJobs`, and theorems about calls |
| `Downloader` | `download`: retries, backoff, size limit, refusal of HTML, the client it opens |
| `SourceConnectors` | pure: what the FPT parser makes of a page, and a catalog of the fixture source |
| `SourceCrawl` | `discover`, then the downloads of what it found; composes the two above |
| `SourceCrawlProofs` | that a crawl implements the downloader's specification, what is delivered and when it gives up, and which documents a page yields |
| `FinancialTables` | pure: grading, ids and merging of tables, and the statement a table belongs to |
| `DocumentPipeline` | `DocumentProcessor.process`, one action per stage, outcome and page of the OCR loop |
| `DocumentPipelineProofs` | its inductive invariants and the theorems that follow from them |
| `TableReconstruction` | `FinancialTableReconstructor.reconstruct`: header band, column roles, label column, rows, verdict |
| `TableReconstructionProofs` | its inductive invariant and the theorems that follow from it |
| `MC...` | instances for TLC |

`IngestionRuns` and `LineageLink` share `Lineage`. The link step of `IngestionRuns`
(`LinkUnder`) is the step of `LineageAtomic`, and the run `link` checks, and the theorem
`LinksAtomic` proves, that the statements of the real transaction, interleaved with those of
others, implement it: that is what justifies one step per link in `IngestionRuns`. `DocumentPipeline` is what
happens inside the one `Extract` step of `ProcessingJobs`, which allows every shape of
result it can return (theorem `ResultsFit`). `ProcessingAtomic` is what the attempts of
`ProcessingJobs` are together to a reader of the tables: the run `output` checks, and the theorem
`ReplacesAtomically` proves, that their statements implement it. `TableReconstruction` is what happens to one grid inside the step
`Rebuild` of `DocumentPipeline`, where `FinancialTables` sums it up in facts of the table;
the property `StatusAsPromised` ties the two. `SourceCrawl` is what happens inside the steps
`Discover` and `Download` of `IngestionRuns`, which allow every list and every failure.

### Lineage

`Subtree(par, r)` is the least set with `r` that is closed under children, which is
what `WITH RECURSIVE lineage` computes; the definition is not recursive, so that
theorems can be proved about it. `Root` is `_find_root`, `LatestLeaf` is
`_latest_leaf_id` with its `ORDER BY published_at DESC, id::text DESC` given as the
constant `PubOrder`, `Cleared` is the union over `roots_to_clear`, and `LatestAfterLink`
is the whole effect of a link on `is_latest_version`.

### IngestionRuns

Shared state: `pubs`, `parent`, `latest`, `review`, `rawObjects`, `artifact`, `runRow`
(PostgreSQL) and `blobs` (the bucket). Local state of a run: `pc`, the document list it
discovered (`feed`), loop positions (`doc`, `att`), the digest in hand (`sha`), the
counters (`tally`), the status it is about to record (`verdict`) and whether it
re-raises (`raises`).

| Code | Actions |
|---|---|
| 79-108 start, `ensure_ready` | `StartRun`, `RefuseRun`, `EnsureReady`, `StorageNotReady` |
| 110-125 discover | `Discover`, `SourceFails`, `Escape` |
| 127-157 upsert loop, `_ensure_publication`, `ensure` | `EnsurePublication`, `UpsertsDone`, `DatabaseFails` |
| 159-221 link loop | `LinkNothing`, `LinkPredecessor`, `PredecessorMissing` then `MarkUnresolved`, `LinksDone`, `DatabaseFails` |
| 223-267 attachments | `SkipAttachment`, `NeedAttachment`, `Download`, `FindRawObject`, `PutBlob`, `InsertRawObject`, `BindArtifact`, `AttachmentFails`, `NextDocument` |
| 269-296 status, `_finish_run` | `AttachmentsDone`, `FinishRun` |
| anywhere | `Escape` (an exception no handler names), `Crash` |

The lookup of a missing parent and the write that follows it share a transaction but
no lock, hence two actions. `Faults` selects the kinds of fault a behaviour may have;
the run `files` has all of them.

### LineageLink

A transaction walks up from the child and from the parent locking each row, then locks
and clears each lineage, sets the parent, elects a leaf and makes it latest. A statement
takes its snapshot when it begins (`Snapshot`) and locks rows one by one in any order
(`LockRow`, `ClearRow`), waiting for a holder. Writes stay private until `Commit`.
`DeadlockVictim` aborts a transaction that waits for itself, and its run stops linking
(the `SQLAlchemyError` branch). Locks that single-row updates outside a link take are
left out: their transactions lock one row each, so they cannot close a waits-for cycle.

### ProcessingJobs

An attempt sweeps (`SelectStale`, then the flushed updates in `CreateJob`), creates its
job, marks it `PROCESSING`, extracts outside any transaction, and replaces the output in
one transaction whose statements are separate actions: read page ids, delete blocks,
delete pages (the statement's snapshot, then the deletion), insert page by page, insert
blocks, commit with the verdict. READ COMMITTED is modelled as far as the code meets it:
a delete ignores rows committed after it began, waits for rows others have deleted,
fails on the foreign key when a page still has blocks, and an insert waits for, then
fails on, the unique page number. `Age` lets the `updated_at` of a job grow older than
`stale_job_after`: for dead attempts always, for living ones only when `Slow`.

The refinement mapping to `ProcessingAtomic` takes the committed tables as they are and adds only
which attempts have ended. Pages and blocks are one set in the abstract module, written by
`Finish` alone, in the step that writes the verdict; a job closed by a sweep may still finish.

### CompanyProcessing

`EXTENDS ProcessingJobs`: each action of a call is the conjunction of an action of the
attempt it awaits and of what the loop does in the same step, for an exception of the
attempt reaches the `except` clause of the loop without another `await` between. The module
adds `loop`, `at` and `counts`; attempts that no call makes go on beside the calls.

| Code (`process_company`) | Actions |
|---|---|
| ticker lookup, artifact list | `ListArtifacts`, `RefuseCall` |
| the outcome's status | `OutcomeCounted` with `CommitResult`, `ColumnOf` |
| `except ProcessDocumentError` | `FailureCounted` with `MarkJobFailed`, `RefusalCounted` with `RefuseAttempt` |
| every other exception | `FailureEscapes` with `CreateFails` or `MarkJobFailedFails` |
| end of the loop | `LoopEnds` |
| anywhere | `CallCrashes` with `Crash`, and the other steps of the attempt |

### Downloader, SourceConnectors and SourceCrawl

A call of `download` keeps the locals of the loop (`attempt`, `received`, `total`,
`lastError`), the seconds slept and the client it opened. In every attempt the server may
send any of `Bodies` in chunks (`Answer`, `Chunk`, `StreamEnds`), break off (`BreaksOff`)
or not answer (`NoAnswer`); a fixture file is read or missing (`ReadFixture`, `NoFixture`).
`Oversized` is the size limit, met chunk by chunk, `Inspect` the refusal of an HTML page
under a PDF's name or type, `Escapes` any exception `except` does not name, a cancellation
among them, and `Close` the `finally` clause.

A page is the sequence of its cards as they are meant: a title, then dates and links. The
parser knows titles only (`Recognised`), and gives each what stands before the next one it
knows (`CardWindow`): a card it does not know is read as part of the one above it. So a known card
may get links of unknown cards right below it, and one without a date gets the date of the
first of them that has one, which makes a document that nobody published; `CardsReadAsMeant`
bounds this (`FromCards`) and does not refuse it. What is picked from a sequence in order is given by its positions (`At`, `Ascending`). The
actions of `SourceCrawl` are `DiscoverPage`, `DiscoverCatalog`, `SourceUnavailable` (the
`SourceError`s, stubs among them), `SourceEscapes` (an HTTP error, a date no calendar has),
then `BeginFetch`, `Fetch` and `FetchEnds` around the steps of the downloader. Rows, storage
and attachments that are there already belong to `IngestionRuns`.

### TableReconstruction

A cell is its kind of text, as far as the regular expressions tell kinds apart: blank or
continuing a merged cell, an amount, a small number, a period in digits or in words, a
unit, a heading, a caption that names a column, other words. One behaviour is one grid.
The code does take rows of data for header rows without a warning: a first row with one
amount, and rows above the first labelled amounts in which the figures are small and few.
`TrustedKeepsData` says how many and which rows a trusted table may lose so, not that none is.

| Code (`reconstruction.py`) | Actions and operators |
|---|---|
| rows above the header | `SkipLead`, `OnlyLead`, `BeginBand` |
| `_split_header_band` | `TakeRow`, `TakeUncertainRow`, `EndBand`, `CloseBand`, `LooksLikeHeader`, `LooksLikeData` |
| `_columns_from_band`, `_role_from_header` | `ColumnsFromBand`, `Carried`, `RoleFromHeader` |
| `_pick_label_column` | `PickLabelColumn` |
| `_body_row`, `_row_kind` | `ReadBody`, `KindOf`, `Values` |
| `_resolve_type`, warnings, status | `Grade`, `GradeWarnings`, `ReviewTokens` |

### FinancialTables and DocumentPipeline

The processor keeps nothing between documents, so one document is the whole behaviour.
What a library reports (a page, an OCR reading, the grids of a page, a sidecar) is
chosen from a constant set when its stage runs, and may be anything those sets allow.

| Code | Actions and operators |
|---|---|
| `file_type.py`, `process` 133-169 | `Detect`, `NotParsed` |
| `pdf/native.py`, `excel/parser.py`, `_failed` | `ParsePdf`, `ParseWorkbook`, `ParseFails` |
| `pdf/detector.py` `decide_page` | `OcrReason`, `NeedsOcr` |
| `pipeline.py` 202-216, `ocr/fallback.py`, `ocr/quality.py` | `Assess`, `SkipPage`, `RecognisePage`, `OcrFails`, `OcrDone`, `OcrAccepted` |
| classifier, `sections/detector.py` | `Classify`, `SectionHits` |
| `tables/extractor.py` | `ExtractPdf`, `ExtractionFails`, `ExtractWorkbook`, `Extracted`, `ExtractionStatus`, `IssuePages` |
| `tables/raw_source.py`, `_merge_table_extractions` | `LoadSidecars`, `SidecarsFail`, `Bound`, `Merge`, `Replaces` |
| `tables/reconstruction.py`, `_section_hint_for_page` | `Rebuild`, `Hint`, `Shown`, `ResolvedType`, `Conflict`, `Reconstructed` |
| `_pdf_blocks`, `_excel_blocks`, `_terminal_status` | `Blocks`, `Rank`, `TerminalStatus`, `Finish` |
| exceptions no handler names | `Raise` |

`content`, `ocr`, `hits`, `tables`, `rebuilt` and `warnings` are the local variables of
`_process_pdf` and `_process_xlsx`. `mishaps`, `found` and `issues` remember what went
wrong and where, so that properties can be stated about facts and not about warnings.
The data is abstracted to what decides a document's fate: a page is its length, image
coverage and headings; a grid is its box, whether it has rows, a header band, a unit and
a heading of its own. A box is a vertical strip, for the grids of one page share its
width. Which of several headings has priority is left open, as it depends on wording. OCR
text counts for the sections found on a page (`hits`), not for the text around a table (`Shown`):
`ContextUnambiguous` says what that lets through, a table taken for the statement of its text
although the OCR reading names another. A document is classified or not: every pattern and every declared type clears the
threshold, and no language model is wired in.

## Runs

| Run | Asks |
|---|---|
| `lineage` | two runs over chains listed in either order, cut by windows or declared anew, crashes and failing transactions: one latest version per lineage; with whole lists that agree it is the newest leaf; unresolved versions are not latest; completed runs leave their links, where lists agree; lists that agree and are oldest first never leave a version and one it supersedes both latest |
| `files` | two runs over two documents whose files may share bytes or change, every fault, weak fairness: artifacts resolve and are immutable, status and counters tell the truth, runs settle |
| `link` | three runs over four versions, statement by statement: links are atomic, deadlocks end and one run gets through |
| `output` | three attempts at one artifact of two pages, slow ones and every fault: output is whole and not lost, each replacement happens in one step with its verdict, stale jobs are recovered |
| `company` | a call over two artifacts beside another attempt at one of them, none slow, every fault, weak fairness: the summary agrees with the jobs, only an unrecorded failure stops the call, verdicts are final, calls and attempts end |
| `pipeline` | one document of two pages or sheets through every stage: a `PROCESSED` document is trusted and review has a cause, blocks are numbered and table ids identify, native tables give way only to full sidecar grids that overlap enough, OCR is whole or none, an unnamed table is accepted only for the one statement its text names or, where it names none, the one OCR found |
| `tables` | every grid of up to four rows, and five that may be headers, in four surroundings: from the first labelled amounts below its first header row on, a trusted table has every row in its body; it reads the figures of its value columns, and its status is the one `FinancialTables` promises |
| `source` | pages of up to three cards, catalogs, windows, and servers that do anything: complete cards are read with their own dates and links, borrowing stays within the reach of a known title, files come whole, a call gives up last, fetching ends with its clients closed |
| `newest_first`, `late_parent`, `escape`, `pending` | the four findings below |

Bounds. Three versions are the fewest with an intermediate version, which both lineage
findings need; four in `link` let a version move between two lineages. Two concurrent runs
show every pairwise race, and `link` and the processing runs have three, so that one waits
for two others. Two attachments with two digests are enough for shared, distinct and changed
bytes, and one list names a publication twice. Two pages let a replacement be half inserted;
in `company` one page each is enough, for its questions are about verdicts and waits, and its
three attempts let one artifact be free and the other contended. Loops are bounded by the
lists, and the pipeline by its stages, so no counter needs an artificial bound. In
`pipeline`, two pages give the OCR loop a first success and a second failure; page and
reading kinds lie on either side of each threshold; two statements make a page ambiguous; two
sidecars can overlap the same grid, fully, partly or not enough. In `tables`, three columns
hold a label, a code and a value or two labels; thirteen kinds of row stand on either side of
every test of a row; the band's limit of four rows (`MaxBand`, the code's) is passed by five.
In `source`, `MaxRetries` is 3 so that there is a first, a middle and a last attempt,
`MaxSize` is 3 bytes with bodies just at it and just above, in one chunk or two, and three
cards are a known title, one below it and an unknown one between or after them. Runs and
attempts are symmetric wherever only safety is checked.

Fairness. `FairSpec` gives each run (attempt) weak fairness of its own progress: a run
is a coroutine the event loop resumes, its HTTP client, database driver and storage
client have timeouts, and nothing else can disable its next step for ever. In
`LineageLink` the statements are fair because the server executes them, and the victim
because PostgreSQL looks for deadlocks whenever a lock wait lasts. `CompanyFairSpec` does the
same for each call, which is one coroutine with the attempt it awaits, and for attempts
elsewhere that have begun. `CrawlFairSpec` lets the event loop run what can run, and has every
wait for a server end, in bytes, the end of the stream or the timeout httpx is given; which of
them is left open. Faults are never fair. No property needs strong fairness.

### Findings

1. `newest_first` (`NoTwoDeclaredLatest`). With v3, v2, v1 in the list, v1 is inserted as
   latest, the link v3→v2 makes v3 latest, and an interruption before v2→v1 leaves both.
   The comment at `ingestion/service.py:335` promises the opposite. Where every list is
   oldest first, and none gives a version another predecessor than the rest, it holds
   (`OldestFirstOneDeclared`, run `lineage`, theorem `OldestFirstApart`).
2. `late_parent` (`NewestLeafLatest`). The parent's absence is read without a lock; when
   the parent arrives and is linked before `mark_needs_review` writes, the linked leaf
   loses its flag and the lineage has no latest version
   (`db/repositories/source_publication.py:261`).
3. `escape` (`FailureRecorded`). Only `SourceError` is recorded while discovering; the
   `httpx` errors of the FPT connector leave the run `RUNNING` (`docs/source-policy.md`,
   rule 5).
4. `pending` (`DeadAttemptsTerminal`). The sweep selects `PROCESSING` rows only; a job
   whose process died while it was `PENDING` stays so (`services/process_document.py:158`).

## Proofs

`LineageProofs` shows, for any set of publications and any total order, that subtrees
are closed and least, that every row of an acyclic forest has exactly one root
(`RootExists`, `RootUnique`), that a lineage has a latest leaf, and that a link, or the
insertion of a latest row, keeps at most one latest row per lineage (`LinkKeepsOneLatest`,
`InsertKeepsOneLatest`).

`IngestionRunsProofs` proves `Spec => []IInv` (`Inductive`), and from it `TypeCorrect`,
`AtMostOneLatest`, `ArtifactsAlwaysResolve` and, as an action property,
`ArtifactsNeverRebound`. `OneLatestPerLineage` is not inductive: a link is safe only if
rows and links are such that roots exist. `IInv` adds that links join stored rows and
follow what a source declares (`LinksInv`, hence no cycle), and what each run has done by
each phase (`RunInv`): its batch is stored before it links, its digest is in the bucket
before the row that names it, and that row exists before the artifact. Each action is
one step of the proof; actions of one run leave the `RunInv` of others alone because
stores only grow (`RunInvOthers`, `StoresGrow`).

Its second part goes on from `IInv`. `UnresolvedStaysBack`: only an insert and a
link make a version latest; an insert does not for a successor or a correction, and a link
elects a row of a lineage that has links, so one that has no parent is a root, and the leaf it
elects is another row (`ElectedIsLinked`). `CompletedStored` follows a run through its loop
with `StoredInv`: as long as nothing has failed, every attachment up to the position at hand
is bound, and bound artifacts stay (`ArtifactsKept`), so other runs cannot undo it.
`StatusTellsCounts` (`StatusMatchesCounts`) counts: `CountInv` says that the counters of a run
in its loop add up to the attachments it has passed, a set whose cardinality grows by one with
each attachment and reaches that of the whole list at the end.

The third part is about the election, with `VersionsInv`:

* `CompletedLinked` (`CompletedLinksVersions`): a run has linked what it has passed, its lookup
  finds every predecessor its own list stored, and where lists agree no other run links a
  version elsewhere (`FeedInv`, `LinkedInv`).
* `WholeListsElect` (`WholeListsNewestLatest`): a link under a parent that is stored leaves the
  newest leaf latest in the lineage it makes, and the lineages it does not touch as they were
  (`LinkKeepsNewestLeaf`, `UntouchedLineage` of `LineageProofs`). Whole lists store every
  predecessor before anything is linked, so no version is marked for a missing one.
* `OldestFirstApart` (`OldestFirstOneDeclared`): a latest version without predecessor was given
  without one (`FirstInv`), and a version is linked only after its predecessor is (`ChainInv`),
  so what supersedes a latest first version is not linked, hence not latest.

`HandledIsRecorded` (`FailureRecorded`, for `"escape" \notin Faults`) is the other side of finding
3: every exception the code handles goes through `_finish_run` before it leaves, so unhandled ones
are the only way round the record.

Lists that disagree are excluded from the election theorems because they are false there, as TLC
shows: a list that moves v3 from v1 under v4 clears both lineages and elects in the new one only,
which leaves the old one, where v2 still stands under v1, without a latest version; and a
list that gives a version no predecessor makes it latest beside a list that names one.

`LineageLinkProofs` proves `LinksAtomic`, that the statements of the link transactions implement
`LineageAtomic`, for any number of runs, links and versions without a cycle; `LinkTypeCorrect`
and `OneRunLinksAll` (`SomeRunLinksAll`) come with it. The refinement mapping sends `Commit` to
the atomic `Link`, `DeadlockVictim` to `Fail`, and every other statement to a stutter. That a
commit is that link is the invariant `LinkIInv`: from its walks on, a transaction holds locks
on a path from its child, and from its parent, up to a root (`PathUp`, `Held`), and every commit
by another run writes only rows of the two lineages whose roots that run holds. Roots of
different holders are different rows, so the lineages are apart (`OthersLineage`), and neither
the roots found, nor the rows the snapshots of the running statements have to lock and clear
(`Account`), nor the leaf elected without a lock (`OthersElection`) can change before the commit.
A victim waits for a transaction that holds a row, and one that has ended holds none: so one
run is always spared (`SparedStep`).

`ProcessingJobsProofs` proves `OutputIsWhole`, `OutputIsOnRecord`, `PagesStay`,
`StaleIsRecovered` and, for `Slow = FALSE`, `VerdictsAreFinal`, for any number of attempts,
artifacts and pages. `OutputWhole` alone says nothing of open transactions. `TxInv` adds what
the transaction of each attempt has deleted and inserted by each of its statements: the pages
it has deleted are all of the artifact's or none, the blocks it has deleted are exactly those
before the pages go, what it inserts is a prefix of its own pages, and it has inserted nothing
unless everything stored before is among its deletions. `Exclusive` adds that no two open
transactions delete the same row, and that only one inserts into an artifact: every
replacement inserts page 1 first, so the unique key keeps a second one out
(`FirstPageFirst`). `SweepInv` follows what a sweep has selected to its update. The proof has
one lemma per statement (`TxSelectPages` ... `TxInsertBlocks`), one for the other steps and
one for the commit. `ReplacesAtomically` (`ReplacementsAreAtomic`) shows that they
implement `ProcessingAtomic`: `CommitResult` maps to `Finish`, the ends without a result to
`GiveUp`, the creation of a job and its mark to `Begin` and `Work`, every other statement to a
stutter. What a commit makes visible follows from `TxInv` at its last phase and from `MadeInv`
(the blocks inserted are those of the pages inserted): with pages to store, all rows of other
attempts at the artifact are among its deletions; without any, it has deleted all the artifact
had when it looked, or nothing, in which case what another attempt has stored since stays. `LiveInv` says that without slow attempts only jobs of dead ones are ever
overdue, selected or closed.

`CompanyProofs` shows `CompanyImplementsJobs`: a behaviour of `CompanySpec` is one of `Spec`
of `ProcessingJobs`, so every theorem above holds of company calls. From it and an invariant
of the loop follow `OnlyUnrecordedBreaksOff` and, for `Slow = FALSE`, `SummaryIsTrue`: each
count is the number of the listed jobs before the position at hand that have that status, and
`VerdictFinal` keeps them so.

`TableReconstructionProofs` proves `DataKept` (`TrustedKeepsData`), `FiguresRead`, `StatusPromised` and
`ReconstructionTyped` for every grid, from an invariant in four parts: where the scan stands,
what the rows of the band look like (none below the first of labelled amounts), what the columns and rows were read as, and that the
warnings are exactly those the facts call for. `StatusPromised` is the statement that the
`Rebuild` step of `DocumentPipeline` grades a table as the code does.

`SourceCrawlProofs` shows that a crawl is a sequence of calls of the downloader
(`CrawlDownloads`, `CrawlSpec => DownloaderSpec`), that what is delivered is whole
(`CrawlDeliversWhole`) and that a call gives up last (`CrawlGivesUpLast`), for any pages,
catalogs, servers and limits: what has been received is always the first chunks of the body at
hand, `total` was compared with the limit, and the seconds slept are the pauses before the
attempt at hand (`PausesInv`). `Backoff`, their sum, is a recursive function; that it has the
values of its recursion is proved by induction in first-order form: a set of naturals has a
least element (`LeastNatural`), from the well-foundedness of finite sets under inclusion.
`CrawlReadsCards` (`CardsReadAsMeant`) is about pages of any length: `Ascending` exists for every
finite set of positions and runs through all of it (`AscendingExists`, `AscendingLists`, by
cardinality), the positions listed are exactly those of titles with a date and a link in their
window, and `FlattenSeq` begins as the first of its parts that is not empty (`Begins`, `Flattened`). So a
complete card is a document with its own date, and its own links before any of a card the parser
does not know (`OwnComesFirst`), and every document is of one known card, in the order of the page,
with a date and links from its reach (`ListedFromCard`, `FoundFromCards`).

`DocumentPipelineProofs` proves `Spec => []IInv` (`PipelineInductive`) and from it
`Trusted` (`ProcessedIsTrusted`) and `WholeOrNone` (`OcrWholeOrNone`), for any number of
pages and sidecars and any contents of them. `ProcessedIsTrusted` speaks only of the
end, so `IInv` says for each stage already passed that a doubt it had has left its
warning: `OcrInv` for pages (with the invariant of the OCR loop: exactly the pages
before `turn` that need OCR have been read), `FlagInv` for failed stages and sidecars,
`TableInv` for pages not searched, `RebuiltInv` for tables. There is one lemma per part
and in it one step per action. `SparedIsReadable`, `AcceptedIsReadable` and
`AcceptedIsSound` carry what `decide_page`, the OCR verdict and reconstruction establish.

Its second half goes the other way and follows the tables. `FullInv` adds to `IInv`:
`OriginInv` (a table is a grid the finder reported of its page, the sheet, or a sidecar),
`KeptInv` (until sidecars are merged every grid is there, and the merge drops one only for a
full grid over it), `HeadInv` (the headings around a table are among the sections found on its
page, which has besides only those that OCR read; in a workbook it has at most those) and `CauseInv` (every warning that asks for review
rests on something that went wrong, and no later step takes that away). `Frames`, `Reached` and
`Sources` say once which steps write what, and where each warning comes from. From `FullInv`
follow `ReviewCaused` (`ReviewHasACause`), `TablesKept` (`NativeTablesKept`), `ContextDecides`
(`ContextUnambiguous`), `IdsIdentify` (`TableIdsIdentify`), `TypeCorrect` (`TypeOK`) and
`Numbered` (`BlocksNumbered`). The last needs `PlaceInv`: no two tables of a page share index
and path, so `Before` orders them, `Rank` is a bijection onto 0, 1, ... (`RanksNumber`, by
cardinalities of finite sets) and the indices of a page are exactly as many as its blocks.
`ResultsFit` closes the gap to `ProcessingJobs`: what `process` returns is a whole document with
`PROCESSED` or `NEEDS_REVIEW`, or nothing with `NEEDS_REVIEW` or `FAILED`, as `Extract` has it, and
each block lies on a page of the result, so none is dropped when it is stored.

Assumptions: `LineageAssumption` (the order of versions is total), `IngestionAssumption`
(lists of documents, and what a source declares has no cycle: `_find_root` would not end
on one), `LinkAssumption` (some run links, and what is stored and linked has no cycle, for the same
reason), `TablesAssumption` and `PipelineAssumption` (statements and sidecar files are
finitely many, a document has pages, the constants have the fields and types of the records
they stand for, headings name known statements, the name of a sheet at most one, a sidecar names
a page of its document), `ProcessingAssumption` (an
artifact has at least one page), `CompanyAssumption` (a call makes an attempt of its own for
each artifact), `ReconstructionAssumption`, `DownloaderAssumption` and `CrawlAssumption` (types
of the constants, at least one attempt, sizes are natural numbers). `VerdictsAreFinal` and
`SummaryIsTrue` assume `Slow = FALSE`, that no attempt outlives `stale_job_after`. TLC
evaluates the assumptions of a module in every run of it.

Only model-checked: liveness (`RunsSettle`, `LinksEnd`, `CallsEnd`, `FetchingEnds`), which is
out of the prover's reach. Every other property of the passing runs is a theorem. The properties
of the findings are refuted by TLC; of them `FailureRecorded` is proved for the faults the code
handles.

## Left out

* Publication metadata refreshed on conflict (`title`, `published_at`, ...): `PubOrder`
  is constant, so a source that re-dates a version is not covered; `publications_created`
  and error texts.
* A commit whose acknowledgement is lost: it shows as the step followed by `Crash`, but
  not as the step followed by an error branch.
* NULL `published_at` is part of `PubOrder` (the query sorts it first).
* `ProcessingJobs` takes every page to carry blocks, drops blocks of page numbers without
  a page as the code does, and deletes the rows of one statement together: a deadlock
  between two such deletes is an attempt that fails (`AttemptFails`).
* In `DocumentPipeline`, a heading wrapped over two lines, a sidecar that names a page the
  document does not have, and page numbers of a workbook that skip chart sheets.
* In `CompanyProcessing`, artifacts stored while the call runs: the code lists ids once, and so
  does the model. One attempt is made per listed artifact.
* In `SourceCrawl`, the regular expressions of the parser and the file name read from a link;
  in `TableReconstruction`, the regular expressions that tell kinds of text apart, and boxes and
  column spans of cells, which it passes on and decides nothing on.

## Not modelled

* `ingestion/versioning.py`, `ingestion/deduplication.py` and the legacy document
  repository: only tests call them, so nothing of the running system depends on them.
* The backfill of migration 003: a script that runs once, by hand, on a stopped system.
* `get_document` of the connectors and `delete` of the storage adapter: no caller.
* HTML, PDF, OCR and spreadsheet libraries, of which the models choose the outcome; the wording
  of headings, patterns and titles; byte signatures beyond the kinds the downloader asks about.
* Settings, company lookups, construction and command line scripts: no state of their own.

## Plan

1. *Done*: `Lineage`, `IngestionRuns`, `LineageLink`, `ProcessingJobs`,
   `FinancialTables`, `DocumentPipeline`, and the proofs above.
2. *Done*: `Downloader`, `SourceConnectors`, `SourceCrawl`; `CompanyProcessing`;
   `TableReconstruction`; the proofs of `ProcessingJobs`, of `CompletedMeansStored` and
   `UnresolvedNeverLatest`, of every property of `DocumentPipeline`, and of the new modules.
3. *Done*: `ProcessingAtomic`, implemented by `ProcessingJobs`, and `ResultsFit`, which ties
   `DocumentPipeline` to the `Extract` step of `ProcessingJobs`.
4. The precedence of the classifier's patterns as a pure operator against a reference.
5. *Done*: proofs of every safety property of `IngestionRuns`, `LineageLink` and `Downloader`
   that the passing runs check, and of `CardsReadAsMeant`, with selection and order as functions
   the provers can expand.
