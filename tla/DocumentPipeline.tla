-------------------------- MODULE DocumentPipeline --------------------------
(***************************************************************************)
(* DocumentProcessor.process: the bytes of one artifact become pages,      *)
(* blocks and a status.  Stages that can fail on their own leave a warning *)
(* and let the others go on; the status is read off the warnings at the    *)
(* end.  What a parser, an OCR engine, a table finder or a sidecar file    *)
(* yields is chosen when the stage asks for it.  The processor keeps no    *)
(* state between documents.                                                *)
(***************************************************************************)
EXTENDS FinancialTables, Sequences

CONSTANTS
    PageCount,   \* pages of the file, or sheets of the workbook
    PageKinds,   \* what the native parser can report of a page
    OcrKinds,    \* what the engine can report of a page image
    NativeFinds, \* what the table finder can report of a page: grids in order,
    FinderFails, \* or this, when find_tables raises
    SheetKinds,  \* what the workbook parser can report of a sheet
    Sidecars,    \* sidecar files in the order of their paths: 1, 2, ...
    RawGrids,    \* what a sidecar of this document can hold
    NoGrid,      \* a sidecar of another document, or one that cannot be read
    NoCoverage,  \* image coverage that could not be measured
    NoConfidence \* an OCR result without a score

Page == 1..PageCount

Statement == {NoSection} \cup Sections
Box == {NoBox} \cup (Nat \X Nat)

PageKind == [chars : Nat, coverage : {NoCoverage} \cup 0..100, geometryError : BOOLEAN,
             images : BOOLEAN, headings : SUBSET Sections, blocks : Nat]
OcrKind == [text : BOOLEAN, confidence : {NoConfidence} \cup Int, headings : SUBSET Sections]
Grid == [box : Box, own : Statement, unit : BOOLEAN, header : BOOLEAN, rows : BOOLEAN,
         jagged : BOOLEAN, unplaced : BOOLEAN]
SheetKind == [headings : SUBSET Sections, own : Statement, rows : BOOLEAN, unit : BOOLEAN,
              header : BOOLEAN]
RawGrid == [page : Page, index : Nat, box : Box, status : {"OK", "NEEDS_REVIEW"},
            partial : BOOLEAN, own : Statement, unit : BOOLEAN, header : BOOLEAN]

\* The name of a sheet is one line, which names at most one statement.
ASSUME PipelineAssumption ==
    /\ PageCount \in Nat \ {0}
    /\ IsFiniteSet(Sidecars) /\ Sidecars \subseteq Nat \ {0}
    /\ NoConfidence \notin Int /\ NoCoverage \notin 0..100
    /\ PageKinds \subseteq PageKind /\ OcrKinds \subseteq OcrKind
    /\ SheetKinds \subseteq SheetKind
    /\ \A k \in SheetKinds : \A s, t \in k.headings : s = t
    /\ NativeFinds \ {FinderFails} \subseteq Seq(Grid)
    /\ RawGrids \subseteq RawGrid

VARIABLES
    pc,
    engine,    \* an OCR engine is configured
    fileType,
    content,   \* the parsed pages or sheets
    turn,      \* the page the OCR loop is at
    ocr,       \* OCR results so far, by page
    hits,      \* the statements whose headings were found on each page
    found,     \* what the table finder reported of each page
    tables,    \* the tables extracted
    issues,    \* pages with an issue, for review
    notices,   \* sidecars that could not be read: warnings of the extraction
    rebuilt,   \* the reconstructed tables
    warnings,
    mishaps,   \* history: what went wrong outside pages and tables
    result     \* status, pages and blocks

ocrVars == <<turn, ocr>>
tableVars == <<found, tables, issues, notices>>
vars == <<pc, engine, fileType, content, ocrVars, hits, tableVars, rebuilt,
          warnings, mishaps, result>>

Phases == {"detect", "parse", "assess", "ocr", "classify", "tables", "sidecars",
           "rebuild", "finish", "done", "raised"}
Mishaps == {"class", "tables", "sidecars"}

MinNativeChars == 50
LowCoverage == 5         \* percent
MinOcrConfidence == 60   \* percent

NoResult == [status |-> "NONE", pages |-> {}, blocks |-> {}]

Init ==
    /\ pc = "detect"
    /\ engine \in BOOLEAN
    /\ fileType = "NONE"
    /\ content = <<>>
    /\ turn = 1
    /\ ocr = <<>>
    /\ hits = [p \in Page |-> {}]
    /\ found = [p \in Page |-> <<>>]
    /\ tables = {}
    /\ issues = {}
    /\ notices = {}
    /\ rebuilt = {}
    /\ warnings = {}
    /\ mishaps = {}
    /\ result = NoResult

Step(from, to) == pc = from /\ pc' = to
Return(status, pages, blocks) ==
    result' = [status |-> status, pages |-> pages, blocks |-> blocks]
Warn(ws) == warnings' = warnings \cup ws

(***************************************************************************)
(* File type and parsing.                                                  *)
(***************************************************************************)

Detect ==
    /\ Step("detect", "parse")
    /\ fileType' \in {"PDF", "XLSX", "XLS", "OTHER"}
    /\ UNCHANGED <<engine, content, ocrVars, hits, tableVars, rebuilt, warnings,
                   mishaps, result>>

\* XLS files and unknown types return at once.
NotParsed ==
    /\ Step("parse", "done")
    /\ \/ fileType = "XLS" /\ Warn({"xls_not_supported"})
                           /\ Return("NEEDS_REVIEW", {}, {})
       \/ fileType = "OTHER" /\ Warn({"unsupported_file_type"})
                             /\ Return("FAILED", {}, {})
    /\ UNCHANGED <<engine, fileType, content, ocrVars, hits, tableVars, rebuilt,
                   mishaps>>

\* Any exception of a parser ends in a FAILED result.
ParseFails ==
    /\ Step("parse", "done")
    /\ fileType \in {"PDF", "XLSX"}
    /\ Warn({"parse_failed"})
    /\ Return("FAILED", {}, {})
    /\ UNCHANGED <<engine, fileType, content, ocrVars, hits, tableVars, rebuilt,
                   mishaps>>

ParsePdf ==
    /\ Step("parse", "assess")
    /\ fileType = "PDF"
    /\ content' \in [Page -> PageKinds]
    /\ UNCHANGED <<engine, fileType, ocrVars, hits, tableVars, rebuilt, warnings,
                   mishaps, result>>

ParseWorkbook ==
    /\ Step("parse", "classify")
    /\ fileType = "XLSX"
    /\ content' \in [Page -> SheetKinds]
    /\ UNCHANGED <<engine, fileType, ocrVars, hits, tableVars, rebuilt, warnings,
                   mishaps, result>>

(***************************************************************************)
(* OCR of the pages that need it.                                          *)
(***************************************************************************)

\* Mutant: a blank page is sent to OCR like any page with little text.
OcrReasonNoBlank(page) ==
    IF page.chars >= MinNativeChars THEN "sufficient_native_text"
    ELSE IF page.coverage = NoCoverage THEN "image_coverage_unavailable"
    ELSE IF page.geometryError THEN "image_coverage_incomplete"
    ELSE "insufficient_native_text"

\* decide_page, in its order; only the two reasons named last spare a page.
OcrReason(page) ==
    IF page.chars >= MinNativeChars THEN "sufficient_native_text"
    ELSE IF page.coverage = NoCoverage THEN "image_coverage_unavailable"
    ELSE IF page.geometryError THEN "image_coverage_incomplete"
    ELSE IF page.chars = 0 /\ page.coverage < LowCoverage THEN "blank_page"
    ELSE "insufficient_native_text"

NeedsOcr(p) == OcrReason(content[p]) \notin {"sufficient_native_text", "blank_page"}

\* assess_ocr_quality
OcrAccepted(r) ==
    /\ r.text
    /\ r.confidence # NoConfidence
    /\ r.confidence \in 0..100
    /\ r.confidence >= MinOcrConfidence

Assess ==
    /\ pc = "assess"
    /\ IF \E p \in Page : NeedsOcr(p)
       THEN IF engine THEN pc' = "ocr" /\ UNCHANGED warnings
                      ELSE pc' = "classify" /\ Warn({"ocr_required_but_engine_not_configured"})
       ELSE pc' = "classify" /\ UNCHANGED warnings
    /\ UNCHANGED <<engine, fileType, content, ocrVars, hits, tableVars, rebuilt,
                   mishaps, result>>

SkipPage ==
    /\ Step("ocr", "ocr")
    /\ turn \in Page
    /\ ~NeedsOcr(turn)
    /\ turn' = turn + 1
    /\ UNCHANGED <<engine, fileType, content, ocr, hits, tableVars, rebuilt,
                   warnings, mishaps, result>>

RecognisePage ==
    /\ Step("ocr", "ocr")
    /\ turn \in Page
    /\ NeedsOcr(turn)
    /\ \E r \in OcrKinds :
           ocr' = [p \in DOMAIN ocr \cup {turn} |-> IF p = turn THEN r ELSE ocr[p]]
    /\ turn' = turn + 1
    /\ UNCHANGED <<engine, fileType, content, hits, tableVars, rebuilt, warnings,
                   mishaps, result>>

\* Mutant: the pages recognised before a failure are kept.
OcrFailsKeeping ==
    /\ Step("ocr", "classify")
    /\ turn \in Page
    /\ NeedsOcr(turn)
    /\ Warn({"ocr_failed"})
    /\ UNCHANGED <<engine, fileType, content, ocrVars, hits, tableVars, rebuilt,
                   mishaps, result>>

\* The page cannot be rendered, or the engine fails or answers for another
\* page: OCRFailure, which discards the pages recognised so far.
OcrFails ==
    /\ Step("ocr", "classify")
    /\ turn \in Page
    /\ NeedsOcr(turn)
    /\ ocr' = <<>>
    /\ Warn({"ocr_failed"})
    /\ UNCHANGED <<engine, fileType, content, turn, hits, tableVars, rebuilt,
                   mishaps, result>>

OcrDone ==
    /\ Step("ocr", "classify")
    /\ turn \notin Page
    /\ Warn(IF \E p \in DOMAIN ocr : ~OcrAccepted(ocr[p]) THEN {"ocr_needs_review"}
                                                          ELSE {})
    /\ UNCHANGED <<engine, fileType, content, ocrVars, hits, tableVars, rebuilt,
                   mishaps, result>>

\* Exceptions the processor does not expect of an engine or a table finder
\* leave it: the attempt fails.
Raise ==
    /\ \/ Step("ocr", "raised") /\ turn \in Page /\ NeedsOcr(turn)
       \/ Step("tables", "raised")
    /\ UNCHANGED <<engine, fileType, content, ocrVars, hits, tableVars, rebuilt,
                   warnings, mishaps, result>>

(***************************************************************************)
(* Classification and sections.                                            *)
(***************************************************************************)

\* Mutant: a sheet whose name matches no rule yields a hit.
SectionHitsUnmatched ==
    [p \in Page |->
        IF content[p].headings = {} THEN {NoSection} ELSE content[p].headings]

\* The statements named in the text that OCR read of the page.
OcrHeadings(p) == IF p \in DOMAIN ocr THEN ocr[p].headings ELSE {}

\* Headings in the native text, and in the text OCR read; in a workbook, the
\* first sheet named for a section.
SectionHits ==
    [p \in Page |->
        IF fileType = "PDF"
        THEN content[p].headings \cup OcrHeadings(p)
        ELSE {s \in content[p].headings : \A q \in 1..(p - 1) : s \notin content[q].headings}]

\* No pattern and no declared document type need match.
Classify ==
    /\ Step("classify", "tables")
    /\ \/ UNCHANGED <<warnings, mishaps>>
       \/ Warn({"classification_unmatched"}) /\ mishaps' = mishaps \cup {"class"}
    /\ hits' = SectionHits
    /\ UNCHANGED <<engine, fileType, content, ocrVars, tableVars, rebuilt, result>>

(***************************************************************************)
(* Tables.                                                                 *)
(***************************************************************************)

GridsOf(finds, p) ==
    IF finds[p] = FinderFails THEN {}
    ELSE {Extracted(finds[p][i], p, i - 1) : i \in DOMAIN finds[p]}

\* A page the finder fails on, or one with images on which it finds nothing.
IssuePages(finds) ==
    {p \in Page : finds[p] = FinderFails \/ (finds[p] = <<>> /\ content[p].images)}

ExtractPdf ==
    /\ Step("tables", "sidecars")
    /\ fileType = "PDF"
    /\ found' \in [Page -> NativeFinds]
    /\ tables' = UNION {GridsOf(found', p) : p \in Page}
    /\ issues' = IssuePages(found')
    /\ UNCHANGED <<engine, fileType, content, ocrVars, hits, notices, rebuilt,
                   warnings, mishaps, result>>

\* A ProcessingError leaves no tables and no page issues.
ExtractionFails ==
    /\ Step("tables", "sidecars")
    /\ fileType = "PDF"
    /\ Warn({"table_extraction_failed"})
    /\ mishaps' = mishaps \cup {"tables"}
    /\ UNCHANGED <<engine, fileType, content, ocrVars, hits, tableVars, rebuilt, result>>

\* The used range of each sheet is one rectangular table without a position.
SheetTable(p) ==
    Extracted([box |-> NoBox, rows |-> content[p].rows, jagged |-> FALSE,
               unplaced |-> FALSE, own |-> content[p].own, unit |-> content[p].unit,
               header |-> content[p].header], p, 0)

\* Mutant: the warnings of the extraction are not looked at.
NeedsReviewTables(ts, pageIssues, unread) ==
    pageIssues # {} \/ \E t \in ts : t.status # "OK"

\* TableExtractionResult.needs_review
NeedsReview(ts, pageIssues, unread) ==
    unread # {} \/ pageIssues # {} \/ \E t \in ts : t.status # "OK"

ReviewWarning(ts, pageIssues, unread) ==
    IF NeedsReview(ts, pageIssues, unread) THEN {"table_extraction_needs_review"} ELSE {}

ExtractWorkbook ==
    /\ Step("tables", "rebuild")
    /\ fileType = "XLSX"
    /\ tables' = {SheetTable(p) : p \in Page}
    /\ Warn(ReviewWarning(tables', {}, {}))
    /\ UNCHANGED <<engine, fileType, content, ocrVars, hits, found, issues, notices,
                   rebuilt, mishaps, result>>

\* Sidecars that cannot be read are noted; those of other documents pass
\* unnoticed.  The rest are merged, and their headings count for their page.
LoadSidecars ==
    /\ Step("sidecars", "rebuild")
    /\ \E grid \in [Sidecars -> RawGrids \cup {NoGrid}] :
         \E unread \in SUBSET {s \in Sidecars : grid[s] = NoGrid} :
           LET raw == {Bound(grid[s], s) : s \in {c \in Sidecars : grid[c] # NoGrid}}
           IN  /\ tables' = Merge(tables, raw)
               /\ notices' = unread
               /\ hits' = [p \in Page |-> hits[p] \cup
                              ({t.own : t \in {r \in raw : r.page = p}} \ {NoSection})]
               /\ Warn(ReviewWarning(tables', issues, unread))
    /\ UNCHANGED <<engine, fileType, content, ocrVars, found, issues, rebuilt, mishaps,
                   result>>

\* A sidecar whose JSON is of another shape than load_for expects fails the
\* whole load: none of them is used.
SidecarsFail ==
    /\ Step("sidecars", "rebuild")
    /\ Sidecars # {}
    /\ Warn({"raw_table_source_failed"} \cup ReviewWarning(tables, issues, {}))
    /\ mishaps' = mishaps \cup {"sidecars"}
    /\ UNCHANGED <<engine, fileType, content, ocrVars, hits, tableVars, rebuilt, result>>

\* The text around a table: the page's native text and the cells of the
\* sidecar tables on it, or the sheet's name.  OCR text is not part of it.
Shown(p) ==
    content[p].headings \cup
    ({t.own : t \in {u \in tables : u.path # 0 /\ u.page = p}} \ {NoSection})

Leading(shown) == IF shown = {} THEN {NoSection} ELSE shown

Rebuild ==
    /\ Step("rebuild", "finish")
    /\ \E heading \in [Page -> Sections \cup {NoSection}] :
           /\ \A p \in Page : heading[p] \in Leading(Shown(p))
           /\ rebuilt' = {Reconstructed(t, Hint(hits[t.page]), Shown(t.page), heading[t.page])
                              : t \in tables}
    /\ Warn(IF \E r \in rebuilt' : r.status # "OK"
            THEN {"table_reconstruction_needs_review"} ELSE {})
    /\ UNCHANGED <<engine, fileType, content, ocrVars, hits, tableVars, mishaps, result>>

(***************************************************************************)
(* Blocks and status.                                                      *)
(***************************************************************************)

\* Text blocks, then the OCR block, then the tables, numbered page by page.
TextBlocks(p) == IF fileType = "PDF" THEN content[p].blocks ELSE 0
\* Mutant: tables are numbered from the native blocks on.
OcrBlocksUncounted(p) == 0
OcrBlocks(p) == IF p \in DOMAIN ocr THEN 1 ELSE 0
Rank(t) == Cardinality({u \in tables : u.page = t.page /\ Before(u, t)})

Block(p, i, source) == [page |-> p, index |-> i, source |-> source]

Blocks ==
    (UNION {{Block(p, i, <<"native", i>>) : i \in 0..(TextBlocks(p) - 1)} : p \in Page})
    \cup {Block(p, TextBlocks(p), <<"ocr", p>>) : p \in DOMAIN ocr}
    \cup {Block(t.page, TextBlocks(t.page) + OcrBlocks(t.page) + Rank(t), <<"table", t>>)
              : t \in tables}

ReviewTokens ==
    {"ocr_required_but_engine_not_configured", "ocr_needs_review", "ocr_failed",
     "raw_table_source_failed", "table_extraction_failed",
     "table_extraction_needs_review", "table_reconstruction_needs_review",
     "classification_unmatched", "xls_not_supported"}

TerminalStatus == IF warnings \cap ReviewTokens # {} THEN "NEEDS_REVIEW" ELSE "PROCESSED"

Finish ==
    /\ Step("finish", "done")
    /\ Return(TerminalStatus, Page, Blocks)
    /\ UNCHANGED <<engine, fileType, content, ocrVars, hits, tableVars, rebuilt,
                   warnings, mishaps>>

Next ==
    \/ Detect \/ NotParsed \/ ParseFails \/ ParsePdf \/ ParseWorkbook
    \/ Assess \/ SkipPage \/ RecognisePage \/ OcrFails \/ OcrDone \/ Raise
    \/ Classify
    \/ ExtractPdf \/ ExtractionFails \/ ExtractWorkbook \/ LoadSidecars \/ SidecarsFail
    \/ Rebuild \/ Finish

Spec == Init /\ [][Next]_vars

(***************************************************************************)
(* Properties.                                                             *)
(***************************************************************************)

\* Every variable stays within its type.
TypeOK ==
    /\ pc \in Phases
    /\ engine \in BOOLEAN
    /\ fileType \in {"NONE", "PDF", "XLSX", "XLS", "OTHER"}
    /\ content = <<>> \/ content \in [Page -> PageKinds] \/ content \in [Page -> SheetKinds]
    /\ turn \in 1..(PageCount + 1)
    /\ DOMAIN ocr \subseteq Page
    /\ \A p \in DOMAIN ocr : ocr[p] \in OcrKinds
    /\ hits \in [Page -> SUBSET Sections]
    /\ found \in [Page -> NativeFinds \cup {<<>>}]
    /\ issues \subseteq Page
    /\ notices \subseteq Sidecars
    /\ mishaps \subseteq Mishaps
    /\ \A r \in rebuilt : r.table \in tables /\ r.type \in Sections \cup {NoSection}
    /\ result.status \in {"NONE", "PROCESSED", "NEEDS_REVIEW", "FAILED"}
    /\ result.pages \in {{}, Page}

\* The text of a page can be relied on: there is enough native text, or the
\* page is blank for certain, or OCR read it with a valid, high enough score.
PageReadable(p) ==
    \/ content[p].chars >= 50
    \/ /\ content[p].chars = 0
       /\ content[p].coverage # NoCoverage
       /\ ~content[p].geometryError
       /\ content[p].coverage < 5
    \/ p \in DOMAIN ocr /\ ocr[p].text /\ ocr[p].confidence \in 60..100

\* Tables were looked for on the page, and images do not hide any.
PageSearched(p) ==
    /\ found[p] # FinderFails
    /\ ~(content[p].images /\ found[p] = <<>>)

\* The table is complete, and where the sections found on its page are one
\* statement it belongs to that one.
TableSound(r) ==
    /\ r.table.status = "OK"
    /\ r.table.unit
    /\ r.table.header
    /\ r.type \in Sections
    /\ Cardinality(hits[r.table.page]) = 1 => r.type \in hits[r.table.page]

\* Nothing about the table asks for review: it has all it needs, and the text
\* around it and the headings of its page name no other statement.
TablePlain(r) ==
    /\ r.table.status = "OK"
    /\ r.table.unit
    /\ r.table.header
    /\ r.type \in Sections
    /\ hits[r.table.page] \cup Shown(r.table.page) \subseteq {r.type}

\* A document is PROCESSED only when everything it rests on can be trusted,
\* whichever stage the doubt came from (_terminal_status over the warnings of
\* all stages).
ProcessedIsTrusted ==
    result.status = "PROCESSED" =>
        /\ mishaps = {}
        /\ notices = {}
        /\ \A r \in rebuilt : TableSound(r)
        /\ {r.table : r \in rebuilt} = tables
        /\ fileType = "PDF" => \A p \in Page : PageReadable(p) /\ PageSearched(p)

\* The other way round: review is asked only for a reason.
ReviewHasACause ==
    result.status = "NEEDS_REVIEW" =>
        \/ fileType = "XLS"
        \/ mishaps # {}
        \/ notices # {}
        \/ \E r \in rebuilt : ~TablePlain(r)
        \/ fileType = "PDF" /\ \E p \in Page : ~PageReadable(p) \/ ~PageSearched(p)

\* The blocks of a page are numbered 0, 1, ... without gaps or repeats, text
\* before OCR before tables: document_blocks has one row per page and index.
BlocksNumbered ==
    \A p \in result.pages :
        LET mine == {b \in result.blocks : b.page = p}
        IN  /\ {b.index : b \in mine} = 0..(Cardinality(mine) - 1)
            /\ \A b, c \in mine :
                   b.source[1] = "native" /\ c.source[1] # "native" => b.index < c.index
            /\ \A b, c \in mine :
                   b.source[1] = "ocr" /\ c.source[1] = "table" => b.index < c.index

\* Provenance names one table: two tables of a document never share an id,
\* unless two sidecars claim the same place.
TableIdsIdentify ==
    \A t, u \in tables : t.id = u.id /\ t # u => t.path # 0 /\ u.path # 0

\* A table found in the file is given up only for a full sidecar grid that
\* overlaps it by four fifths of one of the two, be it the smaller
\* (_merge_table_extractions: "Replace only overlapping full grids; partial sidecars
\* supplement native output").
NativeTablesKept ==
    pc \in {"rebuild", "finish", "done"} /\ fileType = "PDF" /\ "tables" \notin mishaps =>
        \A p \in Page : \A t \in GridsOf(found, p) :
            \/ t \in tables
            \/ \E r \in tables : /\ r.path # 0 /\ r.page = p /\ ~r.partial
                                 /\ r.box # NoBox /\ t.box # NoBox
                                 /\ Overlap(r.box, t.box) > 0
                                 /\ \E x \in {r, t} :
                                       10 * Overlap(r.box, t.box) >= 8 * Height(x.box)

\* OCR text is used for every page that needs it or for none, and in the
\* second case the document goes to review.
OcrWholeOrNone ==
    result.status \in {"PROCESSED", "NEEDS_REVIEW"} /\ fileType = "PDF" =>
        LET due == {p \in Page : NeedsOcr(p)}
        IN  \/ DOMAIN ocr = due
            \/ DOMAIN ocr = {} /\ result.status = "NEEDS_REVIEW"

\* A table that does not name its statement is accepted only for one that its page gives
\* it. Either the text around it names that one and no other, and what else was found on
\* the page is a heading that OCR read: such a heading does not stop the table from being
\* taken for what its text shows, although the reading names another statement. Or the
\* text around it names none, and all that was found, by OCR then, is that one statement.
ContextUnambiguous ==
    \A r \in rebuilt :
        r.status = "OK" /\ r.table.own = NoSection =>
            LET p == r.table.page
            IN  \/ Shown(p) = {r.type} /\ hits[p] \ {r.type} \subseteq OcrHeadings(p)
                \/ Shown(p) = {} /\ hits[p] = {r.type} /\ r.type \in OcrHeadings(p)
=============================================================================
