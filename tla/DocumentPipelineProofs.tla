------------------------ MODULE DocumentPipelineProofs ------------------------
(***************************************************************************)
(* A document is PROCESSED only when every stage vouches for it, for any   *)
(* number of pages, any page, table and sidecar contents and any failures. *)
(* The inductive invariant says, stage by stage, which doubts have already *)
(* left a warning; a second one says where tables come from and what every *)
(* warning rests on.                                                       *)
(***************************************************************************)
EXTENDS DocumentPipeline, FiniteSetTheorems, TLAPS

OcrTokens == {"ocr_required_but_engine_not_configured", "ocr_needs_review", "ocr_failed"}

Parsed == {"classify", "tables", "sidecars", "rebuild", "finish"}

\* The document came through every stage to a status of its own.
Judged == pc = "done" /\ result.status # "FAILED" /\ fileType \in {"PDF", "XLSX"}

\* The phases fit the file type, and only a returned result has a status.
PhaseInv ==
    /\ pc # "done" => result.status = "NONE"
    /\ pc \in {"assess", "ocr", "sidecars"} => fileType = "PDF"
    /\ pc \in Parsed => fileType \in {"PDF", "XLSX"}
    /\ pc \in {"detect", "parse"} => mishaps = {} /\ notices = {} /\ rebuilt = {}
    /\ result.status = "PROCESSED" => /\ Judged
                                      /\ warnings \cap ReviewTokens = {}

\* Headings and pages are those the constants allow.
DataInv ==
    /\ pc \in {"assess", "ocr"} \cup Parsed /\ fileType = "PDF" =>
           content \in [Page -> PageKinds]
    /\ pc \in Parsed /\ fileType = "XLSX" => content \in [Page -> SheetKinds]
    /\ DOMAIN ocr \subseteq Page
    /\ \A p \in DOMAIN ocr : ocr[p] \in OcrKinds
    /\ hits \in [Page -> SUBSET Sections]
    /\ \A t \in tables : t.page \in Page /\ t.own \in Statement

\* The loop has read every page before its turn that needs OCR; afterwards
\* every page is readable or a warning about OCR is left, and OCR text is there
\* for all pages that need it or, with a warning, for none.
OcrInv ==
    /\ pc \in {"detect", "parse", "assess"} => DOMAIN ocr = {} /\ turn = 1
    /\ pc = "ocr" => /\ turn \in 1..(PageCount + 1)
                     /\ DOMAIN ocr = {p \in 1..(turn - 1) : NeedsOcr(p)}
    /\ (pc \in Parsed \/ Judged) /\ fileType = "PDF" =>
           \/ warnings \cap OcrTokens # {} /\ DOMAIN ocr = {}
           \/ /\ DOMAIN ocr = {p \in Page : NeedsOcr(p)}
              /\ \/ warnings \cap OcrTokens # {}
                 \/ \A p \in Page : PageReadable(p)

\* What went wrong outside pages and tables has left its warning.
FlagInv ==
    /\ mishaps \subseteq Mishaps
    /\ "class" \in mishaps => "classification_unmatched" \in warnings
    /\ "tables" \in mishaps => "table_extraction_failed" \in warnings
    /\ "sidecars" \in mishaps => "raw_table_source_failed" \in warnings
    /\ notices # {} => "table_extraction_needs_review" \in warnings

\* A page whose tables could not be looked for is an issue, and once sidecars
\* are merged an issue has left its warning.
TableInv ==
    /\ /\ pc \in {"sidecars", "rebuild", "finish"} \/ Judged
       /\ fileType = "PDF"
       /\ "tables" \notin mishaps
       => \A p \in Page : ~PageSearched(p) => p \in issues
    /\ (pc \in {"rebuild", "finish"} \/ Judged) /\ issues # {} =>
           "table_extraction_needs_review" \in warnings
    /\ pc \in {"detect", "parse", "assess", "ocr", "classify", "tables"} => issues = {}

\* Every table is rebuilt, and is sound or has left a warning.
RebuiltInv ==
    pc = "finish" \/ Judged =>
        /\ {r.table : r \in rebuilt} = tables
        /\ \/ \A r \in rebuilt : TableSound(r)
           \/ "table_reconstruction_needs_review" \in warnings

IInv == PhaseInv /\ DataInv /\ OcrInv /\ FlagInv /\ TableInv /\ RebuiltInv

\* Pages are counted from one.
LEMMA Counts == PageCount \in Nat \ {0} /\ Page = 1..PageCount
BY PipelineAssumption DEF Page

\* Headings name statements, and sidecars pages of the document.
LEMMA Headings ==
    /\ \A k \in PageKinds \cup SheetKinds \cup OcrKinds : k.headings \subseteq Sections
    /\ \A k \in SheetKinds : k.own \in Statement
    /\ \A g \in RawGrids : g \in RawGrid /\ g.page \in Page /\ g.own \in Statement
BY PipelineAssumption DEF PageKind, SheetKind, OcrKind, RawGrid

\* What the finder reports of a page is a list of grids.
LEMMA Grids ==
    ASSUME NEW f \in NativeFinds, f # FinderFails
    PROVE  f \in Seq(Grid) /\ \A i \in DOMAIN f : i \in Nat /\ f[i] \in Grid /\ f[i].own \in Statement
<1>1. f \in Seq(Grid) BY PipelineAssumption
<1>2. \A i \in DOMAIN f : i \in Nat /\ f[i] \in Grid BY <1>1
<1>. QED BY <1>1, <1>2 DEF Grid

\* Every step keeps the phases in order.
LEMMA PhaseStep == ASSUME IInv, [Next]_vars PROVE PhaseInv'
<1>. USE DEF IInv, PhaseInv, Judged, Parsed, Step
<1>1. CASE Detect BY <1>1 DEF Detect, tableVars
<1>2. CASE NotParsed BY <1>2 DEF NotParsed, Return, Warn
<1>3. CASE ParseFails BY <1>3 DEF ParseFails, Return, Warn
<1>4. CASE ParsePdf BY <1>4 DEF ParsePdf
<1>5. CASE ParseWorkbook BY <1>5 DEF ParseWorkbook
<1>6. CASE Assess BY <1>6 DEF Assess
<1>7. CASE SkipPage BY <1>7 DEF SkipPage
<1>8. CASE RecognisePage BY <1>8 DEF RecognisePage
<1>9. CASE OcrFails BY <1>9 DEF OcrFails
<1>10. CASE OcrDone BY <1>10 DEF OcrDone
<1>11. CASE Raise BY <1>11 DEF Raise
<1>12. CASE Classify BY <1>12 DEF Classify
<1>13. CASE ExtractPdf BY <1>13 DEF ExtractPdf
<1>14. CASE ExtractionFails BY <1>14 DEF ExtractionFails
<1>15. CASE ExtractWorkbook BY <1>15 DEF ExtractWorkbook
<1>16. CASE LoadSidecars BY <1>16 DEF LoadSidecars
<1>17. CASE SidecarsFail BY <1>17 DEF SidecarsFail
<1>18. CASE Rebuild BY <1>18 DEF Rebuild
<1>19. CASE Finish
  <2>1. result'.status = TerminalStatus BY <1>19 DEF Finish, Return
  <2>2. TerminalStatus = "PROCESSED" => warnings \cap ReviewTokens = {} BY DEF TerminalStatus
  <2>3. TerminalStatus \in {"PROCESSED", "NEEDS_REVIEW"} BY DEF TerminalStatus
  <2>. QED BY <1>19, <2>1, <2>2, <2>3 DEF Finish
<1>20. CASE UNCHANGED vars BY <1>20 DEF vars, tableVars, ocrVars
<1>. QED BY <1>1, <1>2, <1>3, <1>4, <1>5, <1>6, <1>7, <1>8, <1>9, <1>10, <1>11,
           <1>12, <1>13, <1>14, <1>15, <1>16, <1>17, <1>18, <1>19, <1>20 DEF Next

\* Every step keeps pages, headings and tables among those allowed.
LEMMA DataStep == ASSUME IInv, [Next]_vars PROVE DataInv'
<1>. USE DEF IInv, PhaseInv, DataInv, Parsed, Step
<1>1. CASE Detect BY <1>1 DEF Detect, ocrVars, tableVars
<1>2. CASE NotParsed BY <1>2 DEF NotParsed, ocrVars, tableVars
<1>3. CASE ParseFails BY <1>3 DEF ParseFails, ocrVars, tableVars
<1>4. CASE ParsePdf BY <1>4 DEF ParsePdf, ocrVars, tableVars
<1>5. CASE ParseWorkbook BY <1>5 DEF ParseWorkbook, ocrVars, tableVars
<1>6. CASE Assess BY <1>6 DEF Assess, ocrVars, tableVars
<1>7. CASE SkipPage BY <1>7 DEF SkipPage, tableVars
<1>8. CASE RecognisePage BY <1>8 DEF RecognisePage, tableVars
<1>9. CASE OcrFails BY <1>9 DEF OcrFails, tableVars
<1>10. CASE OcrDone BY <1>10 DEF OcrDone, ocrVars, tableVars
<1>11. CASE Raise BY <1>11 DEF Raise, ocrVars, tableVars
<1>12. CASE Classify
  <2>1. content \in [Page -> PageKinds] \/ content \in [Page -> SheetKinds] BY <1>12 DEF Classify
  <2>2. \A p \in Page : content[p].headings \subseteq Sections BY <2>1, Headings
  <2>3. \A p \in DOMAIN ocr : ocr[p].headings \subseteq Sections BY Headings
  <2>4. SectionHits \in [Page -> SUBSET Sections] BY <2>2, <2>3 DEF SectionHits, OcrHeadings
  <2>. QED BY <1>12, <2>4 DEF Classify, ocrVars, tableVars
<1>13. CASE ExtractPdf
  <2>1. \A p \in Page : \A t \in GridsOf(found', p) : t.page \in Page /\ t.own \in Statement
    <3>. SUFFICES ASSUME NEW p \in Page, NEW t \in GridsOf(found', p)
                  PROVE  t.page \in Page /\ t.own \in Statement
      OBVIOUS
    <3>1. found'[p] \in NativeFinds /\ found'[p] # FinderFails BY <1>13 DEF ExtractPdf, GridsOf
    <3>2. PICK i \in DOMAIN found'[p] : t = Extracted(found'[p][i], p, i - 1)
      BY <3>1 DEF GridsOf
    <3>3. found'[p][i].own \in Statement BY <3>1, Grids
    <3>. QED BY <3>2, <3>3 DEF Extracted
  <2>. QED BY <1>13, <2>1 DEF ExtractPdf, ocrVars
<1>14. CASE ExtractionFails BY <1>14 DEF ExtractionFails, ocrVars, tableVars
<1>15. CASE ExtractWorkbook
  <2>1. \A p \in Page : SheetTable(p).page = p /\ SheetTable(p).own = content[p].own
    BY DEF SheetTable, Extracted
  <2>2. \A p \in Page : content[p].own \in Statement
    BY <1>15, Headings DEF ExtractWorkbook
  <2>. QED BY <1>15, <2>1, <2>2 DEF ExtractWorkbook, ocrVars
<1>16. CASE LoadSidecars
  <2>1. PICK grid \in [Sidecars -> RawGrids \cup {NoGrid}] :
          LET raw == {Bound(grid[s], s) : s \in {c \in Sidecars : grid[c] # NoGrid}}
          IN  /\ tables' = Merge(tables, raw)
              /\ hits' = [p \in Page |-> hits[p] \cup
                             ({t.own : t \in {r \in raw : r.page = p}} \ {NoSection})]
    BY <1>16 DEF LoadSidecars
  <2>. DEFINE raw == {Bound(grid[s], s) : s \in {c \in Sidecars : grid[c] # NoGrid}}
  <2>2. \A t \in raw : t.page \in Page /\ t.own \in Statement
    <3>1. ASSUME NEW s \in Sidecars, grid[s] # NoGrid
          PROVE  grid[s].page \in Page /\ grid[s].own \in Statement
      BY <3>1, Headings
    <3>2. \A s \in Sidecars : Bound(grid[s], s).page = grid[s].page
                            /\ Bound(grid[s], s).own = grid[s].own
      BY DEF Bound
    <3>. QED BY <3>1, <3>2
  <2>3. \A t \in tables' : t.page \in Page /\ t.own \in Statement
    BY <2>1, <2>2 DEF Merge
  <2>4. hits' \in [Page -> SUBSET Sections] BY <2>1, <2>2 DEF Statement
  <2>. QED BY <1>16, <2>3, <2>4 DEF LoadSidecars, ocrVars
<1>17. CASE SidecarsFail BY <1>17 DEF SidecarsFail, ocrVars, tableVars
<1>18. CASE Rebuild BY <1>18 DEF Rebuild, ocrVars, tableVars
<1>19. CASE Finish BY <1>19 DEF Finish, ocrVars, tableVars
<1>20. CASE UNCHANGED vars BY <1>20 DEF vars, ocrVars, tableVars
<1>. QED BY <1>1, <1>2, <1>3, <1>4, <1>5, <1>6, <1>7, <1>8, <1>9, <1>10, <1>11,
           <1>12, <1>13, <1>14, <1>15, <1>16, <1>17, <1>18, <1>19, <1>20 DEF Next

\* decide_page spares a page only for the two reasons that vouch for it.
LEMMA SparedIsReadable == ASSUME NEW p, ~NeedsOcr(p) PROVE PageReadable(p)
<1>1. OcrReason(content[p]) \in {"sufficient_native_text", "blank_page"} BY DEF NeedsOcr
<1>2. \/ content[p].chars >= MinNativeChars
      \/ /\ ~(content[p].chars >= MinNativeChars)
         /\ content[p].coverage # NoCoverage
         /\ ~content[p].geometryError
         /\ content[p].chars = 0 /\ content[p].coverage < LowCoverage
  BY <1>1 DEF OcrReason
<1>. QED BY <1>2 DEF PageReadable, MinNativeChars, LowCoverage

\* What assess_ocr_quality accepts was read with a valid, high enough score.
LEMMA AcceptedIsReadable ==
    ASSUME NEW p \in DOMAIN ocr, OcrAccepted(ocr[p]) PROVE PageReadable(p)
<1>1. ocr[p].text BY DEF OcrAccepted
<1>2. ocr[p].confidence \in 0..100 /\ ocr[p].confidence >= 60 BY DEF OcrAccepted, MinOcrConfidence
<1>3. ocr[p].confidence \in 60..100 BY <1>2
<1>. QED BY <1>1, <1>3 DEF PageReadable

\* Every step keeps the account of OCR.
LEMMA OcrStep == ASSUME IInv, [Next]_vars PROVE OcrInv'
<1>. USE DEF IInv, PhaseInv, DataInv, OcrInv, Judged, Parsed, Step
<1>1. CASE Detect BY <1>1 DEF Detect, ocrVars
<1>2. CASE NotParsed BY <1>2 DEF NotParsed, ocrVars, Return
<1>3. CASE ParseFails BY <1>3 DEF ParseFails, ocrVars, Return
<1>4. CASE ParsePdf BY <1>4 DEF ParsePdf, ocrVars
<1>5. CASE ParseWorkbook BY <1>5 DEF ParseWorkbook, ocrVars
<1>6. CASE Assess
  <2>1. \A p \in Page : ~NeedsOcr(p) => PageReadable(p) BY SparedIsReadable
  <2>2. \A p \in Page : (NeedsOcr(p)' <=> NeedsOcr(p)) /\ (PageReadable(p)' <=> PageReadable(p))
    BY <1>6 DEF Assess, ocrVars, NeedsOcr, PageReadable
  <2>3. fileType' = "PDF" /\ ocr' = ocr /\ turn' = turn /\ turn = 1 /\ DOMAIN ocr = {}
    BY <1>6 DEF Assess, ocrVars
  <2>4. CASE \E p \in Page : NeedsOcr(p)
    <3>1. CASE engine
      <4>1. turn \in 1..(PageCount + 1) /\ 1..(turn - 1) = {} BY <2>3, Counts
      <4>. QED BY <1>6, <2>3, <2>4, <3>1, <4>1 DEF Assess, NeedsOcr
    <3>2. CASE ~engine BY <1>6, <2>3, <2>4, <3>2 DEF Assess, Warn, OcrTokens
    <3>. QED BY <3>1, <3>2
  <2>5. CASE ~ \E p \in Page : NeedsOcr(p)
    <3>1. {p \in Page : NeedsOcr(p)'} = {} BY <2>2, <2>5
    <3>2. \A p \in Page : PageReadable(p)' BY <2>1, <2>2, <2>5
    <3>. QED BY <1>6, <2>3, <2>5, <3>1, <3>2 DEF Assess
  <2>. QED BY <2>4, <2>5
<1>7. CASE SkipPage
  BY <1>7, Counts DEF SkipPage, NeedsOcr
<1>8. CASE RecognisePage
  BY <1>8, Counts DEF RecognisePage, NeedsOcr
<1>9. CASE OcrFails BY <1>9 DEF OcrFails, Warn, OcrTokens
<1>10. CASE OcrDone
  <2>1. DOMAIN ocr = {p \in Page : NeedsOcr(p)}
    BY <1>10, Counts DEF OcrDone
  <2>2. \A p \in Page : (NeedsOcr(p)' <=> NeedsOcr(p)) /\ (PageReadable(p)' <=> PageReadable(p))
    BY <1>10 DEF OcrDone, ocrVars, NeedsOcr, PageReadable
  <2>3. \A p \in Page : ~NeedsOcr(p) => PageReadable(p) BY SparedIsReadable
  <2>4. \A p \in DOMAIN ocr : OcrAccepted(ocr[p]) => PageReadable(p) BY AcceptedIsReadable
  <2>5. CASE \E p \in DOMAIN ocr : ~OcrAccepted(ocr[p])
    BY <1>10, <2>1, <2>2, <2>5 DEF OcrDone, Warn, OcrTokens, ocrVars
  <2>6. CASE \A p \in DOMAIN ocr : OcrAccepted(ocr[p])
    <3>1. \A p \in Page : PageReadable(p)' BY <2>1, <2>2, <2>3, <2>4, <2>6
    <3>. QED BY <1>10, <2>1, <2>2, <3>1 DEF OcrDone, ocrVars
  <2>. QED BY <2>5, <2>6
<1>11. CASE Raise BY <1>11 DEF Raise, ocrVars
<1>12. CASE Classify
  BY <1>12 DEF Classify, ocrVars, Warn, NeedsOcr, PageReadable
<1>13. CASE ExtractPdf
  BY <1>13 DEF ExtractPdf, ocrVars, Warn, NeedsOcr, PageReadable
<1>14. CASE ExtractionFails
  BY <1>14 DEF ExtractionFails, ocrVars, Warn, NeedsOcr, PageReadable
<1>15. CASE ExtractWorkbook
  BY <1>15 DEF ExtractWorkbook, ocrVars, Warn, NeedsOcr, PageReadable
<1>16. CASE LoadSidecars
  BY <1>16 DEF LoadSidecars, ocrVars, Warn, NeedsOcr, PageReadable
<1>17. CASE SidecarsFail
  BY <1>17 DEF SidecarsFail, ocrVars, Warn, NeedsOcr, PageReadable
<1>18. CASE Rebuild BY <1>18 DEF Rebuild, ocrVars, Warn, NeedsOcr, PageReadable
<1>19. CASE Finish
  BY <1>19 DEF Finish, ocrVars, Warn, NeedsOcr, PageReadable, Return
<1>20. CASE UNCHANGED vars BY <1>20 DEF vars, ocrVars, NeedsOcr, PageReadable
<1>. QED BY <1>1, <1>2, <1>3, <1>4, <1>5, <1>6, <1>7, <1>8, <1>9, <1>10, <1>11,
           <1>12, <1>13, <1>14, <1>15, <1>16, <1>17, <1>18, <1>19, <1>20 DEF Next

\* Every step that sets a flag or notes a sidecar leaves the warning for it.
LEMMA FlagStep == ASSUME IInv, [Next]_vars PROVE FlagInv'
<1>. USE DEF IInv, FlagInv
<1>1. CASE Detect BY <1>1 DEF Detect, tableVars
<1>2. CASE NotParsed BY <1>2 DEF NotParsed, Warn, tableVars
<1>3. CASE ParseFails BY <1>3 DEF ParseFails, Warn, tableVars
<1>4. CASE ParsePdf BY <1>4 DEF ParsePdf, tableVars
<1>5. CASE ParseWorkbook BY <1>5 DEF ParseWorkbook, tableVars
<1>6. CASE Assess BY <1>6 DEF Assess, Warn, tableVars
<1>7. CASE SkipPage BY <1>7 DEF SkipPage, tableVars
<1>8. CASE RecognisePage BY <1>8 DEF RecognisePage, tableVars
<1>9. CASE OcrFails BY <1>9 DEF OcrFails, Warn, tableVars
<1>10. CASE OcrDone BY <1>10 DEF OcrDone, Warn, tableVars
<1>11. CASE Raise BY <1>11 DEF Raise, tableVars
<1>12. CASE Classify BY <1>12 DEF Classify, Warn, tableVars, Mishaps
<1>13. CASE ExtractPdf BY <1>13 DEF ExtractPdf
<1>14. CASE ExtractionFails
  BY <1>14 DEF ExtractionFails, Warn, tableVars, Mishaps
<1>15. CASE ExtractWorkbook BY <1>15 DEF ExtractWorkbook, Warn
<1>16. CASE LoadSidecars
  <2>1. PICK unread \in SUBSET Sidecars :
          notices' = unread /\ Warn(ReviewWarning(tables', issues, unread))
    BY <1>16 DEF LoadSidecars
  <2>2. unread # {} => "table_extraction_needs_review" \in warnings'
    BY <2>1 DEF Warn, ReviewWarning, NeedsReview
  <2>. QED BY <1>16, <2>1, <2>2 DEF LoadSidecars, Warn
<1>17. CASE SidecarsFail BY <1>17 DEF SidecarsFail, Warn, tableVars, Mishaps
<1>18. CASE Rebuild BY <1>18 DEF Rebuild, Warn, tableVars
<1>19. CASE Finish BY <1>19 DEF Finish, tableVars
<1>20. CASE UNCHANGED vars BY <1>20 DEF vars, tableVars
<1>. QED BY <1>1, <1>2, <1>3, <1>4, <1>5, <1>6, <1>7, <1>8, <1>9, <1>10, <1>11,
           <1>12, <1>13, <1>14, <1>15, <1>16, <1>17, <1>18, <1>19, <1>20 DEF Next

\* Every step keeps the account of pages with an issue.
LEMMA TableStep == ASSUME IInv, [Next]_vars PROVE TableInv'
<1>. USE DEF IInv, PhaseInv, TableInv, Judged, Step
<1>1. CASE Detect BY <1>1 DEF Detect, tableVars
<1>2. CASE NotParsed BY <1>2 DEF NotParsed, tableVars, Return
<1>3. CASE ParseFails BY <1>3 DEF ParseFails, tableVars, Return
<1>4. CASE ParsePdf BY <1>4 DEF ParsePdf, tableVars
<1>5. CASE ParseWorkbook BY <1>5 DEF ParseWorkbook, tableVars
<1>6. CASE Assess BY <1>6 DEF Assess, tableVars
<1>7. CASE SkipPage BY <1>7 DEF SkipPage, tableVars
<1>8. CASE RecognisePage BY <1>8 DEF RecognisePage, tableVars
<1>9. CASE OcrFails BY <1>9 DEF OcrFails, tableVars
<1>10. CASE OcrDone BY <1>10 DEF OcrDone, tableVars
<1>11. CASE Raise BY <1>11 DEF Raise, tableVars
<1>12. CASE Classify BY <1>12 DEF Classify, tableVars
<1>13. CASE ExtractPdf
  <2>1. \A p \in Page : ~PageSearched(p)' => p \in issues'
    BY <1>13 DEF ExtractPdf, PageSearched, IssuePages
  <2>. QED BY <1>13, <2>1 DEF ExtractPdf
<1>14. CASE ExtractionFails
  BY <1>14 DEF ExtractionFails, tableVars, Warn, PageSearched
<1>15. CASE ExtractWorkbook BY <1>15 DEF ExtractWorkbook
<1>16. CASE LoadSidecars
  <2>1. PICK unread \in SUBSET Sidecars : Warn(ReviewWarning(tables', issues, unread))
    BY <1>16 DEF LoadSidecars
  <2>2. issues # {} => "table_extraction_needs_review" \in warnings'
    BY <2>1 DEF Warn, ReviewWarning, NeedsReview
  <2>. QED BY <1>16, <2>2 DEF LoadSidecars, PageSearched
<1>17. CASE SidecarsFail
  <2>1. issues # {} => "table_extraction_needs_review" \in warnings'
    BY <1>17 DEF SidecarsFail, Warn, ReviewWarning, NeedsReview
  <2>. QED BY <1>17, <2>1 DEF SidecarsFail, tableVars, PageSearched
<1>18. CASE Rebuild BY <1>18 DEF Rebuild, tableVars, Warn, PageSearched
<1>19. CASE Finish BY <1>19 DEF Finish, tableVars, PageSearched, Return
<1>20. CASE UNCHANGED vars BY <1>20 DEF vars, tableVars, PageSearched
<1>. QED BY <1>1, <1>2, <1>3, <1>4, <1>5, <1>6, <1>7, <1>8, <1>9, <1>10, <1>11,
           <1>12, <1>13, <1>14, <1>15, <1>16, <1>17, <1>18, <1>19, <1>20 DEF Next

\* What reconstruction accepts is sound: the table's own extraction was clean,
\* it has a unit and a header, its statement is known, and when its page shows
\* one statement, it is that one (_resolve_type and the issues of rebuild).
LEMMA AcceptedIsSound ==
    ASSUME NEW t, NEW sections, sections \subseteq Sections, NEW shown,
           NEW heading \in Statement,
           t.own \in Statement,
           Reconstructed(t, Hint(sections), shown, heading).status = "OK"
    PROVE  LET r == Reconstructed(t, Hint(sections), shown, heading)
           IN  /\ t.status = "OK" /\ t.unit /\ t.header
               /\ r.type \in Sections
               /\ Cardinality(sections) = 1 => r.type \in sections
<1>. DEFINE type == ResolvedType(t, Hint(sections), shown, heading)
<1>1. /\ t.status = "OK" /\ t.unit /\ t.header
      /\ type # NoSection /\ ~Conflict(t, Hint(sections), heading)
      /\ Reconstructed(t, Hint(sections), shown, heading).type = type
  BY DEF Reconstructed
<1>2. Hint(sections) \in Statement
  <2>1. CASE Cardinality(sections) = 1
    <3>1. sections # {} BY <2>1, FS_EmptySet
    <3>. QED BY <2>1, <3>1 DEF Hint, Statement
  <2>. QED BY <2>1 DEF Hint, Statement
<1>3. type \in Sections BY <1>1, <1>2 DEF ResolvedType, Statement
<1>4. ASSUME Cardinality(sections) = 1 PROVE type \in sections
  <2>1. Hint(sections) \in sections
    <3>1. sections # {} BY <1>4, FS_EmptySet
    <3>. QED BY <1>4, <3>1 DEF Hint
  <2>2. Hint(sections) # NoSection BY <2>1, TablesAssumption
  <2>3. type = Hint(sections) BY <1>1, <2>2 DEF ResolvedType, Conflict
  <2>. QED BY <2>1, <2>3
<1>. QED BY <1>1, <1>3, <1>4

\* Rebuild accounts for every table, and no step takes that back.
LEMMA RebuiltStep == ASSUME IInv, [Next]_vars PROVE RebuiltInv'
<1>. USE DEF IInv, PhaseInv, DataInv, RebuiltInv, Judged, Parsed, Step
<1>1. CASE Detect BY <1>1 DEF Detect
<1>2. CASE NotParsed BY <1>2 DEF NotParsed, Return
<1>3. CASE ParseFails BY <1>3 DEF ParseFails, Return
<1>4. CASE ParsePdf BY <1>4 DEF ParsePdf
<1>5. CASE ParseWorkbook BY <1>5 DEF ParseWorkbook
<1>6. CASE Assess BY <1>6 DEF Assess
<1>7. CASE SkipPage BY <1>7 DEF SkipPage
<1>8. CASE RecognisePage BY <1>8 DEF RecognisePage
<1>9. CASE OcrFails BY <1>9 DEF OcrFails
<1>10. CASE OcrDone BY <1>10 DEF OcrDone
<1>11. CASE Raise BY <1>11 DEF Raise
<1>12. CASE Classify BY <1>12 DEF Classify
<1>13. CASE ExtractPdf BY <1>13 DEF ExtractPdf
<1>14. CASE ExtractionFails BY <1>14 DEF ExtractionFails
<1>15. CASE ExtractWorkbook BY <1>15 DEF ExtractWorkbook
<1>16. CASE LoadSidecars BY <1>16 DEF LoadSidecars
<1>17. CASE SidecarsFail BY <1>17 DEF SidecarsFail
<1>18. CASE Rebuild
  <2>1. PICK heading \in [Page -> Statement] :
          /\ \A p \in Page : heading[p] \in Leading(Shown(p))
          /\ rebuilt' = {Reconstructed(t, Hint(hits[t.page]), Shown(t.page), heading[t.page])
                             : t \in tables}
    BY <1>18 DEF Rebuild, Statement
  <2>2. tables' = tables /\ hits' = hits BY <1>18 DEF Rebuild, tableVars
  <2>3. {r.table : r \in rebuilt'} = tables
    <3>1. \A t : Reconstructed(t, Hint(hits[t.page]), Shown(t.page), heading[t.page]).table = t
      BY DEF Reconstructed
    <3>. QED BY <2>1, <3>1
  <2>4. ASSUME NEW t \in tables,
               Reconstructed(t, Hint(hits[t.page]), Shown(t.page), heading[t.page]).status = "OK"
        PROVE  TableSound(Reconstructed(t, Hint(hits[t.page]), Shown(t.page), heading[t.page]))
    <3>1. heading[t.page] \in Statement BY <2>1
    <3>2. t.page \in Page /\ hits[t.page] \subseteq Sections OBVIOUS
    <3>. QED BY <2>4, <3>1, <3>2, AcceptedIsSound DEF TableSound, Reconstructed
  <2>5. \/ \A r \in rebuilt' : TableSound(r)
        \/ "table_reconstruction_needs_review" \in warnings'
    <3>1. CASE \E r \in rebuilt' : r.status # "OK" BY <1>18, <3>1 DEF Rebuild, Warn
    <3>2. CASE \A r \in rebuilt' : r.status = "OK" BY <2>1, <2>4, <3>2
    <3>. QED BY <3>1, <3>2
  <2>. QED BY <1>18, <2>2, <2>3, <2>5 DEF Rebuild, TableSound
<1>19. CASE Finish BY <1>19 DEF Finish, Return, tableVars, TableSound
<1>20. CASE UNCHANGED vars BY <1>20 DEF vars, tableVars, TableSound
<1>. QED BY <1>1, <1>2, <1>3, <1>4, <1>5, <1>6, <1>7, <1>8, <1>9, <1>10, <1>11,
           <1>12, <1>13, <1>14, <1>15, <1>16, <1>17, <1>18, <1>19, <1>20 DEF Next

\* IInv is an inductive invariant of the pipeline.
THEOREM PipelineInductive == Spec => []IInv
<1>1. Init => IInv
  BY Counts DEF Init, IInv, PhaseInv, DataInv, OcrInv, FlagInv, TableInv,
     RebuiltInv, Judged, Parsed, NoResult, Mishaps
<1>2. ASSUME IInv, [Next]_vars PROVE IInv'
  BY <1>2, PhaseStep, DataStep, OcrStep, FlagStep, TableStep, RebuiltStep DEF IInv
<1>. QED BY <1>1, <1>2, PTL DEF Spec

\* A PROCESSED document had no doubt at any stage: every stage ran, all
\* sidecars were read, every page was readable and searched for tables, and
\* every table was rebuilt and is sound (process and _terminal_status).
THEOREM Trusted == Spec => []ProcessedIsTrusted
<1>1. IInv => ProcessedIsTrusted
  <2>. SUFFICES ASSUME IInv, result.status = "PROCESSED"
                PROVE  /\ mishaps = {} /\ notices = {}
                       /\ \A r \in rebuilt : TableSound(r)
                       /\ {r.table : r \in rebuilt} = tables
                       /\ fileType = "PDF" => \A p \in Page : PageReadable(p) /\ PageSearched(p)
    BY DEF ProcessedIsTrusted
  <2>1. Judged /\ \A w \in ReviewTokens : w \notin warnings BY DEF IInv, PhaseInv
  <2>2. mishaps = {} /\ notices = {} BY <2>1 DEF IInv, FlagInv, Mishaps, ReviewTokens
  <2>3. issues = {} BY <2>1 DEF IInv, TableInv, ReviewTokens
  <2>4. /\ {r.table : r \in rebuilt} = tables
        /\ \A r \in rebuilt : TableSound(r)
    BY <2>1 DEF IInv, RebuiltInv, ReviewTokens
  <2>5. warnings \cap OcrTokens = {} BY <2>1 DEF OcrTokens, ReviewTokens
  <2>6. fileType = "PDF" => \A p \in Page : PageReadable(p)
    BY <2>1, <2>5 DEF IInv, OcrInv
  <2>7. fileType = "PDF" => \A p \in Page : PageSearched(p)
    BY <2>1, <2>2, <2>3 DEF IInv, TableInv
  <2>. QED BY <2>2, <2>4, <2>6, <2>7
<1>. QED BY <1>1, PipelineInductive, PTL

\* OCR text is used for every page that needs it or for none, and then the
\* document goes to review (the OCR step of process).
THEOREM WholeOrNone == Spec => []OcrWholeOrNone
<1>1. IInv => OcrWholeOrNone
  <2>. SUFFICES ASSUME IInv, fileType = "PDF",
                       result.status \in {"PROCESSED", "NEEDS_REVIEW"}
                PROVE  \/ DOMAIN ocr = {p \in Page : NeedsOcr(p)}
                       \/ DOMAIN ocr = {} /\ result.status = "NEEDS_REVIEW"
    BY DEF OcrWholeOrNone
  <2>1. Judged BY DEF IInv, PhaseInv, Judged
  <2>2. warnings \cap OcrTokens # {} => result.status = "NEEDS_REVIEW"
    BY DEF IInv, PhaseInv, OcrTokens, ReviewTokens
  <2>. QED BY <2>1, <2>2 DEF IInv, OcrInv
<1>. QED BY <1>1, PipelineInductive, PTL

-----------------------------------------------------------------------------
(* The converse, and what tables, headings and sidecars keep: an invariant on  *)
(* top of IInv.                                                                *)

\* Where a table comes from: its place on a page of the file, or its sidecar.
FromFile(p) == IF fileType = "PDF" THEN GridsOf(found, p) ELSE {SheetTable(p)}
FromSidecar(t) ==
    /\ t.path \in Sidecars /\ fileType = "PDF"
    /\ t.id = TableId(TRUE, t.page, t.index)

Early == {"detect", "parse", "assess", "ocr", "classify", "tables"}

OriginInv ==
    /\ found \in [Page -> NativeFinds \cup {<<>>}]
    /\ pc \in Early => tables = {} /\ found = [p \in Page |-> <<>>]
    /\ \A t \in tables : (t.path = 0 /\ t \in FromFile(t.page)) \/ FromSidecar(t)

\* What the finder reports is extracted, unless the extraction as a whole fails.
KeptInv ==
    /\ pc = "sidecars" => \A t \in tables : t.path = 0
    /\ pc = "sidecars" /\ "tables" \notin mishaps =>
           \A p \in Page : GridsOf(found, p) \subseteq tables
    /\ NativeTablesKept

\* The headings found on a page are those around its tables and those that OCR read; in a
\* workbook a section keeps the first of them.
HeadInv ==
    /\ pc \notin {"finish", "done"} => rebuilt = {}
    /\ pc \in {"tables", "sidecars", "rebuild"} /\ fileType = "PDF" =>
           \A p \in Page : content[p].headings \subseteq hits[p]
    /\ pc \in {"tables", "rebuild"} /\ fileType = "XLSX" =>
           \A p \in Page : hits[p] \subseteq content[p].headings
    /\ pc = "rebuild" => \A t \in tables :
           t.path # 0 /\ t.own # NoSection => t.own \in hits[t.page]
    /\ pc \in {"tables", "sidecars"} =>
           \A p \in Page : hits[p] \subseteq content[p].headings \cup OcrHeadings(p)
    /\ pc = "rebuild" => \A p \in Page : hits[p] \subseteq Shown(p) \cup OcrHeadings(p)
    /\ ContextUnambiguous

\* A step of one kind leaves what the others write alone.
LEMMA Frames ==
    ASSUME [Next]_vars
    PROVE  /\ UNCHANGED <<found, tables>> \/ ExtractPdf \/ ExtractWorkbook \/ LoadSidecars
           /\ UNCHANGED hits \/ Classify \/ LoadSidecars
           /\ UNCHANGED rebuilt \/ Rebuild
           /\ UNCHANGED content \/ ParsePdf \/ ParseWorkbook
           /\ UNCHANGED fileType \/ Detect
           /\ UNCHANGED mishaps \/ Classify \/ ExtractionFails \/ SidecarsFail
           /\ UNCHANGED issues \/ ExtractPdf
           /\ UNCHANGED notices \/ LoadSidecars
           /\ UNCHANGED <<ocr, turn>> \/ SkipPage \/ RecognisePage \/ OcrFails
           /\ mishaps \subseteq mishaps'
<1>. USE DEF ocrVars, tableVars
<1>1. CASE Detect BY <1>1 DEF Detect
<1>2. CASE NotParsed BY <1>2 DEF NotParsed
<1>3. CASE ParseFails BY <1>3 DEF ParseFails
<1>4. CASE ParsePdf BY <1>4 DEF ParsePdf
<1>5. CASE ParseWorkbook BY <1>5 DEF ParseWorkbook
<1>6. CASE Assess BY <1>6 DEF Assess
<1>7. CASE SkipPage BY <1>7 DEF SkipPage
<1>8. CASE RecognisePage BY <1>8 DEF RecognisePage
<1>9. CASE OcrFails BY <1>9 DEF OcrFails
<1>10. CASE OcrDone BY <1>10 DEF OcrDone
<1>11. CASE Raise BY <1>11 DEF Raise
<1>12. CASE Classify BY <1>12 DEF Classify
<1>13. CASE ExtractPdf BY <1>13 DEF ExtractPdf
<1>14. CASE ExtractionFails BY <1>14 DEF ExtractionFails
<1>15. CASE ExtractWorkbook BY <1>15 DEF ExtractWorkbook
<1>16. CASE LoadSidecars BY <1>16 DEF LoadSidecars
<1>17. CASE SidecarsFail BY <1>17 DEF SidecarsFail
<1>18. CASE Rebuild BY <1>18 DEF Rebuild
<1>19. CASE Finish BY <1>19 DEF Finish
<1>20. CASE UNCHANGED vars BY <1>20 DEF vars
<1>. QED BY <1>1, <1>2, <1>3, <1>4, <1>5, <1>6, <1>7, <1>8, <1>9, <1>10, <1>11,
           <1>12, <1>13, <1>14, <1>15, <1>16, <1>17, <1>18, <1>19, <1>20 DEF Next

\* The stages follow each other: how each of the later ones is reached.
LEMMA Reached ==
    ASSUME [Next]_vars
    PROVE  /\ pc' \in Early => pc \in Early
           /\ pc' = "tables" => pc = "tables" \/ Classify
           /\ pc' = "sidecars" => pc = "sidecars" \/ ExtractPdf \/ ExtractionFails
           /\ pc' = "rebuild" => pc = "rebuild" \/ ExtractWorkbook \/ LoadSidecars \/ SidecarsFail
           /\ pc' = "finish" => pc = "finish" \/ Rebuild
           /\ pc' = "done" => pc = "done" \/ Finish \/ NotParsed \/ ParseFails
           /\ pc \in {"finish", "done"} => pc' \in {"finish", "done"}
<1>. USE DEF Step, Early
<1>1. CASE Detect BY <1>1 DEF Detect
<1>2. CASE NotParsed BY <1>2 DEF NotParsed
<1>3. CASE ParseFails BY <1>3 DEF ParseFails
<1>4. CASE ParsePdf BY <1>4 DEF ParsePdf
<1>5. CASE ParseWorkbook BY <1>5 DEF ParseWorkbook
<1>6. CASE Assess BY <1>6 DEF Assess
<1>7. CASE SkipPage BY <1>7 DEF SkipPage
<1>8. CASE RecognisePage BY <1>8 DEF RecognisePage
<1>9. CASE OcrFails BY <1>9 DEF OcrFails
<1>10. CASE OcrDone BY <1>10 DEF OcrDone
<1>11. CASE Raise BY <1>11 DEF Raise
<1>12. CASE Classify BY <1>12 DEF Classify
<1>13. CASE ExtractPdf BY <1>13 DEF ExtractPdf
<1>14. CASE ExtractionFails BY <1>14 DEF ExtractionFails
<1>15. CASE ExtractWorkbook BY <1>15 DEF ExtractWorkbook
<1>16. CASE LoadSidecars BY <1>16 DEF LoadSidecars
<1>17. CASE SidecarsFail BY <1>17 DEF SidecarsFail
<1>18. CASE Rebuild BY <1>18 DEF Rebuild
<1>19. CASE Finish BY <1>19 DEF Finish
<1>20. CASE UNCHANGED vars BY <1>20 DEF vars
<1>. QED BY <1>1, <1>2, <1>3, <1>4, <1>5, <1>6, <1>7, <1>8, <1>9, <1>10, <1>11,
           <1>12, <1>13, <1>14, <1>15, <1>16, <1>17, <1>18, <1>19, <1>20 DEF Next

\* A table of the file stands on its page, in the order the finder gave.
LEMMA TableOfFile ==
    ASSUME NEW finds, NEW p, NEW t \in GridsOf(finds, p)
    PROVE  /\ t.page = p /\ t.path = 0 /\ finds[p] # FinderFails
           /\ \E i \in DOMAIN finds[p] : t = Extracted(finds[p][i], p, i - 1)
<1>1. finds[p] # FinderFails BY DEF GridsOf
<1>2. PICK i \in DOMAIN finds[p] : t = Extracted(finds[p][i], p, i - 1) BY <1>1 DEF GridsOf
<1>. QED BY <1>1, <1>2 DEF Extracted

\* The tables of the sidecars and what loading them does.
LEMMA SidecarsLoaded ==
    ASSUME LoadSidecars
    PROVE  \E raw, unread :
             /\ tables' = {t \in tables : ~ \E r \in raw : Replaces(r, t)} \cup raw
             /\ hits' = [p \in Page |-> hits[p] \cup
                            ({t.own : t \in {r \in raw : r.page = p}} \ {NoSection})]
             /\ notices' = unread /\ unread \subseteq Sidecars
             /\ warnings' = warnings \cup ReviewWarning(tables', issues, unread)
             /\ \A r, u \in raw : r.path = u.path => r = u
             /\ \A r \in raw : /\ r.path \in Sidecars /\ r.path # 0
                               /\ r.id = TableId(TRUE, r.page, r.index)
                               /\ r.page \in Page /\ r.own \in Statement /\ r.box \in Box
                               /\ r.index \in Nat /\ r.path \in Nat
<1>0. PICK grid \in [Sidecars -> RawGrids \cup {NoGrid}] :
          \E unread \in SUBSET {s \in Sidecars : grid[s] = NoGrid} :
            LET raw == {Bound(grid[s], s) : s \in {c \in Sidecars : grid[c] # NoGrid}}
            IN  /\ tables' = Merge(tables, raw)
                /\ notices' = unread
                /\ hits' = [p \in Page |-> hits[p] \cup
                               ({t.own : t \in {r \in raw : r.page = p}} \ {NoSection})]
                /\ Warn(ReviewWarning(tables', issues, unread))
  BY DEF LoadSidecars
<1>1. PICK unread \in SUBSET {s \in Sidecars : grid[s] = NoGrid} :
          LET raw == {Bound(grid[s], s) : s \in {c \in Sidecars : grid[c] # NoGrid}}
          IN  /\ tables' = Merge(tables, raw)
              /\ notices' = unread
              /\ hits' = [p \in Page |-> hits[p] \cup
                             ({t.own : t \in {r \in raw : r.page = p}} \ {NoSection})]
              /\ Warn(ReviewWarning(tables', issues, unread))
  BY <1>0
<1>. DEFINE raw == {Bound(grid[s], s) : s \in {c \in Sidecars : grid[c] # NoGrid}}
<1>2. ASSUME NEW r \in raw
      PROVE  /\ r.path \in Sidecars /\ r.path # 0 /\ r.path \in Nat
             /\ r.id = TableId(TRUE, r.page, r.index)
             /\ r.page \in Page /\ r.own \in Statement /\ r.box \in Box /\ r.index \in Nat
  <2>1. PICK s \in Sidecars : grid[s] # NoGrid /\ r = Bound(grid[s], s) OBVIOUS
  <2>2. grid[s] \in RawGrid BY <2>1, Headings
  <2>3. s \in Nat \ {0} BY PipelineAssumption
  <2>. QED BY <2>1, <2>2, <2>3 DEF Bound, RawGrid
<1>3. unread \subseteq Sidecars OBVIOUS
<1>4. ASSUME NEW r \in raw, NEW u \in raw, r.path = u.path PROVE r = u
  <2>1. PICK s \in Sidecars : r = Bound(grid[s], s) OBVIOUS
  <2>2. PICK c \in Sidecars : u = Bound(grid[c], c) OBVIOUS
  <2>3. s = c BY <1>4, <2>1, <2>2 DEF Bound
  <2>. QED BY <2>1, <2>2, <2>3
<1>. HIDE DEF raw
<1>5. /\ tables' = {t \in tables : ~ \E r \in raw : Replaces(r, t)} \cup raw
      /\ notices' = unread
      /\ hits' = [p \in Page |-> hits[p] \cup
                     ({t.own : t \in {r \in raw : r.page = p}} \ {NoSection})]
      /\ warnings' = warnings \cup ReviewWarning(tables', issues, unread)
  BY <1>1 DEF raw, Merge, Warn
<1>. QED BY <1>2, <1>3, <1>4, <1>5

\* Tables stay where they were found.
LEMMA OriginStep == ASSUME IInv, OriginInv, [Next]_vars PROVE OriginInv'
<1>1. ASSUME pc' \in Early PROVE tables' = {} /\ found' = [p \in Page |-> <<>>]
  <2>1. pc \in Early /\ ~ ExtractPdf /\ ~ ExtractWorkbook /\ ~ LoadSidecars
    BY <1>1, Reached DEF ExtractPdf, ExtractWorkbook, LoadSidecars, Step, Early
  <2>. QED BY <2>1, Frames DEF OriginInv
<1>2. ASSUME NEW t \in tables' PROVE ((t.path = 0 /\ t \in FromFile(t.page)) \/ FromSidecar(t))'
  <2>1. CASE ExtractPdf
    <3>1. PICK p \in Page : t \in GridsOf(found', p) BY <1>2, <2>1 DEF ExtractPdf
    <3>2. t.page = p /\ t.path = 0 BY <3>1, TableOfFile
    <3>. QED BY <2>1, <3>1, <3>2 DEF ExtractPdf, FromFile
  <2>2. CASE ExtractWorkbook
    <3>1. PICK p \in Page : t = SheetTable(p) BY <1>2, <2>2 DEF ExtractWorkbook
    <3>2. t.page = p /\ t.path = 0 BY <3>1 DEF SheetTable, Extracted
    <3>3. content' = content /\ fileType' = "XLSX" BY <2>2 DEF ExtractWorkbook
    <3>4. FromFile(p)' = {SheetTable(p)} BY <3>3 DEF FromFile, SheetTable
    <3>. QED BY <3>1, <3>2, <3>4
  <2>3. CASE LoadSidecars
    <3>1. fileType = "PDF" /\ fileType' = "PDF" /\ found' = found
      BY <2>3 DEF LoadSidecars, Step, IInv, PhaseInv
    <3>2. t \in tables \/ (t.path \in Sidecars /\ t.id = TableId(TRUE, t.page, t.index))
      BY <1>2, <2>3, SidecarsLoaded
    <3>. QED BY <3>1, <3>2 DEF OriginInv, FromFile, FromSidecar, GridsOf
  <2>4. CASE UNCHANGED <<found, tables>>
    <3>1. t \in tables /\ pc \notin Early BY <1>2, <2>4 DEF OriginInv
    <3>2. content' = content /\ fileType' = fileType
      BY <3>1, Frames DEF Early, Detect, ParsePdf, ParseWorkbook, Step
    <3>. QED BY <2>4, <3>1, <3>2 DEF OriginInv, FromFile, FromSidecar, SheetTable, GridsOf
  <2>. QED BY <2>1, <2>2, <2>3, <2>4, Frames
<1>3. found' \in [Page -> NativeFinds \cup {<<>>}]
  BY Frames DEF OriginInv, ExtractPdf, ExtractWorkbook, LoadSidecars
<1>. QED BY <1>1, <1>2, <1>3 DEF OriginInv

\* A full sidecar grid that replaces a table overlaps it by four fifths of one of the two.
LEMMA ReplacementOverlaps ==
    ASSUME NEW r, NEW t, r.box \in Box, t.box \in Box, Replaces(r, t)
    PROVE  /\ r.page = t.page /\ ~ r.partial /\ r.box # NoBox /\ t.box # NoBox
           /\ Overlap(r.box, t.box) > 0
           /\ \E x \in {r, t} : 10 * Overlap(r.box, t.box) >= 8 * Height(x.box)
<1>1. r.box \in Nat \X Nat /\ t.box \in Nat \X Nat BY DEF Replaces, Box
<1>. DEFINE smaller == Lower(Height(r.box), Height(t.box))
<1>2. smaller > 0 /\ 10 * Overlap(r.box, t.box) >= 8 * smaller BY DEF Replaces
<1>3. smaller \in Int /\ Overlap(r.box, t.box) \in Int
  BY <1>1 DEF Lower, Upper, Height, Overlap
<1>4. Overlap(r.box, t.box) > 0
  <2>. HIDE DEF smaller
  <2>. QED BY <1>2, <1>3
<1>5. \E x \in {r, t} : smaller = Height(x.box) BY DEF Lower
<1>. QED BY <1>2, <1>4, <1>5 DEF Replaces

\* No step loses a table of the file but for a full sidecar grid.
LEMMA KeptStep == ASSUME IInv, OriginInv, KeptInv, [Next]_vars PROVE KeptInv'
<1>1. ASSUME pc' = "sidecars" PROVE \A t \in tables' : t.path = 0
  <2>1. CASE ExtractPdf BY <2>1, TableOfFile DEF ExtractPdf
  <2>2. CASE ExtractionFails
    BY <2>2 DEF ExtractionFails, tableVars, OriginInv, Early, Step
  <2>3. CASE pc = "sidecars"
    BY <1>1, <2>3, Frames DEF KeptInv, ExtractPdf, ExtractWorkbook, LoadSidecars, Step
  <2>. QED BY <1>1, <2>1, <2>2, <2>3, Reached
<1>2. ASSUME pc' = "sidecars", "tables" \notin mishaps'
      PROVE  \A p \in Page : GridsOf(found', p) \subseteq tables'
  <2>1. CASE ExtractPdf BY <2>1 DEF ExtractPdf
  <2>2. ~ ExtractionFails BY <1>2 DEF ExtractionFails
  <2>3. CASE pc = "sidecars"
    <3>1. UNCHANGED <<found, tables>>
      BY <1>2, <2>3, Frames DEF ExtractPdf, ExtractWorkbook, LoadSidecars, Step
    <3>. QED BY <1>2, <2>3, <3>1, Frames DEF KeptInv
  <2>. QED BY <1>2, <2>1, <2>2, <2>3, Reached
<1>3. ASSUME pc' \in {"rebuild", "finish", "done"}, fileType' = "PDF", "tables" \notin mishaps',
             NEW p \in Page, NEW t \in GridsOf(found', p)
      PROVE  \/ t \in tables'
             \/ \E r \in tables' : /\ r.path # 0 /\ r.page = p /\ ~r.partial
                                   /\ r.box # NoBox /\ t.box # NoBox
                                   /\ Overlap(r.box, t.box) > 0
                                   /\ \E x \in {r, t} :
                                         10 * Overlap(r.box, t.box) >= 8 * Height(x.box)
  <2>1. CASE LoadSidecars
    <3>1. found' = found /\ t \in tables /\ t.page = p
      BY <1>3, <2>1, TableOfFile DEF LoadSidecars, KeptInv, Step
    <3>2. t.box \in Box
      <4>1. found[p] \in NativeFinds \cup {<<>>} /\ found[p] # FinderFails
        BY <1>3, <3>1 DEF GridsOf, OriginInv
      <4>2. PICK i \in DOMAIN found[p] : t = Extracted(found[p][i], p, i - 1)
        BY <1>3, <3>1, <4>1 DEF GridsOf
      <4>3. found[p][i] \in Grid BY <4>1, <4>2, Grids
      <4>. QED BY <4>2, <4>3 DEF Extracted, Grid
    <3>3. PICK raw :
            /\ tables' = {u \in tables : ~ \E r \in raw : Replaces(r, u)} \cup raw
            /\ \A r \in raw : r.path # 0 /\ r.box \in Box
      BY <2>1, SidecarsLoaded
    <3>4. CASE t \in tables' BY <3>4
    <3>5. CASE \E r \in raw : Replaces(r, t)
      <4>1. PICK r \in raw : Replaces(r, t) BY <3>5
      <4>2. r \in tables' /\ r.path # 0 BY <3>3, <4>1
      <4>. QED BY <3>1, <3>2, <3>3, <4>1, <4>2, ReplacementOverlaps
    <3>. QED BY <3>1, <3>3, <3>4, <3>5
  <2>2. CASE SidecarsFail
    <3>1. UNCHANGED <<found, tables>> /\ pc = "sidecars"
      BY <2>2 DEF SidecarsFail, tableVars, Step
    <3>. QED BY <1>3, <3>1, Frames DEF KeptInv
  <2>3. CASE NotParsed \/ ParseFails
    <3>1. found' = found /\ pc = "parse"
      BY <2>3 DEF NotParsed, ParseFails, tableVars, Step
    <3>2. found'[p] = <<>> BY <3>1 DEF OriginInv, Early
    <3>. QED BY <1>3, <3>2 DEF GridsOf
  <2>4. ~ ExtractWorkbook BY <1>3 DEF ExtractWorkbook
  <2>5. CASE pc \in {"rebuild", "finish", "done"}
    <3>1. UNCHANGED <<found, tables, fileType>>
      BY <2>5, Frames DEF ExtractPdf, ExtractWorkbook, LoadSidecars, Detect, Step
    <3>. QED BY <1>3, <2>5, <3>1, Frames DEF KeptInv, NativeTablesKept
  <2>6. CASE Rebuild \/ Finish
    <3>1. pc \in {"rebuild", "finish"} BY <2>6 DEF Rebuild, Finish, Step
    <3>. QED BY <2>5, <3>1
  <2>. QED BY <1>3, <2>1, <2>2, <2>3, <2>4, <2>5, <2>6, Reached
<1>. QED BY <1>1, <1>2, <1>3 DEF KeptInv, NativeTablesKept, GridsOf

\* The hint of a page is the one statement found on it, if it is one.
LEMMA HintIsFound ==
    ASSUME NEW sections, IsFiniteSet(sections), Hint(sections) # NoSection
    PROVE  sections = {Hint(sections)}
<1>1. Cardinality(sections) = 1 BY DEF Hint
<1>2. sections # {} BY <1>1, FS_EmptySet
<1>3. Hint(sections) \in sections BY <1>1, <1>2 DEF Hint
<1>4. PICK s : sections = {s} BY <1>1, FS_Singleton
<1>. QED BY <1>3, <1>4

\* A table without a heading of its own is accepted only if its surroundings name one
\* statement at most (_resolve_type).
LEMMA AcceptedInContext ==
    ASSUME NEW t, NEW sections, NEW shown, IsFiniteSet(sections), IsFiniteSet(shown),
           NEW heading, heading \in Leading(shown), t.own = NoSection,
           Hint(sections) # NoSection => shown \subseteq {Hint(sections)},
           Reconstructed(t, Hint(sections), shown, heading).status = "OK"
    PROVE  LET r == Reconstructed(t, Hint(sections), shown, heading)
           IN  shown = {r.type} \/ (shown = {} /\ sections = {r.type})
<1>. DEFINE type == ResolvedType(t, Hint(sections), shown, heading)
<1>1. type # NoSection /\ Reconstructed(t, Hint(sections), shown, heading).type = type
  BY DEF Reconstructed
<1>2. CASE Hint(sections) # NoSection
  <2>1. type = Hint(sections) BY <1>2 DEF ResolvedType, Ambiguous
  <2>2. sections = {Hint(sections)} BY <1>2, HintIsFound
  <2>. QED BY <1>1, <1>2, <2>1, <2>2
<1>3. CASE Hint(sections) = NoSection
  <2>1. ~ (Cardinality(shown) > 1) /\ type = heading BY <1>1, <1>3 DEF ResolvedType, Ambiguous
  <2>2. heading \in shown BY <1>1, <2>1 DEF Leading
  <2>3. Cardinality(shown) \in Nat /\ Cardinality(shown) # 0
    BY <2>2, FS_CardinalityType, FS_EmptySet
  <2>4. Cardinality(shown) = 1 BY <2>1, <2>3
  <2>5. shown = {heading} BY <2>2, <2>4, FS_Singleton
  <2>. QED BY <1>1, <2>1, <2>5
<1>. QED BY <1>2, <1>3

\* Every heading around a table of the file is one the page was given.
LEMMA ShownIsFound ==
    ASSUME IInv, OriginInv, HeadInv, pc = "rebuild", NEW p \in Page
    PROVE  /\ IsFiniteSet(Shown(p)) /\ IsFiniteSet(hits[p])
           /\ Hint(hits[p]) # NoSection => Shown(p) \subseteq {Hint(hits[p])}
<1>. DEFINE others == {t.own : t \in {u \in tables : u.path # 0 /\ u.page = p}} \ {NoSection}
<1>1. Shown(p) = content[p].headings \cup others BY DEF Shown
<1>2. content[p].headings \subseteq Sections
  BY Headings DEF IInv, PhaseInv, DataInv, Parsed
<1>3. others \subseteq Sections BY DEF IInv, DataInv, Statement
<1>4. IsFiniteSet(Shown(p))
  <2>1. Shown(p) \subseteq Sections BY <1>1, <1>2, <1>3
  <2>. QED BY <2>1, TablesAssumption, FS_Subset
<1>5. IsFiniteSet(hits[p])
  <2>1. hits[p] \subseteq Sections BY DEF IInv, DataInv
  <2>. QED BY <2>1, TablesAssumption, FS_Subset
<1>6. CASE fileType = "PDF"
  <2>1. content[p].headings \subseteq hits[p] /\ others \subseteq hits[p] BY <1>6 DEF HeadInv
  <2>. QED BY <1>1, <1>4, <1>5, <2>1, HintIsFound
<1>7. CASE fileType = "XLSX"
  <2>1. others = {} BY <1>7 DEF OriginInv, FromSidecar
  <2>2. hits[p] \subseteq content[p].headings BY <1>7 DEF HeadInv
  <2>3. \A s, t \in content[p].headings : s = t
    BY <1>7, PipelineAssumption DEF IInv, DataInv, Parsed
  <2>. QED BY <1>1, <1>4, <1>5, <2>1, <2>2, <2>3, HintIsFound
<1>. QED BY <1>6, <1>7 DEF IInv, PhaseInv, Parsed

\* Headings stay with their pages, and tables are accepted by them.
LEMMA HeadStep == ASSUME IInv, OriginInv, KeptInv, HeadInv, [Next]_vars PROVE HeadInv'
<1>1. ASSUME pc' \notin {"finish", "done"} PROVE rebuilt' = {}
  <2>1. pc \notin {"finish", "done"} /\ ~ Rebuild BY <1>1, Reached DEF Rebuild, Step
  <2>. QED BY <2>1, Frames DEF HeadInv
<1>2. ASSUME pc' \in {"tables", "sidecars", "rebuild"}, fileType' = "PDF", NEW p \in Page
      PROVE  content'[p].headings \subseteq hits'[p]
  <2>1. CASE Classify
    <3>1. content' = content /\ fileType = "PDF" /\ hits' = SectionHits
      BY <1>2, <2>1 DEF Classify
    <3>. QED BY <3>1 DEF SectionHits
  <2>2. CASE pc \in {"tables", "sidecars", "rebuild"}
    <3>1. UNCHANGED <<content, fileType>> /\ (UNCHANGED hits \/ LoadSidecars)
      BY <2>2, Frames DEF ParsePdf, ParseWorkbook, Detect, Classify, Step
    <3>2. content[p].headings \subseteq hits[p] BY <1>2, <2>2, <3>1 DEF HeadInv
    <3>3. hits[p] \subseteq hits'[p] BY <3>1, SidecarsLoaded
    <3>. QED BY <3>1, <3>2, <3>3
  <2>3. ~ ExtractWorkbook BY <1>2 DEF ExtractWorkbook
  <2>. QED BY <1>2, <2>1, <2>2, <2>3, Reached
       DEF ExtractPdf, ExtractionFails, LoadSidecars, SidecarsFail, Step
<1>3. ASSUME pc' \in {"tables", "rebuild"}, fileType' = "XLSX", NEW p \in Page
      PROVE  hits'[p] \subseteq content'[p].headings
  <2>1. CASE Classify
    <3>1. content' = content /\ fileType = "XLSX" /\ hits' = SectionHits
      BY <1>3, <2>1 DEF Classify
    <3>. QED BY <3>1 DEF SectionHits
  <2>2. CASE pc \in {"tables", "rebuild"}
    <3>1. UNCHANGED <<content, fileType, hits>>
      BY <2>2, Frames DEF ParsePdf, ParseWorkbook, Detect, Classify, LoadSidecars, Step
    <3>. QED BY <1>3, <2>2, <3>1 DEF HeadInv
  <2>3. ~ LoadSidecars /\ ~ SidecarsFail
    BY <1>3 DEF LoadSidecars, SidecarsFail, Step, IInv, PhaseInv
  <2>. QED BY <1>3, <2>1, <2>2, <2>3, Reached DEF ExtractWorkbook, Step
<1>4. ASSUME pc' = "rebuild", NEW t \in tables', t.path # 0, t.own # NoSection
      PROVE  t.own \in hits'[t.page]
  <2>1. CASE LoadSidecars
    <3>1. PICK raw :
            /\ tables' = {u \in tables : ~ \E r \in raw : Replaces(r, u)} \cup raw
            /\ hits' = [p \in Page |-> hits[p] \cup
                           ({u.own : u \in {r \in raw : r.page = p}} \ {NoSection})]
            /\ \A r \in raw : r.page \in Page
      BY <2>1, SidecarsLoaded
    <3>2. \A u \in tables : u.path = 0 BY <2>1 DEF LoadSidecars, Step, KeptInv
    <3>3. t \in raw /\ t.page \in Page BY <1>4, <3>1, <3>2
    <3>4. hits'[t.page] = hits[t.page] \cup
                             ({u.own : u \in {r \in raw : r.page = t.page}} \ {NoSection})
      BY <3>1, <3>3
    <3>. QED BY <1>4, <3>3, <3>4
  <2>2. CASE SidecarsFail
    BY <1>4, <2>2 DEF SidecarsFail, tableVars, Step, KeptInv
  <2>3. ~ ExtractWorkbook
    <3>1. \A p : SheetTable(p).path = 0 BY DEF SheetTable, Extracted
    <3>. QED BY <1>4, <3>1 DEF ExtractWorkbook
  <2>4. CASE pc = "rebuild"
    <3>1. UNCHANGED <<tables, hits>>
      BY <2>4, Frames DEF ExtractPdf, ExtractWorkbook, LoadSidecars, Classify, Step
    <3>. QED BY <1>4, <2>4, <3>1 DEF HeadInv
  <2>. QED BY <1>4, <2>1, <2>2, <2>3, <2>4, Reached
<1>5. ASSUME pc' \in {"tables", "sidecars"}, NEW p \in Page
      PROVE  hits'[p] \subseteq content'[p].headings \cup OcrHeadings(p)'
  <2>1. CASE Classify
    <3>1. UNCHANGED <<content, ocr>> /\ hits' = SectionHits
      BY <2>1 DEF Classify, ocrVars
    <3>. QED BY <3>1 DEF SectionHits, OcrHeadings
  <2>2. CASE pc \in {"tables", "sidecars"}
    <3>1. UNCHANGED <<content, hits, ocr>>
      BY <1>5, <2>2, Frames DEF ParsePdf, ParseWorkbook, Classify, LoadSidecars, SkipPage,
         RecognisePage, OcrFails, Step
    <3>. QED BY <2>2, <3>1 DEF HeadInv, OcrHeadings
  <2>. QED BY <1>5, <2>1, <2>2, Reached DEF ExtractPdf, ExtractionFails, Step
<1>6. ASSUME pc' = "rebuild", NEW p \in Page
      PROVE  hits'[p] \subseteq (Shown(p) \cup OcrHeadings(p))'
  <2>1. CASE pc \in {"tables", "sidecars"}
    <3>1. UNCHANGED <<content, ocr>>
      BY <2>1, Frames DEF ParsePdf, ParseWorkbook, SkipPage, RecognisePage, OcrFails, Step
    <3>2. OcrHeadings(p)' = OcrHeadings(p) BY <3>1 DEF OcrHeadings
    <3>3. hits[p] \subseteq content[p].headings \cup OcrHeadings(p) BY <2>1 DEF HeadInv
    <3>4. content[p].headings \subseteq Shown(p)' BY <3>1 DEF Shown
    <3>5. CASE UNCHANGED hits BY <3>2, <3>3, <3>4, <3>5
    <3>6. CASE LoadSidecars
      <4>1. PICK raw :
              /\ raw \subseteq tables'
              /\ hits' = [q \in Page |-> hits[q] \cup
                             ({t.own : t \in {r \in raw : r.page = q}} \ {NoSection})]
              /\ \A r \in raw : r.path # 0
        BY <3>6, SidecarsLoaded
      <4>2. hits'[p] = hits[p] \cup ({t.own : t \in {r \in raw : r.page = p}} \ {NoSection})
        BY <4>1
      <4>3. {t.own : t \in {r \in raw : r.page = p}} \ {NoSection} \subseteq Shown(p)'
        BY <4>1 DEF Shown
      <4>. QED BY <3>2, <3>3, <3>4, <4>2, <4>3
    <3>7. ~ Classify BY <2>1 DEF Classify, Step
    <3>. QED BY <3>5, <3>6, <3>7, Frames
  <2>2. CASE pc = "rebuild"
    <3>1. UNCHANGED <<content, hits, ocr, tables>>
      BY <2>2, Frames DEF ParsePdf, ParseWorkbook, Classify, ExtractPdf, ExtractWorkbook,
         LoadSidecars, SkipPage, RecognisePage, OcrFails, Step
    <3>. QED BY <2>2, <3>1 DEF HeadInv, OcrHeadings, Shown
  <2>. QED BY <1>6, <2>1, <2>2, Reached DEF ExtractWorkbook, LoadSidecars, SidecarsFail, Step
<1>7. ContextUnambiguous'
  <2>1. CASE Rebuild
    <3>1. PICK heading :
            /\ \A p \in Page : heading[p] \in Leading(Shown(p))
            /\ rebuilt' = {Reconstructed(t, Hint(hits[t.page]), Shown(t.page), heading[t.page])
                               : t \in tables}
      BY <2>1 DEF Rebuild
    <3>2. /\ UNCHANGED <<tables, hits, content, ocr>> /\ pc = "rebuild"
          /\ \A p : Shown(p)' = Shown(p) /\ OcrHeadings(p)' = OcrHeadings(p)
      BY <2>1 DEF Rebuild, tableVars, ocrVars, Shown, OcrHeadings, Step
    <3>3. ASSUME NEW r \in rebuilt', r.status = "OK", r.table.own = NoSection
          PROVE  LET p == r.table.page
                 IN  \/ Shown(p) = {r.type} /\ hits[p] \ {r.type} \subseteq OcrHeadings(p)
                     \/ Shown(p) = {} /\ hits[p] = {r.type} /\ r.type \in OcrHeadings(p)
      <4>1. PICK t \in tables :
              r = Reconstructed(t, Hint(hits[t.page]), Shown(t.page), heading[t.page])
        BY <3>1, <3>3
      <4>2. r.table = t /\ t.page \in Page BY <4>1 DEF Reconstructed, IInv, DataInv
      <4>3. heading[t.page] \in Leading(Shown(t.page)) BY <3>1, <4>2
      <4>4. /\ IsFiniteSet(Shown(t.page)) /\ IsFiniteSet(hits[t.page])
            /\ Hint(hits[t.page]) # NoSection => Shown(t.page) \subseteq {Hint(hits[t.page])}
        BY <3>2, <4>2, ShownIsFound
      <4>5. \/ Shown(t.page) = {r.type}
            \/ Shown(t.page) = {} /\ hits[t.page] = {r.type}
        BY <3>3, <4>1, <4>2, <4>3, <4>4, AcceptedInContext
      <4>6. hits[t.page] \subseteq Shown(t.page) \cup OcrHeadings(t.page)
        BY <3>2, <4>2 DEF HeadInv
      <4>. QED BY <4>2, <4>5, <4>6
    <3>. QED BY <3>2, <3>3 DEF ContextUnambiguous
  <2>2. CASE UNCHANGED rebuilt
    <3>1. CASE rebuilt = {} BY <2>2, <3>1 DEF ContextUnambiguous
    <3>2. CASE pc \in {"finish", "done"}
      <4>1. UNCHANGED <<tables, hits, content, ocr>>
        BY <3>2, Frames DEF ParsePdf, ParseWorkbook, Classify, ExtractPdf, ExtractWorkbook,
             LoadSidecars, SkipPage, RecognisePage, OcrFails, Step
      <4>. QED BY <2>2, <4>1 DEF HeadInv, ContextUnambiguous, Shown, OcrHeadings
    <3>. QED BY <3>1, <3>2 DEF HeadInv
  <2>. QED BY <2>1, <2>2, Frames
<1>. QED BY <1>1, <1>2, <1>3, <1>4, <1>5, <1>6, <1>7 DEF HeadInv

-----------------------------------------------------------------------------
(* Review has a cause.                                                         *)

\* Every warning that asks for review rests on what went wrong.
CauseInv ==
    /\ pc \in {"detect", "parse", "assess", "ocr"} => warnings = {}
    /\ warnings \cap OcrTokens # {} =>
           fileType = "PDF" /\ \E p \in Page : ~PageReadable(p)
    /\ "classification_unmatched" \in warnings => "class" \in mishaps
    /\ "table_extraction_failed" \in warnings => "tables" \in mishaps
    /\ "raw_table_source_failed" \in warnings => "sidecars" \in mishaps
    /\ "xls_not_supported" \in warnings => fileType = "XLS"
    /\ pc \in Early \cup {"sidecars"} => "table_extraction_needs_review" \notin warnings
    /\ "table_extraction_needs_review" \in warnings =>
           notices # {} \/ issues # {} \/ \E t \in tables : t.status # "OK"
    /\ \A p \in issues : p \in Page /\ fileType = "PDF" /\ ~PageSearched(p)
    /\ "table_reconstruction_needs_review" \in warnings => \E r \in rebuilt : ~TablePlain(r)
    /\ result.status = "NEEDS_REVIEW" =>
           fileType = "XLS" \/ (Judged /\ warnings \cap ReviewTokens # {})

\* Nothing in the file vouches for a page that needs OCR.
LEMMA NeededIsDoubted ==
    ASSUME NEW p, NeedsOcr(p)
    PROVE  /\ ~(content[p].chars >= 50)
           /\ ~(/\ content[p].chars = 0 /\ content[p].coverage # NoCoverage
                /\ ~content[p].geometryError /\ content[p].coverage < 5)
BY DEF NeedsOcr, OcrReason, MinNativeChars, LowCoverage

\* A reading that vouches for its page is accepted.
LEMMA GoodReadingAccepted ==
    ASSUME NEW r, r.text, r.confidence \in 60..100 PROVE OcrAccepted(r)
<1>1. r.confidence \in Int /\ r.confidence \in 0..100 /\ r.confidence >= 60 OBVIOUS
<1>2. r.confidence # NoConfidence BY <1>1, PipelineAssumption
<1>. QED BY <1>1, <1>2 DEF OcrAccepted, MinOcrConfidence

\* A plain table passes reconstruction.
LEMMA PlainIsAccepted ==
    ASSUME NEW t, NEW sections, IsFiniteSet(sections), NEW shown,
           NEW heading, heading \in Leading(shown),
           LET r == Reconstructed(t, Hint(sections), shown, heading)
           IN  /\ t.status = "OK" /\ t.unit /\ t.header /\ r.type \in Sections
               /\ sections \cup shown \subseteq {r.type}
    PROVE  Reconstructed(t, Hint(sections), shown, heading).status = "OK"
<1>. DEFINE type == ResolvedType(t, Hint(sections), shown, heading)
<1>1. /\ t.status = "OK" /\ t.unit /\ t.header
      /\ type \in Sections /\ sections \cup shown \subseteq {type}
  BY DEF Reconstructed
<1>2. type # NoSection BY <1>1, TablesAssumption
<1>3. ASSUME t.own # NoSection PROVE ~Conflict(t, Hint(sections), heading)
  <2>1. type = t.own BY <1>3 DEF ResolvedType, Ambiguous
  <2>2. Hint(sections) \in {NoSection, type} BY <1>1, HintIsFound
  <2>3. heading \in {NoSection, type} BY <1>1 DEF Leading
  <2>. QED BY <2>1, <2>2, <2>3 DEF Conflict
<1>4. ~Conflict(t, Hint(sections), heading) BY <1>3 DEF Conflict
<1>. QED BY <1>1, <1>2, <1>4 DEF Reconstructed

\* A page stays as readable as it is once OCR is over, and as searched as it is.
LEMMA PagesSettled ==
    ASSUME [Next]_vars
    PROVE  /\ pc \notin {"detect", "parse", "ocr"} =>
                  /\ fileType' = fileType /\ content' = content /\ ocr' = ocr
                  /\ \A p : PageReadable(p)' <=> PageReadable(p)
           /\ pc \notin Early =>
                  \A p : found' = found /\ (PageSearched(p)' <=> PageSearched(p))
<1>1. ASSUME pc \notin {"detect", "parse", "ocr"}
      PROVE  fileType' = fileType /\ content' = content /\ ocr' = ocr
  BY <1>1, Frames DEF Detect, ParsePdf, ParseWorkbook, SkipPage, RecognisePage, OcrFails, Step
<1>2. ASSUME pc \notin Early PROVE found' = found /\ content' = content
  BY <1>2, Frames DEF ExtractPdf, ExtractWorkbook, LoadSidecars, ParsePdf, ParseWorkbook, Step, Early
<1>. QED BY <1>1, <1>2 DEF PageReadable, PageSearched

\* Where each warning comes from, and each result.
LEMMA Sources ==
    ASSUME [Next]_vars
    PROVE  /\ warnings \subseteq warnings'
           /\ \A w \in warnings' \ warnings :
                \/ w \in OcrTokens /\ (Assess \/ OcrFails \/ OcrDone)
                \/ w = "classification_unmatched" /\ Classify /\ "class" \in mishaps'
                \/ w = "table_extraction_failed" /\ ExtractionFails /\ "tables" \in mishaps'
                \/ w = "raw_table_source_failed" /\ SidecarsFail /\ "sidecars" \in mishaps'
                \/ w = "xls_not_supported" /\ NotParsed /\ fileType = "XLS"
                \/ /\ w = "table_extraction_needs_review"
                   /\ ExtractWorkbook \/ LoadSidecars \/ SidecarsFail
                   /\ notices' # {} \/ issues' # {} \/ \E t \in tables' : t.status # "OK"
                \/ /\ w = "table_reconstruction_needs_review" /\ Rebuild
                   /\ \E r \in rebuilt' : r.status # "OK"
                \/ w \in {"unsupported_file_type", "parse_failed"} /\ (NotParsed \/ ParseFails)
           /\ UNCHANGED result \/ NotParsed \/ ParseFails \/ Finish
           /\ pc = "done" => pc' = "done"
<1>. USE DEF Warn, Return, Step, ocrVars, tableVars
<1>1. CASE Detect BY <1>1 DEF Detect
<1>2. CASE NotParsed BY <1>2 DEF NotParsed
<1>3. CASE ParseFails BY <1>3 DEF ParseFails
<1>4. CASE ParsePdf BY <1>4 DEF ParsePdf
<1>5. CASE ParseWorkbook BY <1>5 DEF ParseWorkbook
<1>6. CASE Assess BY <1>6 DEF Assess, OcrTokens
<1>7. CASE SkipPage BY <1>7 DEF SkipPage
<1>8. CASE RecognisePage BY <1>8 DEF RecognisePage
<1>9. CASE OcrFails BY <1>9 DEF OcrFails, OcrTokens
<1>10. CASE OcrDone BY <1>10 DEF OcrDone, OcrTokens
<1>11. CASE Raise BY <1>11 DEF Raise
<1>12. CASE Classify BY <1>12 DEF Classify
<1>13. CASE ExtractPdf BY <1>13 DEF ExtractPdf
<1>14. CASE ExtractionFails BY <1>14 DEF ExtractionFails
<1>15. CASE ExtractWorkbook BY <1>15 DEF ExtractWorkbook, ReviewWarning, NeedsReview
<1>16. CASE LoadSidecars
  <2>1. PICK unread :
          notices' = unread /\ warnings' = warnings \cup ReviewWarning(tables', issues, unread)
    BY <1>16, SidecarsLoaded
  <2>. QED BY <1>16, <2>1 DEF LoadSidecars, ReviewWarning, NeedsReview
<1>17. CASE SidecarsFail
  <2>1. /\ warnings' = warnings \cup ({"raw_table_source_failed"} \cup
                                         ReviewWarning(tables, issues, {}))
        /\ "sidecars" \in mishaps' /\ UNCHANGED <<tables, issues, notices>>
    BY <1>17 DEF SidecarsFail
  <2>. QED BY <1>17, <2>1 DEF SidecarsFail, ReviewWarning, NeedsReview
<1>18. CASE Rebuild BY <1>18 DEF Rebuild
<1>19. CASE Finish BY <1>19 DEF Finish
<1>20. CASE UNCHANGED vars BY <1>20 DEF vars
<1>. QED BY <1>1, <1>2, <1>3, <1>4, <1>5, <1>6, <1>7, <1>8, <1>9, <1>10, <1>11,
           <1>12, <1>13, <1>14, <1>15, <1>16, <1>17, <1>18, <1>19, <1>20 DEF Next

\* Every step that asks for review has its cause, and no step takes a cause away.
LEMMA CauseStep ==
    ASSUME IInv, OriginInv, KeptInv, HeadInv, CauseInv, [Next]_vars
    PROVE  CauseInv'
<1>0. /\ "classification_unmatched" \notin OcrTokens /\ "table_extraction_failed" \notin OcrTokens
      /\ "raw_table_source_failed" \notin OcrTokens /\ "xls_not_supported" \notin OcrTokens
      /\ "table_extraction_needs_review" \notin OcrTokens
      /\ "table_reconstruction_needs_review" \notin OcrTokens
      /\ "unsupported_file_type" \notin OcrTokens /\ "parse_failed" \notin OcrTokens
  BY DEF OcrTokens
<1>1. ASSUME pc' \in {"detect", "parse", "assess", "ocr"} PROVE warnings' = {}
  <2>1. pc \in {"detect", "parse", "assess", "ocr"} /\ UNCHANGED warnings
    BY <1>1 DEF Next, vars, Detect, NotParsed, ParseFails, ParsePdf, ParseWorkbook, Assess, SkipPage,
       RecognisePage, OcrFails, OcrDone, Raise, Classify, ExtractPdf, ExtractionFails,
       ExtractWorkbook, LoadSidecars, SidecarsFail, Rebuild, Finish, Step
  <2>. QED BY <2>1 DEF CauseInv
<1>2. ASSUME warnings' \cap OcrTokens # {}
      PROVE  fileType' = "PDF" /\ \E p \in Page : ~PageReadable(p)'
  <2>1. CASE warnings \cap OcrTokens # {}
    <3>1. pc \notin {"detect", "parse", "ocr"} BY <2>1 DEF CauseInv
    <3>. QED BY <2>1, <3>1, PagesSettled DEF CauseInv
  <2>2. CASE Assess /\ warnings' # warnings
    <3>1. PICK p \in Page : NeedsOcr(p) BY <2>2 DEF Assess
    <3>2. UNCHANGED <<fileType, content, ocr>> /\ DOMAIN ocr = {} /\ fileType = "PDF"
      BY <2>2 DEF Assess, ocrVars, IInv, PhaseInv, OcrInv
    <3>. QED BY <3>1, <3>2, NeededIsDoubted DEF PageReadable
  <2>3. CASE OcrFails
    <3>1. UNCHANGED <<fileType, content>> /\ DOMAIN ocr' = {} /\ fileType = "PDF"
      BY <2>3 DEF OcrFails, Step, IInv, PhaseInv
    <3>2. turn \in Page /\ NeedsOcr(turn) BY <2>3 DEF OcrFails
    <3>. QED BY <3>1, <3>2, NeededIsDoubted DEF PageReadable
  <2>4. CASE OcrDone /\ warnings' # warnings
    <3>1. PICK p \in DOMAIN ocr : ~OcrAccepted(ocr[p]) BY <2>4 DEF OcrDone, Warn
    <3>2. UNCHANGED <<fileType, content, ocr>> /\ fileType = "PDF"
      BY <2>4 DEF OcrDone, ocrVars, Step, IInv, PhaseInv
    <3>3. p \in Page /\ NeedsOcr(p)
      <4>1. DOMAIN ocr = {q \in 1..(turn - 1) : NeedsOcr(q)} /\ DOMAIN ocr \subseteq Page
        BY <2>4 DEF OcrDone, Step, IInv, OcrInv, DataInv
      <4>. QED BY <4>1
    <3>4. ~(ocr[p].text /\ ocr[p].confidence \in 60..100) BY <3>1, GoodReadingAccepted
    <3>. QED BY <3>2, <3>3, <3>4, NeededIsDoubted DEF PageReadable
  <2>. QED BY <1>0, <1>2, <2>1, <2>2, <2>3, <2>4, Sources
<1>3. /\ "classification_unmatched" \in warnings' => "class" \in mishaps'
      /\ "table_extraction_failed" \in warnings' => "tables" \in mishaps'
      /\ "raw_table_source_failed" \in warnings' => "sidecars" \in mishaps'
  BY <1>0, Sources, Frames DEF CauseInv
<1>4. ASSUME "xls_not_supported" \in warnings' PROVE fileType' = "XLS"
  <2>1. CASE "xls_not_supported" \in warnings
    <3>1. pc # "detect" BY <2>1 DEF CauseInv
    <3>. QED BY <2>1, <3>1, Frames DEF CauseInv, Detect, Step
  <2>2. CASE NotParsed /\ fileType = "XLS" BY <2>2 DEF NotParsed
  <2>. QED BY <1>0, <1>4, <2>1, <2>2, Sources
<1>5. ASSUME pc' \in Early \cup {"sidecars"} PROVE "table_extraction_needs_review" \notin warnings'
  <2>1. pc \in Early \cup {"sidecars"} BY <1>5, Reached DEF ExtractPdf, ExtractionFails, Step, Early
  <2>2. ~ ExtractWorkbook /\ ~ LoadSidecars /\ ~ SidecarsFail
    BY <1>5 DEF ExtractWorkbook, LoadSidecars, SidecarsFail, Step, Early
  <2>. QED BY <1>0, <2>1, <2>2, Sources DEF CauseInv
<1>6. ASSUME "table_extraction_needs_review" \in warnings'
      PROVE  notices' # {} \/ issues' # {} \/ \E t \in tables' : t.status # "OK"
  <2>1. CASE "table_extraction_needs_review" \in warnings
    <3>1. pc \notin Early \cup {"sidecars"} BY <2>1 DEF CauseInv
    <3>2. UNCHANGED <<notices, issues, tables>>
      BY <3>1, Frames DEF ExtractPdf, ExtractWorkbook, LoadSidecars, Step, Early
    <3>. QED BY <2>1, <3>2 DEF CauseInv
  <2>. QED BY <1>0, <1>6, <2>1, Sources
<1>7. ASSUME NEW p \in issues' PROVE p \in Page /\ fileType' = "PDF" /\ ~PageSearched(p)'
  <2>1. CASE ExtractPdf BY <2>1 DEF ExtractPdf, IssuePages, PageSearched
  <2>2. CASE UNCHANGED issues
    <3>1. pc \notin Early BY <2>2 DEF IInv, TableInv, Early
    <3>. QED BY <2>2, <3>1, PagesSettled DEF CauseInv, Early
  <2>. QED BY <2>1, <2>2, Frames
<1>8. ASSUME "table_reconstruction_needs_review" \in warnings'
      PROVE  \E r \in rebuilt' : ~TablePlain(r)'
  <2>1. CASE "table_reconstruction_needs_review" \in warnings
    <3>1. PICK r \in rebuilt : ~TablePlain(r) BY <2>1 DEF CauseInv
    <3>2. pc \in {"finish", "done"} BY <3>1 DEF HeadInv
    <3>3. UNCHANGED <<tables, hits, content, rebuilt>>
      BY <3>2, Frames DEF ParsePdf, ParseWorkbook, Classify, ExtractPdf, ExtractWorkbook,
         LoadSidecars, Rebuild, Step
    <3>. QED BY <3>1, <3>3 DEF TablePlain, Shown
  <2>2. CASE Rebuild /\ \E r \in rebuilt' : r.status # "OK"
    <3>1. PICK heading :
            /\ \A p \in Page : heading[p] \in Leading(Shown(p))
            /\ rebuilt' = {Reconstructed(t, Hint(hits[t.page]), Shown(t.page), heading[t.page])
                               : t \in tables}
      BY <2>2 DEF Rebuild
    <3>2. UNCHANGED <<tables, hits, content>> /\ pc = "rebuild"
      BY <2>2 DEF Rebuild, tableVars, Step
    <3>3. PICK r \in rebuilt' : r.status # "OK" BY <2>2
    <3>4. PICK t \in tables :
            r = Reconstructed(t, Hint(hits[t.page]), Shown(t.page), heading[t.page])
      BY <3>1, <3>3
    <3>5. t.page \in Page /\ IsFiniteSet(hits[t.page]) BY <3>2, ShownIsFound DEF IInv, DataInv
    <3>6. heading[t.page] \in Leading(Shown(t.page)) BY <3>1, <3>5
    <3>7. ~(/\ t.status = "OK" /\ t.unit /\ t.header /\ r.type \in Sections
            /\ hits[t.page] \cup Shown(t.page) \subseteq {r.type})
      BY <3>3, <3>4, <3>5, <3>6, PlainIsAccepted
    <3>8. r.table = t BY <3>4 DEF Reconstructed
    <3>9. ~TablePlain(r) BY <3>7, <3>8 DEF TablePlain
    <3>10. ~TablePlain(r)' BY <3>2, <3>9 DEF TablePlain, Shown
    <3>. QED BY <3>3, <3>10
  <2>. QED BY <1>0, <1>8, <2>1, <2>2, Sources
<1>9. ASSUME result'.status = "NEEDS_REVIEW"
      PROVE  fileType' = "XLS" \/ (Judged' /\ warnings' \cap ReviewTokens # {})
  <2>1. CASE UNCHANGED result
    <3>1. pc = "done" /\ pc' = "done" BY <1>9, <2>1, Sources DEF IInv, PhaseInv
    <3>2. UNCHANGED fileType BY <3>1, Frames DEF Detect, Step
    <3>. QED BY <1>9, <2>1, <3>1, <3>2, Sources DEF CauseInv, Judged
  <2>2. CASE NotParsed BY <1>9, <2>2 DEF NotParsed, Return
  <2>3. CASE ParseFails BY <1>9, <2>3 DEF ParseFails, Return
  <2>4. CASE Finish
    <3>1. /\ TerminalStatus = "NEEDS_REVIEW" /\ UNCHANGED <<fileType, warnings>>
          /\ pc' = "done" /\ pc = "finish"
      BY <1>9, <2>4 DEF Finish, Return, Step
    <3>. QED BY <1>9, <3>1 DEF TerminalStatus, Judged, IInv, PhaseInv, Parsed
  <2>. QED BY <2>1, <2>2, <2>3, <2>4, Sources
<1>. QED BY <1>1, <1>2, <1>3, <1>4, <1>5, <1>6, <1>7, <1>8, <1>9 DEF CauseInv

\* The invariant the properties of tables and of review follow from.
FullInv == IInv /\ OriginInv /\ KeptInv /\ HeadInv /\ CauseInv

\* FullInv is an inductive invariant of the pipeline.
THEOREM FullInductive == Spec => []FullInv
<1>1. Init => FullInv
  <2>. SUFFICES ASSUME Init PROVE FullInv OBVIOUS
  <2>1. IInv
    BY Counts DEF Init, IInv, PhaseInv, DataInv, OcrInv, FlagInv, TableInv,
       RebuiltInv, Judged, Parsed, NoResult, Mishaps
  <2>2. OriginInv BY DEF Init, OriginInv
  <2>3. KeptInv BY DEF Init, KeptInv, NativeTablesKept
  <2>4. HeadInv BY DEF Init, HeadInv, ContextUnambiguous
  <2>5. CauseInv BY DEF Init, CauseInv, NoResult
  <2>. QED BY <2>1, <2>2, <2>3, <2>4, <2>5 DEF FullInv
<1>2. ASSUME FullInv, [Next]_vars PROVE FullInv'
  <2>. USE <1>2 DEF FullInv
  <2>1. IInv' BY PhaseStep, DataStep, OcrStep, FlagStep, TableStep, RebuiltStep DEF IInv
  <2>. QED BY <2>1, OriginStep, KeptStep, HeadStep, CauseStep
<1>. QED BY <1>1, <1>2, PTL DEF Spec

\* Review is asked only for a reason: a file of the old format, a stage or a
\* sidecar that failed, a page not readable or not searched, or a table that is
\* incomplete or claimed by two statements (_terminal_status and every place
\* that adds a review token).
THEOREM ReviewCaused == Spec => []ReviewHasACause
<1>1. FullInv => ReviewHasACause
  <2>. SUFFICES ASSUME FullInv, result.status = "NEEDS_REVIEW", fileType # "XLS"
                PROVE  \/ mishaps # {} \/ notices # {}
                       \/ \E r \in rebuilt : ~TablePlain(r)
                       \/ fileType = "PDF" /\ \E p \in Page : ~PageReadable(p) \/ ~PageSearched(p)
    BY DEF ReviewHasACause
  <2>1. Judged /\ warnings \cap ReviewTokens # {} BY DEF FullInv, CauseInv
  <2>2. PICK w \in warnings : w \in ReviewTokens BY <2>1
  <2>3. CASE w \in OcrTokens BY <2>2, <2>3 DEF FullInv, CauseInv
  <2>4. CASE w = "table_extraction_needs_review"
    <3>1. notices # {} \/ issues # {} \/ \E t \in tables : t.status # "OK"
      BY <2>2, <2>4 DEF FullInv, CauseInv
    <3>2. ASSUME NEW p \in issues PROVE fileType = "PDF" /\ p \in Page /\ ~PageSearched(p)
      BY DEF FullInv, CauseInv
    <3>3. ASSUME NEW t \in tables, t.status # "OK" PROVE \E r \in rebuilt : ~TablePlain(r)
      <4>1. PICK r \in rebuilt : r.table = t BY <2>1 DEF FullInv, IInv, RebuiltInv
      <4>. QED BY <3>3, <4>1 DEF TablePlain
    <3>. QED BY <3>1, <3>2, <3>3
  <2>. QED BY <2>2, <2>3, <2>4 DEF FullInv, CauseInv, OcrTokens, ReviewTokens
<1>. QED BY <1>1, FullInductive, PTL

\* A table found in the file is given up only for a full sidecar grid over it
\* (_merge_table_extractions).
THEOREM TablesKept == Spec => []NativeTablesKept
<1>1. FullInv => NativeTablesKept BY DEF FullInv, KeptInv
<1>. QED BY <1>1, FullInductive, PTL

\* A table that does not name its statement is accepted only for the one that the text
\* around it names or, where that names none, for the one that was found on its page;
\* only headings that OCR read may name others (_resolve_type, _section_hint_for_page).
THEOREM ContextDecides == Spec => []ContextUnambiguous
<1>1. FullInv => ContextUnambiguous BY DEF FullInv, HeadInv
<1>. QED BY <1>1, FullInductive, PTL

\* The ids of tables of the file and of sidecar tables.
FileId(page, index) == TableId(FALSE, page, index)
SidecarId(page, index) == TableId(TRUE, page, index)

\* An id says which kind of table it names, on which page, at which place.
LEMMA IdParts ==
    ASSUME NEW p, NEW q, NEW i, NEW j
    PROVE  /\ SidecarId(p, i) # FileId(q, j)
           /\ FileId(p, i) = FileId(q, j) => p = q /\ i = j
<1>1. ASSUME NEW a, NEW b, <<a, p, i>> = <<b, q, j>> PROVE a = b /\ p = q /\ i = j
  BY <1>1
<1>2. TRUE # FALSE OBVIOUS
<1>. QED BY <1>1, <1>2, Zenon DEF SidecarId, FileId, TableId

\* An extracted table knows its place, and its id tells it.
LEMMA ExtractedId ==
    ASSUME NEW grid, NEW p, NEW i
    PROVE  LET t == Extracted(grid, p, i) IN t.id = FileId(p, i) /\ t.page = p /\ t.index = i
BY DEF Extracted, FileId

\* The id of a table of the file counts the grids of its page.
LEMMA FileTableId ==
    ASSUME OriginInv, NEW x \in tables, x.path = 0
    PROVE  x \in FromFile(x.page) /\ x.id = FileId(x.page, x.index)
<1>1. x \in FromFile(x.page) BY PipelineAssumption DEF OriginInv, FromSidecar
<1>2. CASE fileType = "PDF"
  <2>1. x \in GridsOf(found, x.page) BY <1>1, <1>2 DEF FromFile
  <2>2. PICK i : x = Extracted(found[x.page][i], x.page, i - 1) BY <2>1, TableOfFile
  <2>. QED BY <1>1, <2>2, ExtractedId
<1>3. CASE fileType # "PDF"
  <2>1. x = SheetTable(x.page) BY <1>1, <1>3 DEF FromFile
  <2>. QED BY <1>1, <2>1, ExtractedId DEF SheetTable
<1>. QED BY <1>2, <1>3

\* Two tables share an id only if two sidecars claim the same place: ids of
\* sidecar tables are marked, and those of the file count its grids page by
\* page (_make_table_id and _bind_to_processing_context).
THEOREM IdsIdentify == Spec => []TableIdsIdentify
<1>1. FullInv => TableIdsIdentify
  <2>. SUFFICES ASSUME FullInv, NEW t \in tables, NEW u \in tables, t.id = u.id, t # u
                PROVE  t.path # 0 /\ u.path # 0
    BY DEF TableIdsIdentify
  <2>1. \A x \in tables : (x.path = 0 /\ x \in FromFile(x.page)) \/ FromSidecar(x)
    BY DEF FullInv, OriginInv
  <2>2. \A x \in tables : x.path # 0 => x.id = SidecarId(x.page, x.index)
    BY <2>1 DEF FromSidecar, SidecarId
  <2>3. \A x \in tables : x.path = 0 => x \in FromFile(x.page) BY FileTableId DEF FullInv
  <2>4. \A x \in tables : x.path = 0 => x.id = FileId(x.page, x.index)
    BY FileTableId DEF FullInv
  <2>5. CASE t.path = 0 /\ u.path = 0
    <3>0. FileId(t.page, t.index) = FileId(u.page, u.index) BY <2>4, <2>5
    <3>1. t.page = u.page /\ t.index = u.index BY <3>0, IdParts
    <3>2. CASE fileType = "PDF"
      <4>1. t \in GridsOf(found, t.page) /\ u \in GridsOf(found, t.page)
        BY <2>3, <2>5, <3>1, <3>2 DEF FromFile
      <4>2. PICK i \in DOMAIN found[t.page] : t = Extracted(found[t.page][i], t.page, i - 1)
        BY <4>1, TableOfFile
      <4>3. PICK j \in DOMAIN found[t.page] : u = Extracted(found[t.page][j], t.page, j - 1)
        BY <4>1, TableOfFile
      <4>4. t.page \in Page /\ found[t.page] \in NativeFinds \cup {<<>>}
        BY DEF FullInv, IInv, DataInv, OriginInv
      <4>5. found[t.page] # FinderFails BY <4>1, TableOfFile
      <4>6. i \in Nat /\ j \in Nat BY <4>2, <4>3, <4>4, <4>5, Grids
      <4>7. i - 1 = j - 1 BY <3>1, <4>2, <4>3 DEF Extracted
      <4>8. i = j BY <4>6, <4>7
      <4>. QED BY <4>2, <4>3, <4>8
    <3>3. CASE fileType # "PDF"
      <4>1. t = SheetTable(t.page) /\ u = SheetTable(t.page)
        BY <2>3, <2>5, <3>1, <3>3 DEF FromFile
      <4>. QED BY <4>1
    <3>. QED BY <3>2, <3>3
  <2>6. CASE t.path = 0 /\ u.path # 0
    <3>1. FileId(t.page, t.index) = SidecarId(u.page, u.index) BY <2>2, <2>4, <2>6
    <3>. QED BY <3>1, IdParts
  <2>7. CASE t.path # 0 /\ u.path = 0
    <3>1. FileId(u.page, u.index) = SidecarId(t.page, t.index) BY <2>2, <2>4, <2>7
    <3>. QED BY <3>1, IdParts
  <2>. QED BY <2>5, <2>6, <2>7
<1>. QED BY <1>1, FullInductive, PTL

\* Reconstruction gives a table one of the statements, or none.
LEMMA ResolvedIsStatement ==
    ASSUME NEW t, t.own \in Statement, NEW sections, sections \subseteq Sections, NEW shown,
           NEW heading \in Statement
    PROVE  Reconstructed(t, Hint(sections), shown, heading).type \in Statement
<1>1. Hint(sections) \in Statement
  <2>1. CASE Cardinality(sections) = 1
    <3>1. sections # {} BY <2>1, FS_EmptySet
    <3>. QED BY <2>1, <3>1 DEF Hint, Statement
  <2>2. CASE Cardinality(sections) # 1 BY <2>2 DEF Hint, Statement
  <2>. QED BY <2>1, <2>2
<1>2. NoSection \in Statement BY DEF Statement
<1>3. ResolvedType(t, Hint(sections), shown, heading) \in Statement
  BY <1>1, <1>2 DEF ResolvedType, Ambiguous
<1>. QED BY <1>3 DEF Reconstructed

\* Every step keeps the types.
LEMMA TypeStep == ASSUME TypeOK, FullInv, [Next]_vars PROVE TypeOK'
<1>. USE DEF TypeOK
<1>1. pc' \in Phases /\ engine' \in BOOLEAN
  BY DEF Next, vars, Detect, NotParsed, ParseFails, ParsePdf, ParseWorkbook, Assess, SkipPage,
     RecognisePage, OcrFails, OcrDone, Raise, Classify, ExtractPdf, ExtractionFails,
     ExtractWorkbook, LoadSidecars, SidecarsFail, Rebuild, Finish, Step, Phases
<1>2. fileType' \in {"NONE", "PDF", "XLSX", "XLS", "OTHER"} BY Frames DEF Detect
<1>3. content' = <<>> \/ content' \in [Page -> PageKinds] \/ content' \in [Page -> SheetKinds]
  BY Frames DEF ParsePdf, ParseWorkbook
<1>4. /\ turn' \in 1..(PageCount + 1) /\ DOMAIN ocr' \subseteq Page
      /\ \A p \in DOMAIN ocr' : ocr'[p] \in OcrKinds
  <2>1. CASE SkipPage BY <2>1, Counts DEF SkipPage
  <2>2. CASE RecognisePage BY <2>2, Counts DEF RecognisePage
  <2>3. CASE OcrFails BY <2>3 DEF OcrFails
  <2>4. CASE UNCHANGED <<ocr, turn>> BY <2>4
  <2>. QED BY <2>1, <2>2, <2>3, <2>4, Frames
<1>5. /\ hits' \in [Page -> SUBSET Sections] /\ found' \in [Page -> NativeFinds \cup {<<>>}]
  BY DataStep, OriginStep DEF FullInv, DataInv, OriginInv
<1>6. issues' \subseteq Page BY Frames DEF ExtractPdf, IssuePages
<1>7. notices' \subseteq Sidecars
  <2>1. CASE LoadSidecars BY <2>1, SidecarsLoaded
  <2>. QED BY <2>1, Frames
<1>8. mishaps' \subseteq Mishaps
  BY Frames DEF Classify, ExtractionFails, SidecarsFail, Mishaps
<1>9. ASSUME NEW r \in rebuilt' PROVE r.table \in tables' /\ r.type \in Sections \cup {NoSection}
  <2>1. CASE Rebuild
    <3>1. PICK heading \in [Page -> Statement] :
            rebuilt' = {Reconstructed(t, Hint(hits[t.page]), Shown(t.page), heading[t.page])
                            : t \in tables}
      BY <2>1 DEF Rebuild, Statement
    <3>2. PICK t \in tables :
            r = Reconstructed(t, Hint(hits[t.page]), Shown(t.page), heading[t.page])
      BY <3>1
    <3>3. t.page \in Page /\ t.own \in Statement /\ hits[t.page] \subseteq Sections
      BY DEF FullInv, IInv, DataInv
    <3>4. heading[t.page] \in Statement BY <3>1, <3>3
    <3>5. r.type \in Statement BY <3>2, <3>3, <3>4, ResolvedIsStatement
    <3>6. r.table = t /\ tables' = tables BY <2>1, <3>2 DEF Reconstructed, Rebuild, tableVars
    <3>. QED BY <3>5, <3>6 DEF Statement
  <2>2. CASE UNCHANGED rebuilt
    <3>1. pc \in {"finish", "done"} BY <2>2 DEF FullInv, HeadInv
    <3>2. tables' = tables
      BY <3>1, Frames DEF ExtractPdf, ExtractWorkbook, LoadSidecars, Step
    <3>. QED BY <2>2, <3>2
  <2>. QED BY <2>1, <2>2, Frames
<1>10. /\ result'.status \in {"NONE", "PROCESSED", "NEEDS_REVIEW", "FAILED"}
       /\ result'.pages \in {{}, Page}
  BY Sources DEF NotParsed, ParseFails, Finish, Return, TerminalStatus
<1>. QED BY <1>1, <1>2, <1>3, <1>4, <1>5, <1>6, <1>7, <1>8, <1>9, <1>10

\* Every variable stays within its type.
THEOREM TypeCorrect == Spec => []TypeOK
<1>1. Init => TypeOK
  BY Counts DEF Init, TypeOK, Phases, NoResult, Mishaps
<1>2. ASSUME TypeOK, FullInv, [Next]_vars PROVE TypeOK' BY <1>2, TypeStep
<1>. QED BY <1>1, <1>2, FullInductive, PTL DEF Spec

-----------------------------------------------------------------------------
(* The numbering of blocks.                                                    *)

\* A table has a place on its page that no other table has, and the result is
\* made of the tables as they are.
PlaceInv ==
    /\ \A t \in tables : t.index \in Nat /\ t.path \in Nat
    /\ \A t, u \in tables : t.path = u.path /\ t.path # 0 => t = u
    /\ result.pages # {} =>
           /\ pc = "done" /\ result.pages = Page /\ result.blocks = Blocks
           /\ fileType = "PDF" => content \in [Page -> PageKinds]

\* Tables get their places when they are extracted, and keep them.
LEMMA PlaceStep == ASSUME FullInv, PlaceInv, [Next]_vars PROVE PlaceInv'
<1>1. /\ \A t \in tables' : t.index \in Nat /\ t.path \in Nat
      /\ \A t, u \in tables' : t.path = u.path /\ t.path # 0 => t = u
  <2>1. CASE ExtractPdf
    <3>1. ASSUME NEW t \in tables' PROVE t.index \in Nat /\ t.path = 0
      <4>1. PICK p \in Page : t \in GridsOf(found', p) BY <2>1, <3>1 DEF ExtractPdf
      <4>2. found'[p] # FinderFails /\ found'[p] \in NativeFinds
        BY <2>1, <4>1, TableOfFile DEF ExtractPdf
      <4>3. PICK i \in DOMAIN found'[p] : t = Extracted(found'[p][i], p, i - 1)
        BY <4>1, TableOfFile
      <4>4. i - 1 \in Nat
        <5>1. found'[p] \in Seq(Grid) BY <4>2, Grids
        <5>2. i \in 1..Len(found'[p]) BY <4>3, <5>1
        <5>. QED BY <5>1, <5>2
      <4>. QED BY <4>3, <4>4 DEF Extracted
    <3>. QED BY <3>1
  <2>2. CASE ExtractWorkbook
    <3>1. \A p : SheetTable(p).index = 0 /\ SheetTable(p).path = 0 BY DEF SheetTable, Extracted
    <3>. QED BY <2>2, <3>1 DEF ExtractWorkbook
  <2>3. CASE LoadSidecars
    <3>1. PICK raw :
            /\ tables' = {t \in tables : ~ \E r \in raw : Replaces(r, t)} \cup raw
            /\ \A r, u \in raw : r.path = u.path => r = u
            /\ \A r \in raw : r.index \in Nat /\ r.path \in Nat
      BY <2>3, SidecarsLoaded
    <3>2. \A t \in tables : t.path = 0 BY <2>3 DEF LoadSidecars, Step, FullInv, KeptInv
    <3>. QED BY <3>1, <3>2 DEF PlaceInv
  <2>4. CASE UNCHANGED tables BY <2>4 DEF PlaceInv
  <2>. QED BY <2>1, <2>2, <2>3, <2>4, Frames
<1>2. ASSUME result'.pages # {}
      PROVE  /\ pc' = "done" /\ result'.pages = Page /\ result'.blocks = Blocks'
             /\ fileType' = "PDF" => content' \in [Page -> PageKinds]
  <2>1. CASE Finish
    <3>1. /\ pc = "finish" /\ pc' = "done" /\ result'.pages = Page /\ result'.blocks = Blocks
          /\ UNCHANGED <<fileType, content, ocr, tables>>
      BY <2>1 DEF Finish, Return, Step, ocrVars, tableVars
    <3>2. Blocks' = Blocks BY <3>1 DEF Blocks, TextBlocks, OcrBlocks, Rank
    <3>. QED BY <3>1, <3>2 DEF FullInv, IInv, DataInv, Parsed
  <2>2. CASE NotParsed \/ ParseFails BY <1>2, <2>2 DEF NotParsed, ParseFails, Return
  <2>3. CASE UNCHANGED result
    <3>1. pc = "done" /\ pc' = "done" BY <1>2, <2>3, Sources DEF PlaceInv
    <3>2. UNCHANGED <<fileType, content, ocr, tables>>
      BY <3>1, Frames DEF Detect, ParsePdf, ParseWorkbook, SkipPage, RecognisePage, OcrFails,
         ExtractPdf, ExtractWorkbook, LoadSidecars, Step
    <3>3. Blocks' = Blocks BY <3>2 DEF Blocks, TextBlocks, OcrBlocks, Rank
    <3>. QED BY <1>2, <2>3, <3>1, <3>2, <3>3 DEF PlaceInv
  <2>. QED BY <2>1, <2>2, <2>3, Sources
<1>. QED BY <1>1, <1>2 DEF PlaceInv

\* Ranking numbers the tables of a page 0, 1, ... when no two have one place.
LEMMA RanksNumber ==
    ASSUME NEW S, IsFiniteSet(S), \A t \in S : t.index \in Nat /\ t.path \in Nat,
           \A t, u \in S : t.index = u.index /\ t.path = u.path => t = u,
           NEW rank, rank = [t \in S |-> Cardinality({u \in S : Before(u, t)})]
    PROVE  rank \in Bijection(S, 0..(Cardinality(S) - 1))
<1>. DEFINE below(t) == {u \in S : Before(u, t)}
            n == Cardinality(S)
<1>1. n \in Nat BY FS_CardinalityType
<1>2. ASSUME NEW t \in S PROVE IsFiniteSet(below(t)) /\ rank[t] \in 0..(n - 1)
  <2>1. t \notin below(t) BY DEF Before
  <2>2. below(t) \in SUBSET (S \ {t}) BY <2>1
  <2>3. IsFiniteSet(S \ {t}) /\ Cardinality(S \ {t}) = n - 1 BY FS_RemoveElement
  <2>4. IsFiniteSet(below(t)) /\ Cardinality(below(t)) <= n - 1 BY <2>2, <2>3, FS_Subset
  <2>5. Cardinality(below(t)) \in Nat BY <2>4, FS_CardinalityType
  <2>. QED BY <1>1, <2>4, <2>5
<1>3. ASSUME NEW t \in S, NEW u \in S, Before(t, u) PROVE rank[t] # rank[u]
  <2>1. below(t) \in SUBSET below(u) BY <1>3 DEF Before
  <2>2. t \in below(u) /\ t \notin below(t) BY <1>3 DEF Before
  <2>3. Cardinality(below(u)) # Cardinality(below(t)) BY <1>2, <2>1, <2>2, FS_Subset
  <2>. QED BY <2>3
<1>4. ASSUME NEW t \in S, NEW u \in S, rank[t] = rank[u] PROVE t = u
  <2>1. t.index \in Nat /\ u.index \in Nat /\ t.path \in Nat /\ u.path \in Nat OBVIOUS
  <2>2. Before(t, u) \/ Before(u, t) \/ (t.index = u.index /\ t.path = u.path)
    BY <2>1 DEF Before
  <2>. QED BY <1>3, <1>4, <2>2
<1>5. rank \in [S -> 0..(n - 1)] BY <1>2
<1>6. rank \in Injection(S, 0..(n - 1)) BY <1>4, <1>5 DEF Injection, IsInjective
<1>7. IsFiniteSet(0..(n - 1)) /\ Cardinality(0..(n - 1)) = n
  <2>1. IsFiniteSet(0..(n - 1)) /\ Cardinality(0..(n - 1)) = IF 0 > n - 1 THEN 0 ELSE n - 1 - 0 + 1
    BY <1>1, FS_Interval
  <2>. QED BY <1>1, <2>1
<1>8. rank \in Surjection(S, 0..(n - 1)) BY <1>6, <1>7, FS_Injection
<1>. QED BY <1>6, <1>8 DEF Bijection

\* What is numbered 0, 1, ... up to some number is numbered up to its own size.
LEMMA NumberedBySize ==
    ASSUME NEW M, NEW N \in Nat, \A b \in M : b.index \in 0..(N - 1),
           \A b, c \in M : b.index = c.index => b = c,
           \A k \in 0..(N - 1) : \E b \in M : b.index = k
    PROVE  {b.index : b \in M} = 0..(Cardinality(M) - 1)
<1>. DEFINE f == [b \in M |-> b.index]
<1>1. f \in Injection(M, 0..(N - 1)) BY DEF Injection, IsInjective
<1>2. f \in Surjection(M, 0..(N - 1)) BY DEF Surjection
<1>3. IsFiniteSet(0..(N - 1)) /\ Cardinality(0..(N - 1)) = N
  <2>1. IsFiniteSet(0..(N - 1)) /\ Cardinality(0..(N - 1)) = IF 0 > N - 1 THEN 0 ELSE N - 1 - 0 + 1
    BY FS_Interval
  <2>. QED BY <2>1
<1>4. Cardinality(M) = N BY <1>1, <1>2, <1>3, FS_Injection
<1>. QED BY <1>4

\* A page has finitely many tables.
LEMMA FewTables ==
    ASSUME FullInv, PlaceInv, NEW p \in Page
    PROVE  IsFiniteSet({t \in tables : t.page = p})
<1>. DEFINE own == {t \in tables : t.page = p /\ t.path = 0}
            side == {t \in tables : t.path # 0}
<1>1. IsFiniteSet(FromFile(p))
  <2>1. CASE fileType = "PDF"
    <3>1. CASE found[p] = FinderFails \/ found[p] = <<>>
      <4>1. GridsOf(found, p) = {} BY <3>1 DEF GridsOf
      <4>. QED BY <2>1, <4>1, FS_EmptySet DEF FromFile
    <3>2. CASE found[p] # FinderFails /\ found[p] # <<>>
      <4>1. found[p] \in Seq(Grid) BY <3>2, Grids DEF FullInv, OriginInv
      <4>. DEFINE D == 1..Len(found[p])
                  f == [i \in D |-> Extracted(found[p][i], p, i - 1)]
      <4>2. Len(found[p]) \in Nat /\ DOMAIN found[p] = D BY <4>1
      <4>3. IsFiniteSet(D) BY <4>2, FS_Interval
      <4>4. FromFile(p) = {Extracted(found[p][i], p, i - 1) : i \in D}
        BY <2>1, <3>2, <4>2 DEF FromFile, GridsOf
      <4>5. f \in Surjection(D, FromFile(p)) BY <4>4 DEF Surjection
      <4>. QED BY <4>3, <4>5, FS_Surjection
    <3>. QED BY <3>1, <3>2
  <2>2. CASE fileType # "PDF" BY <2>2, FS_Singleton DEF FromFile
  <2>. QED BY <2>1, <2>2
<1>2. IsFiniteSet(own)
  <2>1. own \in SUBSET FromFile(p) BY FileTableId DEF FullInv
  <2>. QED BY <1>1, <2>1, FS_Subset
<1>3. IsFiniteSet(side)
  <2>. DEFINE f == [t \in side |-> t.path]
  <2>1. \A t \in side : t.path \in Sidecars BY DEF FullInv, OriginInv, FromSidecar
  <2>2. \A t, u \in side : t.path = u.path => t = u BY DEF PlaceInv
  <2>3. f \in Injection(side, Sidecars) BY <2>1, <2>2 DEF Injection, IsInjective
  <2>. QED BY <2>3, PipelineAssumption, FS_Injection
<1>4. {t \in tables : t.page = p} \in SUBSET (own \cup side) OBVIOUS
<1>. QED BY <1>2, <1>3, <1>4, FS_Union, FS_Subset

\* No two tables of a page share their place: two of the file would be one, and
\* so would two of one sidecar.
LEMMA PlacesDiffer ==
    ASSUME FullInv, PlaceInv, TableIdsIdentify, NEW t \in tables, NEW u \in tables,
           t.page = u.page, t.index = u.index, t.path = u.path
    PROVE  t = u
<1>1. CASE t.path # 0 BY <1>1 DEF PlaceInv
<1>2. CASE t.path = 0
  <2>1. \A x \in {t, u} : x.id = FileId(x.page, x.index) BY <1>2, FileTableId DEF FullInv
  <2>2. t.id = u.id BY <2>1
  <2>. QED BY <1>2, <2>2 DEF TableIdsIdentify
<1>. QED BY <1>1, <1>2

\* The three kinds of blocks.
NativeBlock(p, i) == Block(p, i, <<"native", i>>)
OcrBlock(p) == Block(p, TextBlocks(p), <<"ocr", p>>)
TableBlock(t) == Block(t.page, TextBlocks(t.page) + OcrBlocks(t.page) + Rank(t), <<"table", t>>)

\* The page, the index and the source of each kind.
LEMMA BlockParts ==
    /\ \A p, i : LET b == NativeBlock(p, i)
                 IN  b.page = p /\ b.index = i /\ b.source[1] = "native"
    /\ \A p : LET b == OcrBlock(p)
              IN  b.page = p /\ b.index = TextBlocks(p) /\ b.source[1] = "ocr"
    /\ \A t : LET b == TableBlock(t)
              IN  /\ b.page = t.page /\ b.source[1] = "table"
                  /\ b.index = TextBlocks(t.page) + OcrBlocks(t.page) + Rank(t)
<1>1. \A p, i, x : LET b == Block(p, i, x) IN b.page = p /\ b.index = i /\ b.source = x
  BY DEF Block
<1>2. \A p, i : NativeBlock(p, i).source[1] = "native" BY <1>1 DEF NativeBlock
<1>3. \A p : OcrBlock(p).source[1] = "ocr" BY <1>1 DEF OcrBlock
<1>4. \A t : TableBlock(t).source[1] = "table" BY <1>1 DEF TableBlock
<1>. QED BY <1>1, <1>2, <1>3, <1>4 DEF NativeBlock, OcrBlock, TableBlock

\* Every block is of one of the kinds.
LEMMA BlockKinds ==
    ASSUME NEW b
    PROVE  b \in Blocks <=>
             \/ \E p \in Page : b \in {NativeBlock(p, i) : i \in 0..(TextBlocks(p) - 1)}
             \/ \E p \in DOMAIN ocr : b = OcrBlock(p)
             \/ \E t \in tables : b = TableBlock(t)
<1>. DEFINE natives(p) == {NativeBlock(p, i) : i \in 0..(TextBlocks(p) - 1)}
<1>1. b \in Blocks <=> \/ b \in UNION {natives(p) : p \in Page}
                       \/ b \in {OcrBlock(p) : p \in DOMAIN ocr}
                       \/ b \in {TableBlock(t) : t \in tables}
  BY Zenon DEF Blocks, NativeBlock, OcrBlock, TableBlock
<1>. HIDE DEF natives
<1>2. b \in Blocks <=> \/ \E p \in Page : b \in natives(p)
                       \/ \E p \in DOMAIN ocr : b = OcrBlock(p)
                       \/ \E t \in tables : b = TableBlock(t)
  BY <1>1
<1>. QED BY <1>2 DEF natives

\* The blocks of a page are numbered 0, 1, ... without gaps or repeats, text
\* before OCR before tables: document_blocks has one row per page and index
\* (_append_table_blocks after the text and OCR blocks of process).
THEOREM Numbered == Spec => []BlocksNumbered
<1>1. Init => PlaceInv BY DEF Init, PlaceInv, NoResult
<1>2. ASSUME FullInv, PlaceInv, [Next]_vars PROVE PlaceInv' BY <1>2, PlaceStep
<1>3. ASSUME FullInv, PlaceInv, TableIdsIdentify PROVE BlocksNumbered
  <2>. SUFFICES ASSUME NEW p \in result.pages
                PROVE  LET mine == {b \in result.blocks : b.page = p}
                       IN  /\ {b.index : b \in mine} = 0..(Cardinality(mine) - 1)
                           /\ \A b, c \in mine :
                                b.source[1] = "native" /\ c.source[1] # "native" =>
                                    b.index < c.index
                           /\ \A b, c \in mine :
                                b.source[1] = "ocr" /\ c.source[1] = "table" => b.index < c.index
    BY DEF BlocksNumbered
  <2>. DEFINE mine == {b \in result.blocks : b.page = p}
              S == {t \in tables : t.page = p}
              rank == [t \in S |-> Cardinality({u \in S : Before(u, t)})]
              T == TextBlocks(p)
              O == OcrBlocks(p)
              n == Cardinality(S)
              N == T + O + n
  <2>1. /\ p \in Page /\ result.blocks = Blocks
        /\ fileType = "PDF" => content \in [Page -> PageKinds]
    BY <1>3 DEF PlaceInv
  <2>2. T \in Nat
    <3>1. CASE fileType = "PDF"
      <4>1. content[p] \in PageKind BY <2>1, <3>1, PipelineAssumption
      <4>. QED BY <3>1, <4>1 DEF TextBlocks, PageKind
    <3>2. CASE fileType # "PDF" BY <3>2 DEF TextBlocks
    <3>. QED BY <3>1, <3>2
  <2>3. O \in {0, 1} /\ (p \in DOMAIN ocr <=> O = 1) BY DEF OcrBlocks
  <2>4. IsFiniteSet(S) BY <1>3, <2>1, FewTables
  <2>5. rank \in Bijection(S, 0..(n - 1))
    <3>1. \A t \in S : t.index \in Nat /\ t.path \in Nat BY <1>3 DEF PlaceInv
    <3>2. \A t, u \in S : t.index = u.index /\ t.path = u.path => t = u BY <1>3, PlacesDiffer
    <3>. QED BY <2>4, <3>1, <3>2, RanksNumber
  <2>6. n \in Nat BY <2>4, FS_CardinalityType
  <2>. DEFINE At(t) == T + O + rank[t]
  <2>7. \A t \in S : TableBlock(t).index = At(t) /\ TableBlock(t).page = p
    <3>1. ASSUME NEW t \in S PROVE Rank(t) = rank[t]
      <4>1. {u \in S : Before(u, t)} = {u \in tables : u.page = t.page /\ Before(u, t)} OBVIOUS
      <4>. QED BY <4>1 DEF Rank
    <3>2. ASSUME NEW t \in S PROVE TableBlock(t).index = At(t) /\ TableBlock(t).page = p
      <4>1. t.page = p OBVIOUS
      <4>2. TableBlock(t).page = p /\ TableBlock(t).index = T + O + Rank(t) BY <4>1, BlockParts
      <4>3. Rank(t) = rank[t] BY <3>1
      <4>. QED BY <4>2, <4>3
    <3>. HIDE DEF rank, S, T, O
    <3>. QED BY <3>2
  <2>8. /\ \A t \in S : rank[t] \in 0..(n - 1)
        /\ \A t, u \in S : rank[t] = rank[u] => t = u
        /\ \A k \in 0..(n - 1) : \E t \in S : rank[t] = k
    <3>. HIDE DEF rank, S, n
    <3>. QED BY <2>5 DEF Bijection, Injection, Surjection, IsInjective
  <2>9. ASSUME NEW b \in mine
        PROVE  \/ \E i \in 0..(T - 1) : b = NativeBlock(p, i)
               \/ O = 1 /\ b = OcrBlock(p)
               \/ \E t \in S : b = TableBlock(t)
    <3>1. b \in Blocks /\ b.page = p BY <2>1
    <3>2. \/ \E q \in Page : b \in {NativeBlock(q, i) : i \in 0..(TextBlocks(q) - 1)}
          \/ \E q \in DOMAIN ocr : b = OcrBlock(q)
          \/ \E t \in tables : b = TableBlock(t)
      BY <3>1, BlockKinds
    <3>3. CASE \E q \in Page : b \in {NativeBlock(q, i) : i \in 0..(TextBlocks(q) - 1)}
      <4>1. PICK q \in Page : b \in {NativeBlock(q, i) : i \in 0..(TextBlocks(q) - 1)} BY <3>3
      <4>2. PICK i \in 0..(TextBlocks(q) - 1) : b = NativeBlock(q, i) BY <4>1
      <4>3. q = p BY <3>1, <4>2, BlockParts
      <4>. QED BY <4>2, <4>3
    <3>4. CASE \E q \in DOMAIN ocr : b = OcrBlock(q)
      <4>1. PICK q \in DOMAIN ocr : b = OcrBlock(q) BY <3>4
      <4>2. q = p BY <3>1, <4>1, BlockParts
      <4>. QED BY <2>3, <4>1, <4>2
    <3>5. CASE \E t \in tables : b = TableBlock(t)
      <4>1. PICK t \in tables : b = TableBlock(t) BY <3>5
      <4>2. t.page = p BY <3>1, <4>1, BlockParts
      <4>. QED BY <4>1, <4>2
    <3>. QED BY <3>2, <3>3, <3>4, <3>5
  <2>10. /\ \A i \in 0..(T - 1) : NativeBlock(p, i) \in mine
         /\ O = 1 => OcrBlock(p) \in mine
         /\ \A t \in S : TableBlock(t) \in mine
    <3>1. ASSUME NEW i \in 0..(T - 1) PROVE NativeBlock(p, i) \in Blocks /\ NativeBlock(p, i).page = p
      <4>1. NativeBlock(p, i) \in {NativeBlock(p, k) : k \in 0..(TextBlocks(p) - 1)} OBVIOUS
      <4>. QED BY <2>1, <4>1, BlockKinds, BlockParts
    <3>2. O = 1 => OcrBlock(p) \in Blocks /\ OcrBlock(p).page = p
      BY <2>3, BlockKinds, BlockParts
    <3>3. ASSUME NEW t \in S PROVE TableBlock(t) \in Blocks /\ TableBlock(t).page = p
      <4>1. t \in tables /\ t.page = p OBVIOUS
      <4>. QED BY <4>1, BlockKinds, BlockParts
    <3>. QED BY <2>1, <3>1, <3>2, <3>3
  <2>. HIDE DEF rank, S, n, T, O, mine
  <2>12. N = T + O + n /\ N \in Nat BY <2>2, <2>3, <2>6
  <2>. HIDE DEF N
  <2>11. /\ \A i : NativeBlock(p, i).index = i /\ NativeBlock(p, i).source[1] = "native"
         /\ OcrBlock(p).index = T /\ OcrBlock(p).source[1] = "ocr"
         /\ \A t \in S : TableBlock(t).index = At(t) /\ TableBlock(t).source[1] = "table"
    BY <2>7, BlockParts DEF T
  <2>13. ASSUME NEW b \in mine
         PROVE  \/ /\ b.source[1] = "native" /\ b.index \in 0..(T - 1)
                   /\ b = NativeBlock(p, b.index)
                \/ b.source[1] = "ocr" /\ O = 1 /\ b.index = T /\ b = OcrBlock(p)
                \/ /\ b.source[1] = "table" /\ b.index \in (T + O)..(N - 1)
                   /\ \E t \in S : b = TableBlock(t) /\ rank[t] = b.index - (T + O)
    <3>1. CASE \E i \in 0..(T - 1) : b = NativeBlock(p, i) BY <2>11, <3>1
    <3>2. CASE O = 1 /\ b = OcrBlock(p) BY <2>11, <3>2
    <3>3. CASE \E t \in S : b = TableBlock(t)
      <4>1. PICK t \in S : b = TableBlock(t) BY <3>3
      <4>2. b.index = T + O + rank[t] /\ rank[t] \in 0..(n - 1) BY <2>8, <2>11, <4>1
      <4>. QED BY <2>2, <2>3, <2>6, <2>11, <2>12, <4>1, <4>2
    <3>. QED BY <2>9, <3>1, <3>2, <3>3
  <2>14. \A b \in mine : b.index \in 0..(N - 1) BY <2>2, <2>3, <2>6, <2>13, <2>12
  <2>15. ASSUME NEW b \in mine, NEW c \in mine, b.index = c.index PROVE b = c
    BY <2>2, <2>3, <2>6, <2>8, <2>13, <2>15, <2>12
  <2>16. ASSUME NEW k \in 0..(N - 1) PROVE \E b \in mine : b.index = k
    <3>1. CASE k < T BY <2>2, <2>10, <2>11, <3>1
    <3>2. CASE k = T /\ O = 1 BY <2>10, <2>11, <3>2
    <3>3. CASE k >= T + O
      <4>1. k - (T + O) \in 0..(n - 1) BY <2>2, <2>3, <2>6, <2>12, <3>3
      <4>2. PICK t \in S : rank[t] = k - (T + O) BY <2>8, <4>1
      <4>3. T + O + rank[t] = k BY <2>2, <2>3, <4>2
      <4>. QED BY <2>10, <2>11, <4>2, <4>3
    <3>. QED BY <2>2, <2>3, <2>6, <2>12, <3>1, <3>2, <3>3
  <2>17. {b.index : b \in mine} = 0..(Cardinality(mine) - 1)
    BY <2>14, <2>15, <2>16, <2>12, NumberedBySize, Zenon
  <2>18. ASSUME NEW b \in mine, NEW c \in mine
         PROVE  /\ b.source[1] = "native" /\ c.source[1] # "native" => b.index < c.index
                /\ b.source[1] = "ocr" /\ c.source[1] = "table" => b.index < c.index
    BY <2>2, <2>3, <2>6, <2>13, <2>12
  <2>. QED BY <2>17, <2>18 DEF mine
<1>. QED BY <1>1, <1>2, <1>3, FullInductive, IdsIdentify, PTL DEF Spec

(***************************************************************************)
(* What process_document makes of a result.                                *)
(***************************************************************************)

\* A result is the whole document with a status of its own, or nothing with a
\* doubtful one, and each block lies on a page of the result.
ResultStorable ==
    pc = "done" =>
        /\ \/ result.status \in {"PROCESSED", "NEEDS_REVIEW"} /\ result.pages = Page
           \/ result.status \in {"NEEDS_REVIEW", "FAILED"} /\ result.pages = {}
        /\ \A b \in result.blocks : b.page \in result.pages

\* The results of process are those the step Extract of ProcessingJobs allows, and
\* process_document, which drops a block whose page has no row, drops none of them
\* (process_document.py:133).
THEOREM ResultsFit == Spec => []ResultStorable
<1>1. Init => ResultStorable BY DEF Init, ResultStorable
<1>2. ASSUME FullInv, ResultStorable, [Next]_vars PROVE ResultStorable'
  <2>1. CASE NotParsed \/ ParseFails
    BY <2>1 DEF NotParsed, ParseFails, Return, ResultStorable
  <2>2. CASE Finish
    <3>1. result' = [status |-> TerminalStatus, pages |-> Page, blocks |-> Blocks]
      BY <2>2 DEF Finish, Return
    <3>2. ASSUME NEW b \in Blocks PROVE b.page \in Page
      <4>1. DOMAIN ocr \subseteq Page /\ \A t \in tables : t.page \in Page
        BY <1>2 DEF FullInv, IInv, DataInv
      <4>2. CASE \E p \in Page : b \in {NativeBlock(p, i) : i \in 0..(TextBlocks(p) - 1)}
        BY <4>2, BlockParts
      <4>3. CASE \E p \in DOMAIN ocr : b = OcrBlock(p) BY <4>1, <4>3, BlockParts
      <4>4. CASE \E t \in tables : b = TableBlock(t) BY <4>1, <4>4, BlockParts
      <4>. QED BY <3>2, <4>2, <4>3, <4>4, BlockKinds
    <3>3. TerminalStatus \in {"PROCESSED", "NEEDS_REVIEW"} BY DEF TerminalStatus
    <3>4. result'.status = TerminalStatus /\ result'.pages = Page /\ result'.blocks = Blocks
      BY <3>1
    <3>5. Page' = Page BY DEF Page
    <3>. QED BY <3>2, <3>3, <3>4, <3>5 DEF ResultStorable
  <2>3. CASE UNCHANGED vars BY <1>2, <2>3 DEF vars, ResultStorable, Page
  <2>4. CASE pc' # "done" BY <2>4 DEF ResultStorable
  <2>. QED
    BY <1>2, <2>1, <2>2, <2>3, <2>4 DEF Next, Step, Detect, ParsePdf, ParseWorkbook, Assess,
       SkipPage, RecognisePage, OcrFails, OcrDone, Raise, Classify, ExtractPdf,
       ExtractionFails, ExtractWorkbook, LoadSidecars, SidecarsFail, Rebuild
<1>. QED BY <1>1, <1>2, FullInductive, PTL DEF Spec

===============================================================================
