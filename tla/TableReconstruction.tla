------------------------- MODULE TableReconstruction -------------------------
(***************************************************************************)
(* FinancialTableReconstructor.reconstruct: the rows of an extracted grid  *)
(* are read from the top, a band of header rows is told from the body, the *)
(* columns get their roles from the band, one of them labels the rows, and *)
(* the table is trusted or sent to review.  A cell is its kind of text;    *)
(* FinancialTables holds the rest of the table and the promise its status  *)
(* is checked against.                                                     *)
(***************************************************************************)
EXTENDS FinancialTables, Sequences

CONSTANTS
    Tables,    \* grids: sequences of rows, a row a sequence of cells
    Contexts,  \* what surrounds a table on its page
    Stated     \* the statement that a heading cell names

(***************************************************************************)
(* Kinds of cell text.  "merged" is the continuation of a merged cell and  *)
(* has no text of its own; "small" is a number of up to three digits,      *)
(* "amount" any other text with a digit that is no period, "year" a period *)
(* with digits and "term" one in words; "name" and "total" are long        *)
(* captions, "total" with a word that the label column is recognised by.   *)
(***************************************************************************)
Blanks == {"blank", "merged"}
Figures == {"amount", "small"}
Periods == {"year", "term"}
LongWords == {"name", "total", "term", "unit", "heading"}
Texts == Blanks \cup Figures \cup Periods \cup LongWords
             \cup {"dash", "word", "items", "code", "note", "number"}

Context == [hint : Sections \cup {NoSection}, shown : SUBSET Sections,
            heading : Sections \cup {NoSection}, unit : BOOLEAN]

ASSUME ReconstructionAssumption ==
    /\ Tables \subseteq Seq(Seq(Texts))
    /\ Contexts \subseteq Context
    /\ Stated \in Sections

VARIABLES
    grid,      \* table.rows
    context,   \* ReconstructionContext
    pc,
    first,     \* the first row that is not skipped; the band starts there
    next,      \* idx: the rows from first to next - 1 are the band
    warnings,
    role,      \* role of each column
    label,     \* label_column_index, 0 for none
    body,      \* the reconstructed row of each body row
    status

vars == <<grid, context, pc, first, next, warnings, role, label, body, status>>

MaxBand == 4

Roles == {"LABEL", "INDEX", "CODE", "NOTE", "VALUE"}
Kinds == {"DATA", "SECTION_HEADER", "SEPARATOR", "CONTINUATION", "EMPTY"}

\* Mutant: a conflict of headings is forgotten.
TokensWithoutConflict == {"empty_raw_table", "unknown_table_type", "no_header_or_body",
                          "empty_body", "ambiguous_section_context",
                          "uncertain_header_row", "ambiguous_label_column",
                          "header_band_incomplete", "oversized_header_band",
                          "jagged_rows", "empty_grid"}

\* The warnings that send a table to review, in the order of review_tokens.
ReviewTokens == {"empty_raw_table", "unknown_table_type", "no_header_or_body", "empty_body",
                 "conflicting_table_type", "ambiguous_section_context",
                 "uncertain_header_row", "ambiguous_label_column",
                 "header_band_incomplete", "oversized_header_band",
                 "jagged_rows", "empty_grid"}

-----------------------------------------------------------------------------
(* What a row looks like.                                                  *)

Larger(a, b) == IF a < b THEN b ELSE a
Cells(row, kinds) == {c \in DOMAIN row : row[c] \in kinds}
Count(row, kinds) == Cardinality(Cells(row, kinds))
Visible(row) == Cardinality(DOMAIN row) - Count(row, Blanks)

IsEmptyRow(row) == Visible(row) = 0
IsUnitRow(row) == Cells(row, {"unit"}) # {}
HasHeading(row) == Cells(row, {"heading"}) # {}

IsTitleRow(row) ==
    HasHeading(row) \/ (Visible(row) = 1 /\ Count(row, LongWords) = 1)

LooksLikePeriods(row) ==
    Visible(row) > 0 /\ Count(row, Periods) >= Larger(1, Visible(row) - 1)

LooksLikeHeader(row) ==
    \/ LooksLikePeriods(row)
    \/ Visible(row) >= 2 /\ Count(row, Figures) <= Larger(1, Visible(row) \div 3)

LooksLikeData(row) ==
    Visible(row) >= 2 /\ ~ LooksLikePeriods(row) /\ Count(row, {"amount"}) >= 1

-----------------------------------------------------------------------------
(* The header band.                                                        *)

Init ==
    /\ grid \in Tables /\ context \in Contexts
    /\ pc = "lead" /\ first = 1 /\ next = 1
    /\ warnings = {} /\ role = << >> /\ label = 0 /\ body = << >>
    /\ status = "NEEDS_REVIEW"

inputs == <<grid, context>>
results == <<role, label, body, status>>

More == next <= Len(grid)
Here == grid[next]
BandSize == next - first
Jump(from, to) == pc = from /\ pc' = to
Warn(tokens) == warnings' = warnings \cup tokens

IsLead(row) == IsEmptyRow(row) \/ IsUnitRow(row) \/ IsTitleRow(row)

SkipLead ==
    /\ pc = "lead" /\ More /\ IsLead(Here)
    /\ next' = next + 1
    /\ first' = next + 1
    /\ UNCHANGED <<inputs, pc, warnings, results>>

OnlyLead ==
    /\ Jump("lead", "grade") /\ ~ More
    /\ Warn({"no_header_or_body"})
    /\ UNCHANGED <<inputs, first, next, results>>

BeginBand ==
    /\ Jump("lead", "band") /\ More /\ ~ IsLead(Here)
    /\ UNCHANGED <<inputs, first, next, warnings, results>>

\* Mutant: one row late, so the first row of figures is read as a second header row.
EndsBandLate(row) == BandSize > 1 /\ LooksLikeData(row)

EndsBand(row) == BandSize > 0 /\ LooksLikeData(row)

\* Mutant: one row more than the band may have.
TakeRowBeyond ==
    /\ pc = "band" /\ More /\ BandSize <= MaxBand
    /\ LooksLikeHeader(Here) /\ ~ EndsBand(Here)
    /\ next' = next + 1
    /\ UNCHANGED <<inputs, pc, first, warnings, results>>

TakeRow ==
    /\ pc = "band" /\ More /\ BandSize < MaxBand
    /\ LooksLikeHeader(Here) /\ ~ EndsBand(Here)
    /\ next' = next + 1
    /\ UNCHANGED <<inputs, pc, first, warnings, results>>

\* A first row that does not look like a header is taken for one, with a warning.
TakeUncertainRow ==
    /\ Jump("band", "close") /\ More /\ BandSize = 0
    /\ ~ LooksLikeHeader(Here)
    /\ next' = next + 1
    /\ Warn({"uncertain_header_row"})
    /\ UNCHANGED <<inputs, first, results>>

EndBand ==
    /\ Jump("band", "close") /\ BandSize > 0
    /\ More => BandSize = MaxBand \/ EndsBand(Here) \/ ~ LooksLikeHeader(Here)
    /\ UNCHANGED <<inputs, first, next, warnings, results>>

CloseBand ==
    /\ Jump("close", "columns")
    /\ Warn({w \in {"oversized_header_band", "header_band_incomplete"} :
                /\ More
                /\ w = "oversized_header_band" =>
                      BandSize = MaxBand /\ LooksLikeHeader(Here)
                /\ w = "header_band_incomplete" => LooksLikePeriods(Here)})
    /\ UNCHANGED <<inputs, first, next, results>>

-----------------------------------------------------------------------------
(* Columns.                                                                *)

Band == first..(next - 1)

\* _carry_parts: the caption of a merged cell is carried to the cells it covers.
Carried(row) ==
    LET carry[c \in DOMAIN row] ==
            IF row[c] # "merged" THEN row[c]
            ELSE IF c = 1 THEN "blank" ELSE carry[c - 1]
    IN carry

\* width is that of the longest band row.
BandColumns == UNION {DOMAIN grid[i] : i \in Band}
HeaderParts(c) == {Carried(grid[i])[c] : i \in {k \in Band : c \in DOMAIN grid[k]}}

\* _role_from_header, on the words of the composed header.
RoleFromHeader(parts) ==
    IF parts \cap {"items", "total"} # {} THEN "LABEL"
    ELSE IF "number" \in parts THEN "INDEX"
    ELSE IF "code" \in parts THEN "CODE"
    ELSE IF "note" \in parts THEN "NOTE"
    ELSE "VALUE"

ColumnsFromBand ==
    /\ Jump("columns", "label")
    /\ role' = [c \in BandColumns |-> RoleFromHeader(HeaderParts(c))]
    /\ UNCHANGED <<inputs, first, next, warnings, label, body, status>>

With(kinds) == {c \in DOMAIN role : role[c] \in kinds}
Leftmost(columns) == CHOOSE c \in columns : \A d \in columns : c <= d

\* Mutant: several label columns are no reason to doubt.
PickFirstLabel ==
    LET candidates == IF With({"LABEL"}) # {} THEN With({"LABEL"})
                      ELSE With({"VALUE"})
    IN /\ Jump("label", "body")
       /\ label' = IF candidates = {} THEN 0 ELSE Leftmost(candidates)
       /\ Warn(IF With({"LABEL"}) = {} THEN {"ambiguous_label_column"} ELSE {})
       /\ UNCHANGED <<inputs, first, next, role, body, status>>

PickLabelColumn ==
    LET candidates == IF With({"LABEL"}) # {} THEN With({"LABEL"})
                      ELSE With({"VALUE"})
    IN /\ Jump("label", "body")
       /\ label' = IF candidates = {} THEN 0 ELSE Leftmost(candidates)
       /\ Warn(IF Cardinality(With({"LABEL"})) = 1 THEN {} ELSE {"ambiguous_label_column"})
       /\ UNCHANGED <<inputs, first, next, role, body, status>>

-----------------------------------------------------------------------------
(* The body.                                                               *)

CellAt(row, c) == IF c \in DOMAIN row THEN row[c] ELSE "blank"
LabelText(row) == IF CellAt(row, label) = "merged" THEN "blank" ELSE CellAt(row, label)

\* values: the cells under VALUE columns, the label column apart.
Values(row) == [c \in With({"VALUE"}) \ {label} |-> CellAt(row, c)]

KindOf(row) ==
    IF Visible(row) = 0 THEN "EMPTY"
    ELSE IF Cells(row, Texts \ (Blanks \cup {"dash"})) = {} THEN "SEPARATOR"
    ELSE IF CellAt(row, label) = "merged" THEN "CONTINUATION"
    ELSE IF LabelText(row) # "blank" /\ Cells(Values(row), Texts \ Blanks) = {}
    THEN "SECTION_HEADER"
    ELSE "DATA"

BodyRow(row) == [label |-> LabelText(row), values |-> Values(row), kind |-> KindOf(row)]

ReadBody ==
    /\ Jump("body", "grade")
    /\ body' = [i \in next..Len(grid) |-> BodyRow(grid[i])]
    /\ UNCHANGED <<inputs, first, next, warnings, role, label, status>>

-----------------------------------------------------------------------------
(* The verdict.                                                            *)

Rows == {grid[i] : i \in DOMAIN grid}
Jagged == \E r, s \in Rows : Len(r) # Len(s)

\* The facts FinancialTables has of a table, as the cells give them.
Facts(header) ==
    [own |-> IF \E r \in Rows : HasHeading(r) THEN Stated ELSE NoSection,
     unit |-> context.unit \/ \E r \in Rows : IsUnitRow(r),
     header |-> header,
     status |-> ExtractionStatus([rows |-> grid # << >>, jagged |-> Jagged,
                                  unplaced |-> FALSE])]

\* _resolve_type and its warnings.
TypeOf(table) == ResolvedType(table, context.hint, context.shown, context.heading)

\* The warnings of the extraction, of _resolve_type and of reconstruct itself.
GradeWarnings(table) ==
    {w \in {"jagged_rows", "empty_grid", "empty_raw_table", "conflicting_table_type",
            "ambiguous_section_context", "unknown_table_type", "missing_unit_text",
            "empty_body"} :
        /\ w = "jagged_rows" => Jagged
        /\ w \in {"empty_grid", "empty_raw_table"} => grid = << >>
        /\ w = "conflicting_table_type" => Conflict(table, context.hint, context.heading)
        /\ w = "ambiguous_section_context" => Ambiguous(table, context.hint, context.shown)
        /\ w = "unknown_table_type" => TypeOf(table) = NoSection
        /\ w = "missing_unit_text" => ~ table.unit
        /\ w = "empty_body" => /\ role # << >>
                               /\ \A i \in DOMAIN body : body[i].kind # "DATA"}

Grade ==
    LET table == Facts(TRUE)
        found == warnings \cup GradeWarnings(table)
    IN /\ Jump("grade", "done")
       /\ warnings' = found
       /\ status' = IF /\ found \cap ReviewTokens = {}
                       /\ TypeOf(table) = NoSection \/ table.unit
                       /\ table.status = "OK"
                    THEN "OK" ELSE "NEEDS_REVIEW"
       /\ UNCHANGED <<inputs, first, next, role, label, body>>

Done == pc = "done" /\ UNCHANGED vars

Next ==
    \/ SkipLead \/ OnlyLead \/ BeginBand
    \/ TakeRow \/ TakeUncertainRow \/ EndBand \/ CloseBand
    \/ ColumnsFromBand \/ PickLabelColumn \/ ReadBody \/ Grade
    \/ Done

Spec == Init /\ [][Next]_vars

-----------------------------------------------------------------------------
(* Properties.                                                             *)

Scanning == {"lead", "band"}

TypeOK ==
    /\ grid \in Seq(Seq(Texts)) /\ context \in Context
    /\ pc \in Scanning \cup {"close", "columns", "label", "body", "grade", "done"}
    /\ first \in 1..(Len(grid) + 1) /\ next \in first..(Len(grid) + 1)
    /\ BandSize <= MaxBand
    /\ role = << >> \/ role \in [BandColumns -> Roles]
    /\ label \in Nat
    /\ body = << >> \/ DOMAIN body = next..Len(grid)
    /\ status \in {"OK", "NEEDS_REVIEW"}

Trusted == pc = "done" /\ status = "OK"

\* What a table that passes without review may lose to its header. From the first row of
\* labelled amounts below the first header row on, every row is a row of the body, whatever
\* it looks like by itself. What is lost stands above: at most four rows right below the
\* captions, each of periods or with no more than one figure, or figures in a third of its
\* cells. Such a row may have been data: a label with one number of up to three digits goes
\* to the header with the status OK, and so does a first row with a single amount. The
\* captions, the rows above first with a unit or a heading, are no part of the body either.
TrustedKeepsData ==
    Trusted =>
        /\ \A i \in (first + 1)..Len(grid) :
              LooksLikeData(grid[i]) => i..Len(grid) \subseteq DOMAIN body
        /\ \A i \in (first..Len(grid)) \ DOMAIN body :
              /\ i < first + MaxBand
              /\ \/ LooksLikePeriods(grid[i])
                 \/ Count(grid[i], Figures) <= Larger(1, Visible(grid[i]) \div 3)

\* Of the figures in its body it loses none but by name: one that stands neither in the
\* label column nor under the number, code or note of a row is one of the row's values,
\* in its own column, and the row is not taken for a heading or a ruler.
TrustedReadsFigures ==
    Trusted => \A i \in DOMAIN body : \A c \in Cells(grid[i], Figures) \ {label} :
        \/ c \in With({"INDEX", "CODE", "NOTE"})
        \/ /\ c \in DOMAIN body[i].values /\ body[i].values[c] = grid[i][c]
           /\ body[i].kind \in {"DATA", "CONTINUATION"}

\* What FinancialTables calls the header of a table: a band that looks like one and is
\* whole, one label column, and data below.
HasHeader ==
    /\ role # << >>
    /\ LooksLikeHeader(grid[first])
    /\ More => ~ LooksLikePeriods(Here) /\ ~ (BandSize = MaxBand /\ LooksLikeHeader(Here))
    /\ Cardinality(With({"LABEL"})) = 1
    /\ \E i \in DOMAIN body : body[i].kind = "DATA"

\* The list of review tokens misses no reason for doubt and knows no other: the status is
\* the one FinancialTables promises of a table with these facts.
StatusAsPromised ==
    pc = "done" =>
        status = Reconstructed(Facts(HasHeader), context.hint, context.shown,
                               context.heading).status
=============================================================================
