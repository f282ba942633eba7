--------------------------- MODULE FinancialTables ---------------------------
(***************************************************************************)
(* Extracted tables: how a grid is graded, how vetted sidecar tables are   *)
(* merged with the tables found in the file, and how a table is given the  *)
(* statement it belongs to.  A box is the strip of the page a table takes, *)
(* from its first line to its last; sidecar and file tables of one page    *)
(* share their width, so areas are heights.                                *)
(***************************************************************************)
EXTENDS Integers, FiniteSets

CONSTANTS
    Sections,   \* the statements a heading can name
    NoSection,  \* no statement
    NoBox       \* a table without a position

ASSUME TablesAssumption == IsFiniteSet(Sections) /\ NoSection \notin Sections

(***************************************************************************)
(* Extraction.                                                             *)
(***************************************************************************)

\* Without a box the score is 0.75 - 0.15, which still reaches 0.60, so the
\* score never decides alone: an empty or jagged grid, or one with a cell that
\* has no position, is what needs review.
ExtractionStatus(grid) ==
    IF grid.rows /\ ~grid.jagged /\ ~grid.unplaced THEN "OK" ELSE "NEEDS_REVIEW"

\* Mutant: sidecar tables are numbered like those of the file.
TableIdPlain(raw, page, index) == <<FALSE, page, index>>

\* _make_table_id and _bind_to_processing_context, but for the document's key.
TableId(raw, page, index) == <<raw, page, index>>

Extracted(grid, page, index) ==
    [id |-> TableId(FALSE, page, index), page |-> page, index |-> index, path |-> 0,
     box |-> grid.box, status |-> ExtractionStatus(grid), partial |-> FALSE,
     own |-> grid.own, unit |-> grid.unit, header |-> grid.header]

\* path is 0 for a table of the file and the number of its sidecar otherwise.
\* A sidecar keeps the status and the warnings of its file and is bound to the
\* document at hand.
Bound(raw, path) ==
    [id |-> TableId(TRUE, raw.page, raw.index),
     page |-> raw.page, index |-> raw.index, path |-> path,
     box |-> raw.box, status |-> raw.status, partial |-> raw.partial,
     own |-> raw.own, unit |-> raw.unit, header |-> raw.header]

\* Order of the merged tables of one page: by index, the file's own first.
Before(u, t) == u.index < t.index \/ (u.index = t.index /\ u.path < t.path)

(***************************************************************************)
(* Merging.                                                                *)
(***************************************************************************)

Lower(a, b) == IF a < b THEN a ELSE b
Upper(a, b) == IF a < b THEN b ELSE a
Height(box) == box[2] - box[1]
Overlap(b, c) == Upper(0, Lower(b[2], c[2]) - Upper(b[1], c[1]))

\* Mutant: half of the smaller one is enough.
ReplacesHalf(raw, native) ==
    /\ raw.page = native.page
    /\ ~raw.partial
    /\ raw.box # NoBox
    /\ native.box # NoBox
    /\ LET smaller == Lower(Height(raw.box), Height(native.box))
       IN  smaller > 0 /\ 10 * Overlap(raw.box, native.box) >= 5 * smaller

\* _raw_table_replaces_native
Replaces(raw, native) ==
    /\ raw.page = native.page
    /\ ~raw.partial
    /\ raw.box # NoBox
    /\ native.box # NoBox
    /\ LET smaller == Lower(Height(raw.box), Height(native.box))
       IN  smaller > 0 /\ 10 * Overlap(raw.box, native.box) >= 8 * smaller

Merge(native, raw) ==
    {t \in native : ~ \E r \in raw : Replaces(r, t)} \cup raw

(***************************************************************************)
(* Reconstruction.                                                         *)
(***************************************************************************)

\* Mutant: any of the statements found will do.
HintAny(found) == IF found = {} THEN NoSection ELSE CHOOSE s \in found : TRUE

\* _section_hint_for_page: a hint only when the page shows one statement.
Hint(found) ==
    IF Cardinality(found) = 1 THEN CHOOSE s \in found : TRUE ELSE NoSection

Ambiguous(table, hint, shown) ==
    table.own = NoSection /\ hint = NoSection /\ Cardinality(shown) > 1

\* _resolve_type: the table's own heading, else the hint, else the heading of
\* highest priority around it.  "heading" is that one; which of the headings
\* shown it is depends on their wording.
ResolvedType(table, hint, shown, heading) ==
    CASE table.own # NoSection -> table.own
      [] table.own = NoSection /\ hint # NoSection -> hint
      [] Ambiguous(table, hint, shown) -> NoSection
      [] OTHER -> heading

Conflict(table, hint, heading) ==
    /\ table.own # NoSection
    /\ hint \notin {NoSection, table.own} \/ heading \notin {NoSection, table.own}

\* "header" stands for a header band, one label column and a body with data;
\* "unit" for a unit caption in the cells or around the table.
Reconstructed(table, hint, shown, heading) ==
    LET type == ResolvedType(table, hint, shown, heading)
    IN  [table |-> table,
         type |-> type,
         status |-> IF /\ type # NoSection
                       /\ ~ Conflict(table, hint, heading)
                       /\ table.unit
                       /\ table.header
                       /\ table.status = "OK"
                    THEN "OK" ELSE "NEEDS_REVIEW"]
=============================================================================
