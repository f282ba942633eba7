---------------------- MODULE TableReconstructionProofs ----------------------
(***************************************************************************)
(* What a table that passes without review may lose to its header and to   *)
(* its columns, and that its status is the one FinancialTables promises,   *)
(* for any grid, any number of columns and any page around it.  The        *)
(* inductive invariant says, stage by stage, what has been read and        *)
(* exactly which doubts have left a warning.                               *)
(***************************************************************************)
EXTENDS TableReconstruction, FiniteSetTheorems, WellFoundedInduction, TLAPS

\* The warnings that the header band leaves.
BandMarks ==
    {w \in {"uncertain_header_row", "oversized_header_band", "header_band_incomplete"} :
        /\ w = "uncertain_header_row" => ~ LooksLikeHeader(grid[first])
        /\ w = "oversized_header_band" => More /\ BandSize = MaxBand /\ LooksLikeHeader(Here)
        /\ w = "header_band_incomplete" => More /\ LooksLikePeriods(Here)}

LabelMarks == IF Cardinality(With({"LABEL"})) = 1 THEN {} ELSE {"ambiguous_label_column"}

Candidates == IF With({"LABEL"}) # {} THEN With({"LABEL"}) ELSE With({"VALUE"})

\* The warnings before the verdict.
Marks == IF role = << >> THEN {"no_header_or_body"} ELSE BandMarks \cup LabelMarks

Verdict(found) ==
    IF /\ found \cap ReviewTokens = {}
       /\ TypeOf(Facts(TRUE)) = NoSection \/ Facts(TRUE).unit
       /\ Facts(TRUE).status = "OK"
    THEN "OK" ELSE "NEEDS_REVIEW"

\* The scan stays on the grid, and the band has a row as soon as it is closed.
ScanInv ==
    /\ grid \in Seq(Seq(Texts)) /\ context \in Context
    /\ pc \in Scanning \cup {"close", "columns", "label", "body", "grade", "done"}
    /\ first \in 1..(Len(grid) + 1) /\ next \in first..(Len(grid) + 1)
    /\ BandSize <= MaxBand
    /\ pc = "lead" => next = first
    /\ pc \in {"band", "close", "columns"} =>
          first <= Len(grid) /\ ~ IsEmptyRow(grid[first])
    /\ pc \in {"close", "columns", "label", "body"} => first < next
    /\ pc = "grade" \/ pc = "done" => role = << >> \/ first < next

\* The rows of the band look like headers, the first one but for its warning; below it
\* none looks like data.
BandInv ==
    /\ pc = "band" /\ first < next => LooksLikeHeader(grid[first])
    /\ \A i \in (first + 1)..(next - 1) :
          LooksLikeHeader(grid[i]) /\ ~ LooksLikeData(grid[i])

\* What has been read of the columns and the body.
ReadInv ==
    /\ pc \in Scanning \cup {"close", "columns"} => role = << >>
    /\ pc \in {"label", "body"} => role # << >>
    /\ role # << >> => role \in [BandColumns -> Roles]
    /\ pc \in {"body", "grade", "done"} /\ role # << >> =>
          label = IF Candidates = {} THEN 0 ELSE Leftmost(Candidates)
    /\ pc \notin {"body", "grade", "done"} => label = 0
    /\ pc \in {"grade", "done"} /\ role # << >> =>
          body = [i \in next..Len(grid) |-> BodyRow(grid[i])]
    /\ role = << >> => label = 0
    /\ pc \notin {"grade", "done"} \/ role = << >> => body = << >>

\* Every doubt so far has left its warning, and nothing else has.
MarksInv ==
    /\ pc \in Scanning => warnings = {}
    /\ pc = "close" => warnings = BandMarks \cap {"uncertain_header_row"}
    /\ pc \in {"columns", "label"} => warnings = BandMarks
    /\ pc \in {"body", "grade"} => warnings = Marks
    /\ pc # "done" => status = "NEEDS_REVIEW"
    /\ pc = "done" => /\ warnings = Marks \cup GradeWarnings(Facts(TRUE))
                      /\ status = Verdict(warnings)

IInv == ScanInv /\ BandInv /\ ReadInv /\ MarksInv

-----------------------------------------------------------------------------
(* Rows.                                                                   *)

\* The cells of a row are finitely many, so its counts are natural numbers.
LEMMA RowCounts ==
    ASSUME NEW row \in Seq(Texts), NEW kinds
    PROVE  /\ Count(row, kinds) \in Nat /\ Visible(row) \in Nat
           /\ \A c \in Cells(row, kinds) : kinds \cap Blanks = {} => Visible(row) > 0
<1>1. IsFiniteSet(DOMAIN row) /\ Cardinality(DOMAIN row) \in Nat
  <2>1. DOMAIN row = 1..Len(row) /\ Len(row) \in Nat OBVIOUS
  <2>. QED BY <2>1, FS_Interval, FS_CardinalityType
<1>2. \A K : /\ Cells(row, K) \subseteq DOMAIN row /\ Count(row, K) \in Nat
             /\ Count(row, K) <= Cardinality(DOMAIN row)
             /\ Count(row, K) = Cardinality(DOMAIN row) => Cells(row, K) = DOMAIN row
  BY <1>1, FS_Subset, FS_CardinalityType DEF Cells, Count
<1>3. Visible(row) \in Nat BY <1>1, <1>2 DEF Visible
<1>4. ASSUME NEW c \in Cells(row, kinds), kinds \cap Blanks = {} PROVE Visible(row) > 0
  <2>1. c \notin Cells(row, Blanks) /\ c \in DOMAIN row BY <1>4 DEF Cells
  <2>. QED BY <1>1, <1>2, <1>3, <2>1 DEF Visible
<1>. QED BY <1>2, <1>3, <1>4

\* A set of column numbers has a leftmost one.
LEMMA LeftmostIn ==
    ASSUME NEW columns \in SUBSET Nat, columns # {}
    PROVE  Leftmost(columns) \in columns
<1>1. PICK x \in columns : \A y \in columns : ~ (<<y, x>> \in OpToRel(<, Nat))
  BY NatLessThanWellFounded, WFMin, Zenon
<1>2. \A a, b \in Nat : a < b => <<a, b>> \in OpToRel(<, Nat)
  BY Zenon DEF OpToRel
<1>3. \A y \in columns : ~ (y < x) BY <1>1, <1>2, Zenon
<1>4. \A y \in columns : x <= y BY <1>3
<1>. QED BY <1>4 DEF Leftmost

-----------------------------------------------------------------------------
(* The invariant.                                                          *)

\* Before the first row is read there is nothing to doubt.
LEMMA InitInv == Init => IInv
<1>. SUFFICES ASSUME Init PROVE IInv OBVIOUS
<1>1. grid \in Seq(Seq(Texts)) /\ context \in Context
  BY ReconstructionAssumption DEF Init
<1>2. ScanInv BY <1>1 DEF Init, ScanInv, Scanning, BandSize, MaxBand
<1>3. BandInv BY <1>1 DEF Init, BandInv
<1>4. ReadInv BY DEF Init, ReadInv, Scanning
<1>5. MarksInv BY DEF Init, MarksInv, Scanning
<1>. QED BY <1>2, <1>3, <1>4, <1>5 DEF IInv

\* Every step keeps the scan on the grid.
LEMMA ScanStep == ASSUME IInv, [Next]_vars PROVE ScanInv'
<1>. USE DEF IInv, ScanInv, BandInv, ReadInv, Scanning, inputs, results, Jump, More, BandSize, MaxBand
<1>1. CASE SkipLead BY <1>1 DEF SkipLead
<1>2. CASE OnlyLead BY <1>2 DEF OnlyLead
<1>3. CASE BeginBand BY <1>3 DEF BeginBand, IsLead, Here
<1>4. CASE TakeRow BY <1>4 DEF TakeRow
<1>5. CASE TakeUncertainRow BY <1>5 DEF TakeUncertainRow
<1>6. CASE EndBand BY <1>6 DEF EndBand
<1>7. CASE CloseBand BY <1>7 DEF CloseBand
<1>8. CASE ColumnsFromBand BY <1>8 DEF ColumnsFromBand
<1>9. CASE PickLabelColumn BY <1>9 DEF PickLabelColumn
<1>10. CASE ReadBody BY <1>10 DEF ReadBody
<1>11. CASE Grade BY <1>11 DEF Grade
<1>12. CASE UNCHANGED vars BY <1>12 DEF vars
<1>. QED BY <1>1, <1>2, <1>3, <1>4, <1>5, <1>6, <1>7, <1>8, <1>9, <1>10, <1>11, <1>12
         DEF Next, Done

\* A row joins the band only when it looks like a header and, below the first, not like
\* data; the first row may be doubtful, and then the band is closed.
LEMMA BandStep == ASSUME IInv, [Next]_vars PROVE BandInv'
<1>. USE DEF IInv, ScanInv, BandInv, Scanning, inputs, results, Jump, More, BandSize, MaxBand, Here
<1>1. CASE SkipLead BY <1>1 DEF SkipLead
<1>2. CASE OnlyLead BY <1>2 DEF OnlyLead
<1>3. CASE BeginBand BY <1>3 DEF BeginBand
<1>4. CASE TakeRow
  <2>1. next \in Nat /\ first \in Nat /\ first <= next OBVIOUS
  <2>2. grid' = grid /\ first' = first /\ next' = next + 1 /\ pc' = "band"
    BY <1>4 DEF TakeRow
  <2>3. LooksLikeHeader(grid[next]) /\ (first < next => ~ LooksLikeData(grid[next]))
    BY <1>4, <2>1 DEF TakeRow, EndsBand
  <2>4. \A i \in (first + 1)..next : i = next \/ i \in (first + 1)..(next - 1)
    BY <2>1
  <2>5. first < next' => LooksLikeHeader(grid[first])
    BY <1>4, <2>1, <2>2, <2>3 DEF TakeRow
  <2>. QED BY <2>1, <2>2, <2>3, <2>4, <2>5
<1>5. CASE TakeUncertainRow BY <1>5 DEF TakeUncertainRow
<1>6. CASE EndBand BY <1>6 DEF EndBand
<1>7. CASE CloseBand BY <1>7 DEF CloseBand
<1>8. CASE ColumnsFromBand BY <1>8 DEF ColumnsFromBand
<1>9. CASE PickLabelColumn BY <1>9 DEF PickLabelColumn
<1>10. CASE ReadBody BY <1>10 DEF ReadBody
<1>11. CASE Grade BY <1>11 DEF Grade
<1>12. CASE UNCHANGED vars BY <1>12 DEF vars
<1>. QED BY <1>1, <1>2, <1>3, <1>4, <1>5, <1>6, <1>7, <1>8, <1>9, <1>10, <1>11, <1>12
         DEF Next, Done

\* The columns of a band are those of its rows, and there is one at least.
LEMMA BandHasColumns ==
    ASSUME IInv, first < next, ~ IsEmptyRow(grid[first])
    PROVE  BandColumns # {}
<1>1. grid[first] \in Seq(Texts) /\ first \in Band
  BY DEF IInv, ScanInv, Band
<1>2. DOMAIN grid[first] # {}
  <2>1. SUFFICES ASSUME DOMAIN grid[first] = {} PROVE FALSE OBVIOUS
  <2>2. Cells(grid[first], Blanks) = {} BY <2>1 DEF Cells
  <2>. QED BY <2>1, <2>2, FS_EmptySet DEF IsEmptyRow, Visible, Count
<1>. QED BY <1>1, <1>2 DEF BandColumns

\* Columns and rows are read once, from a closed band.
LEMMA ReadStep == ASSUME IInv, [Next]_vars PROVE ReadInv'
<1>. USE DEF IInv, ScanInv, ReadInv, Scanning, inputs, results, Jump, Candidates, With
<1>1. CASE SkipLead BY <1>1 DEF SkipLead
<1>2. CASE OnlyLead BY <1>2 DEF OnlyLead
<1>3. CASE BeginBand BY <1>3 DEF BeginBand
<1>4. CASE TakeRow BY <1>4 DEF TakeRow
<1>5. CASE TakeUncertainRow BY <1>5 DEF TakeUncertainRow
<1>6. CASE EndBand BY <1>6 DEF EndBand
<1>7. CASE CloseBand BY <1>7 DEF CloseBand
<1>8. CASE ColumnsFromBand
  <2>1. UNCHANGED <<grid, first, next, label, body>> /\ pc = "columns" /\ pc' = "label"
    BY <1>8 DEF ColumnsFromBand
  <2>2. BandColumns' = BandColumns BY <2>1 DEF BandColumns, Band
  <2>3. BandColumns # {} BY <2>1, BandHasColumns
  <2>4. role' \in [BandColumns -> Roles]
    BY <1>8 DEF ColumnsFromBand, RoleFromHeader, Roles
  <2>5. role' # << >>
    <3>1. DOMAIN role' # {} BY <2>3, <2>4
    <3>. QED BY <3>1
  <2>. QED BY <2>1, <2>2, <2>4, <2>5
<1>9. CASE PickLabelColumn
  <2>1. UNCHANGED <<grid, first, next, role, body>> /\ pc = "label" /\ pc' = "body"
    BY <1>9 DEF PickLabelColumn
  <2>2. BandColumns' = BandColumns BY <2>1 DEF BandColumns, Band
  <2>. QED BY <1>9, <2>1, <2>2 DEF PickLabelColumn
<1>10. CASE ReadBody
  <2>1. UNCHANGED <<grid, first, next, role, label>> /\ pc = "body" /\ pc' = "grade"
    BY <1>10 DEF ReadBody
  <2>2. BandColumns' = BandColumns BY <2>1 DEF BandColumns, Band
  <2>3. body' = [i \in next..Len(grid) |-> BodyRow(grid[i])] BY <1>10 DEF ReadBody
  <2>4. \A row : BodyRow(row)' = BodyRow(row)
    BY <2>1 DEF BodyRow, LabelText, Values, KindOf, CellAt
  <2>. QED BY <2>1, <2>2, <2>3, <2>4
<1>11. CASE Grade
  <2>1. UNCHANGED <<grid, first, next, role, label, body>> /\ pc = "grade" /\ pc' = "done"
    BY <1>11 DEF Grade
  <2>2. BandColumns' = BandColumns BY <2>1 DEF BandColumns, Band
  <2>3. \A row : BodyRow(row)' = BodyRow(row)
    BY <2>1 DEF BodyRow, LabelText, Values, KindOf, CellAt
  <2>. QED BY <2>1, <2>2, <2>3
<1>12. CASE UNCHANGED vars
  <2>1. BandColumns' = BandColumns BY <1>12 DEF vars, BandColumns, Band
  <2>2. \A row : BodyRow(row)' = BodyRow(row)
    BY <1>12 DEF vars, BodyRow, LabelText, Values, KindOf, CellAt
  <2>. QED BY <1>12, <2>1, <2>2 DEF vars
<1>. QED BY <1>1, <1>2, <1>3, <1>4, <1>5, <1>6, <1>7, <1>8, <1>9, <1>10, <1>11, <1>12
         DEF Next, Done

\* Every warning stands for the doubt it names, and every doubt leaves its warning.
LEMMA MarksStep == ASSUME IInv, [Next]_vars PROVE MarksInv'
<1>. USE DEF IInv, MarksInv, Scanning, inputs, results, Jump, Warn
<1>1. CASE SkipLead BY <1>1 DEF SkipLead
<1>2. CASE OnlyLead BY <1>2 DEF OnlyLead, ReadInv, Marks
<1>3. CASE BeginBand BY <1>3 DEF BeginBand
<1>4. CASE TakeRow BY <1>4 DEF TakeRow
<1>5. CASE TakeUncertainRow
  <2>1. /\ UNCHANGED <<grid, first, status>> /\ pc = "band" /\ pc' = "close"
        /\ warnings' = {"uncertain_header_row"}
        /\ next = first /\ ~ LooksLikeHeader(grid[first])
    BY <1>5 DEF TakeUncertainRow, ScanInv, BandSize, Here
  <2>2. ~ LooksLikeHeader(grid[first])' BY <2>1
  <2>3. "uncertain_header_row" \in BandMarks' BY <2>2 DEF BandMarks
  <2>. QED BY <2>1, <2>3
<1>6. CASE EndBand
  <2>1. /\ UNCHANGED <<grid, first, status, warnings>> /\ pc = "band" /\ pc' = "close"
        /\ first < next
    BY <1>6 DEF EndBand, ScanInv, BandSize
  <2>2. LooksLikeHeader(grid[first]) BY <2>1 DEF BandInv
  <2>. QED BY <2>1, <2>2 DEF BandMarks
<1>7. CASE CloseBand
  <2>1. UNCHANGED <<grid, first, next, status>> /\ pc = "close" /\ pc' = "columns"
    BY <1>7 DEF CloseBand
  <2>2. BandMarks' = BandMarks BY <2>1 DEF BandMarks, More, Here, BandSize
  <2>3. warnings' = BandMarks BY <1>7, <2>1 DEF CloseBand, BandMarks
  <2>. QED BY <2>1, <2>2, <2>3
<1>8. CASE ColumnsFromBand
  <2>1. /\ UNCHANGED <<grid, first, next, status, warnings>>
        /\ pc = "columns" /\ pc' = "label"
    BY <1>8 DEF ColumnsFromBand
  <2>2. BandMarks' = BandMarks BY <2>1 DEF BandMarks, More, Here, BandSize
  <2>. QED BY <2>1, <2>2
<1>9. CASE PickLabelColumn
  <2>1. /\ UNCHANGED <<grid, first, next, role, status>> /\ pc = "label" /\ pc' = "body"
        /\ warnings' = warnings \cup LabelMarks
    BY <1>9 DEF PickLabelColumn, LabelMarks
  <2>2. BandMarks' = BandMarks BY <2>1 DEF BandMarks, More, Here, BandSize
  <2>3. LabelMarks' = LabelMarks BY <2>1 DEF LabelMarks, With
  <2>4. role # << >> BY <2>1 DEF ReadInv
  <2>. QED BY <2>1, <2>2, <2>3, <2>4 DEF Marks
<1>10. CASE ReadBody
  <2>1. /\ UNCHANGED <<grid, first, next, role, status, warnings>>
        /\ pc = "body" /\ pc' = "grade"
    BY <1>10 DEF ReadBody
  <2>2. BandMarks' = BandMarks BY <2>1 DEF BandMarks, More, Here, BandSize
  <2>3. LabelMarks' = LabelMarks BY <2>1 DEF LabelMarks, With
  <2>. QED BY <2>1, <2>2, <2>3 DEF Marks
<1>11. CASE Grade
  <2>1. /\ UNCHANGED <<grid, context, first, next, role, label, body>>
        /\ pc = "grade" /\ pc' = "done"
        /\ warnings' = Marks \cup GradeWarnings(Facts(TRUE))
        /\ status' = Verdict(warnings')
    BY <1>11 DEF Grade, Verdict
  <2>2. Marks' = Marks
    BY <2>1 DEF Marks, BandMarks, More, Here, BandSize, LabelMarks, With
  <2>3. GradeWarnings(Facts(TRUE))' = GradeWarnings(Facts(TRUE))
    BY <2>1 DEF GradeWarnings, Facts, TypeOf, Jagged, Rows
  <2>4. Verdict(warnings)' = Verdict(warnings')
    BY <2>1 DEF Verdict, Facts, TypeOf, Jagged, Rows
  <2>. QED BY <2>1, <2>2, <2>3, <2>4
<1>12. CASE UNCHANGED vars
  <2>1. Marks' = Marks /\ BandMarks' = BandMarks
    BY <1>12 DEF vars, Marks, BandMarks, More, Here, BandSize, LabelMarks, With
  <2>2. GradeWarnings(Facts(TRUE))' = GradeWarnings(Facts(TRUE))
    BY <1>12 DEF vars, GradeWarnings, Facts, TypeOf, Jagged, Rows
  <2>3. Verdict(warnings)' = Verdict(warnings)
    BY <1>12 DEF vars, Verdict, Facts, TypeOf, Jagged, Rows
  <2>. QED BY <1>12, <2>1, <2>2, <2>3 DEF vars
<1>. QED BY <1>1, <1>2, <1>3, <1>4, <1>5, <1>6, <1>7, <1>8, <1>9, <1>10, <1>11, <1>12
         DEF Next, Done

\* The invariant holds in every reachable state.
THEOREM ReconstructionInductive == Spec => []IInv
<1>1. IInv /\ [Next]_vars => IInv'
  BY ScanStep, BandStep, ReadStep, MarksStep DEF IInv
<1>. QED BY InitInv, <1>1, PTL DEF Spec

\* Every reachable state has the declared types.
THEOREM ReconstructionTyped == Spec => []TypeOK
<1>1. IInv => TypeOK
  <2>. SUFFICES ASSUME IInv PROVE TypeOK OBVIOUS
  <2>1. label \in Nat
    <3>1. CASE pc \in {"body", "grade", "done"} /\ role # << >>
      <4>1. Candidates \subseteq Nat
        <5>1. DOMAIN role = BandColumns BY <3>1 DEF IInv, ReadInv
        <5>2. \A i \in Band : DOMAIN grid[i] \subseteq Nat BY DEF Band, IInv, ScanInv
        <5>. QED BY <5>1, <5>2 DEF Candidates, With, BandColumns
      <4>2. Candidates # {} => Leftmost(Candidates) \in Candidates BY <4>1, LeftmostIn
      <4>3. label = IF Candidates = {} THEN 0 ELSE Leftmost(Candidates)
        BY <3>1 DEF IInv, ReadInv
      <4>4. CASE Candidates = {} BY <4>3, <4>4
      <4>5. CASE Candidates # {} BY <4>1, <4>2, <4>3, <4>5
      <4>. QED BY <4>4, <4>5
    <3>2. CASE ~ (pc \in {"body", "grade", "done"} /\ role # << >>)
      BY <3>2 DEF IInv, ReadInv
    <3>. QED BY <3>1, <3>2
  <2>2. body = << >> \/ DOMAIN body = next..Len(grid) BY DEF IInv, ReadInv
  <2>3. status \in {"OK", "NEEDS_REVIEW"} BY DEF IInv, ScanInv, Scanning, MarksInv, Verdict
  <2>. QED BY <2>1, <2>2, <2>3 DEF TypeOK, IInv, ScanInv, ReadInv
<1>. QED BY ReconstructionInductive, <1>1, PTL

\* The band of a table that passes ends above the first labelled amounts below its first
\* row, so that from there on nothing is lost; the rows it does take, at most four, are of
\* periods or show one figure or a third, labelled small numbers among them.
THEOREM DataKept == Spec => []TrustedKeepsData
<1>1. IInv => TrustedKeepsData
  <2>. SUFFICES ASSUME IInv, Trusted PROVE TrustedKeepsData
    BY DEF TrustedKeepsData
  <2>1. warnings = Marks \cup GradeWarnings(Facts(TRUE)) /\ warnings \cap ReviewTokens = {}
    BY DEF Trusted, IInv, MarksInv, Verdict
  <2>2. role # << >> /\ "uncertain_header_row" \notin BandMarks
    BY <2>1 DEF Marks, ReviewTokens
  <2>3. first < next /\ LooksLikeHeader(grid[first])
    BY <2>2 DEF BandMarks, IInv, ScanInv, Trusted
  <2>4. DOMAIN body = next..Len(grid)
    BY <2>2 DEF Trusted, IInv, ReadInv
  <2>5. ASSUME NEW i \in (first + 1)..Len(grid), LooksLikeData(grid[i])
        PROVE  i..Len(grid) \subseteq DOMAIN body
    <3>1. i \notin (first + 1)..(next - 1) BY <2>5 DEF IInv, BandInv
    <3>2. next <= i BY <3>1 DEF IInv, ScanInv
    <3>. QED BY <2>4, <3>2 DEF IInv, ScanInv
  <2>6. ASSUME NEW i \in (first..Len(grid)) \ DOMAIN body
        PROVE  /\ i < first + MaxBand
               /\ \/ LooksLikePeriods(grid[i])
                  \/ Count(grid[i], Figures) <= Larger(1, Visible(grid[i]) \div 3)
    <3>1. i < next BY <2>4 DEF IInv, ScanInv
    <3>2. i < first + MaxBand BY <3>1 DEF IInv, ScanInv, BandSize, MaxBand
    <3>3. i = first \/ i \in (first + 1)..(next - 1) BY <3>1 DEF IInv, ScanInv
    <3>4. LooksLikeHeader(grid[i]) BY <2>3, <3>3 DEF IInv, BandInv
    <3>. QED BY <3>2, <3>4 DEF LooksLikeHeader
  <2>. QED BY <2>5, <2>6 DEF TrustedKeepsData
<1>. QED BY ReconstructionInductive, <1>1, PTL

\* A table that passes is not jagged, so each figure of its body has a column; there is one
\* label column, and what stands in none of the others is a value of its row.
THEOREM FiguresRead == Spec => []TrustedReadsFigures
<1>1. IInv => TrustedReadsFigures
  <2>. SUFFICES ASSUME IInv, Trusted, NEW i \in DOMAIN body,
                       NEW c \in Cells(grid[i], Figures) \ {label},
                       c \notin With({"INDEX", "CODE", "NOTE"})
                PROVE  /\ c \in DOMAIN body[i].values /\ body[i].values[c] = grid[i][c]
                       /\ body[i].kind \in {"DATA", "CONTINUATION"}
    BY DEF TrustedReadsFigures
  <2>1. warnings = Marks \cup GradeWarnings(Facts(TRUE)) /\ warnings \cap ReviewTokens = {}
    BY DEF Trusted, IInv, MarksInv, Verdict
  <2>2. role # << >> /\ "ambiguous_label_column" \notin LabelMarks /\ ~ Jagged
    BY <2>1 DEF Marks, ReviewTokens, GradeWarnings
  <2>3. body = [k \in next..Len(grid) |-> BodyRow(grid[k])]
    BY <2>2 DEF Trusted, IInv, ReadInv
  <2>4. i \in next..Len(grid) /\ body[i] = BodyRow(grid[i]) BY <2>3
  <2>5. first < next /\ first \in DOMAIN grid /\ i \in DOMAIN grid
        /\ grid[i] \in Seq(Texts) /\ grid[first] \in Seq(Texts)
    BY <2>2, <2>4 DEF Trusted, IInv, ScanInv
  <2>6. c \in DOMAIN grid[i] /\ grid[i][c] \in Figures BY DEF Cells
  <2>7. c \in DOMAIN role
    <3>1. Len(grid[i]) = Len(grid[first]) BY <2>2, <2>5 DEF Jagged, Rows
    <3>2. c \in DOMAIN grid[first] BY <2>5, <2>6, <3>1
    <3>3. first \in Band BY <2>5 DEF Band, IInv, ScanInv
    <3>4. DOMAIN role = BandColumns BY <2>2 DEF IInv, ReadInv
    <3>. QED BY <3>2, <3>3, <3>4 DEF BandColumns
  <2>8. With({"LABEL"}) = {label}
    <3>1. Cardinality(With({"LABEL"})) = 1 BY <2>2 DEF LabelMarks
    <3>2. DOMAIN role = BandColumns /\ \A k \in Band : DOMAIN grid[k] \subseteq Nat
      BY <2>2 DEF IInv, ReadInv, ScanInv, Band
    <3>3. With({"LABEL"}) \subseteq Nat BY <3>2 DEF With, BandColumns
    <3>4. PICK x : With({"LABEL"}) = {x}
      <4>1. IsFiniteSet(DOMAIN role)
        <5>1. Len(grid[first]) \in Nat /\ DOMAIN grid[first] = 1..Len(grid[first])
          BY <2>5
        <5>2. \A k \in Band : DOMAIN grid[k] = DOMAIN grid[first]
          <6>. SUFFICES ASSUME NEW k \in Band PROVE DOMAIN grid[k] = DOMAIN grid[first]
            OBVIOUS
          <6>1. k \in DOMAIN grid /\ grid[k] \in Seq(Texts) BY DEF Band, IInv, ScanInv
          <6>2. Len(grid[k]) = Len(grid[first]) BY <2>2, <2>5, <6>1 DEF Jagged, Rows
          <6>. QED BY <2>5, <6>1, <6>2
        <5>3. BandColumns \subseteq 1..Len(grid[first]) BY <5>1, <5>2 DEF BandColumns
        <5>4. IsFiniteSet(1..Len(grid[first])) BY <5>1, FS_Interval
        <5>. QED BY <3>2, <5>3, <5>4, FS_Subset
      <4>2. IsFiniteSet(With({"LABEL"})) BY <4>1, FS_Subset DEF With
      <4>. QED BY <3>1, <4>2, FS_Singleton
    <3>5. label = Leftmost(Candidates) /\ Candidates = {x}
      BY <2>2, <3>4 DEF Trusted, IInv, ReadInv, Candidates
    <3>. QED BY <3>3, <3>4, <3>5 DEF Leftmost
  <2>9. role[c] = "VALUE"
    BY <2>2, <2>7, <2>8 DEF With, IInv, ReadInv, Roles
  <2>10. c \in With({"VALUE"}) \ {label} BY <2>7, <2>9 DEF With
  <2>11. Values(grid[i])[c] = grid[i][c] /\ c \in DOMAIN Values(grid[i])
    BY <2>6, <2>10 DEF Values, CellAt
  <2>12. body[i].values = Values(grid[i]) /\ body[i].kind = KindOf(grid[i])
    BY <2>4 DEF BodyRow
  <2>13. Visible(grid[i]) > 0
    BY <2>5, RowCounts DEF Figures, Blanks
  <2>14. c \in Cells(grid[i], Texts \ (Blanks \cup {"dash"}))
    BY <2>6 DEF Cells, Texts, Figures, Blanks
  <2>15. c \in Cells(Values(grid[i]), Texts \ Blanks)
    BY <2>6, <2>11 DEF Cells, Texts, Figures, Blanks
  <2>16. KindOf(grid[i]) \in {"DATA", "CONTINUATION"}
    BY <2>13, <2>14, <2>15 DEF KindOf
  <2>. QED BY <2>11, <2>12, <2>16
<1>. QED BY ReconstructionInductive, <1>1, PTL

\* The tokens that reconstruct looks for are the reasons for doubt, each of them and no
\* other: the status is the one FinancialTables promises.
THEOREM StatusPromised == Spec => []StatusAsPromised
<1>1. IInv => StatusAsPromised
  <2>. SUFFICES ASSUME IInv, pc = "done"
                PROVE  status = Reconstructed(Facts(HasHeader), context.hint,
                                              context.shown, context.heading).status
    BY DEF StatusAsPromised
  <2>. DEFINE table == Facts(TRUE)
              found == Marks \cup GradeWarnings(table)
              type == TypeOf(table)
              conflict == Conflict(table, context.hint, context.heading)
              ambiguous == Ambiguous(table, context.hint, context.shown)
              data == \E i \in DOMAIN body : body[i].kind = "DATA"
  <2>1. status = Verdict(found) BY DEF IInv, MarksInv
  <2>2. /\ Facts(HasHeader).own = table.own /\ Facts(HasHeader).unit = table.unit
        /\ Facts(HasHeader).status = table.status /\ Facts(HasHeader).header = HasHeader
    BY DEF Facts
  <2>3. Reconstructed(Facts(HasHeader), context.hint, context.shown, context.heading).status
          = IF type # NoSection /\ ~ conflict /\ table.unit /\ HasHeader /\ table.status = "OK"
            THEN "OK" ELSE "NEEDS_REVIEW"
    BY <2>2 DEF Reconstructed, TypeOf, ResolvedType, Conflict, Ambiguous
  <2>4. ambiguous => type = NoSection BY DEF TypeOf, ResolvedType, Ambiguous
  <2>5. Jagged \/ grid = << >> => table.status # "OK" BY DEF Facts, ExtractionStatus
  <2>6. HasHeader <=> Marks = {} /\ data
    <3>1. CASE role = << >> BY <3>1 DEF Marks, HasHeader
    <3>2. CASE role # << >>
      <4>1. LabelMarks = {} <=> Cardinality(With({"LABEL"})) = 1 BY DEF LabelMarks
      <4>2. BandMarks = {} <=>
              /\ LooksLikeHeader(grid[first])
              /\ More => /\ ~ LooksLikePeriods(Here)
                         /\ ~ (BandSize = MaxBand /\ LooksLikeHeader(Here))
        BY DEF BandMarks
      <4>. QED BY <3>2, <4>1, <4>2 DEF Marks, HasHeader
    <3>. QED BY <3>1, <3>2
  <2>7. Marks \subseteq ReviewTokens BY DEF Marks, BandMarks, LabelMarks, ReviewTokens
  <2>8. Marks = {} => role # << >> BY DEF Marks
  <2>9. GradeWarnings(table) \cap ReviewTokens = {} <=>
          /\ ~ Jagged /\ grid # << >> /\ ~ conflict /\ ~ ambiguous /\ type # NoSection
          /\ role # << >> => data
    BY DEF GradeWarnings, ReviewTokens
  <2>10. found \cap ReviewTokens = {} <=>
           /\ ~ Jagged /\ grid # << >> /\ ~ conflict /\ ~ ambiguous /\ type # NoSection
           /\ HasHeader
    BY <2>6, <2>7, <2>8, <2>9
  <2>. QED BY <2>1, <2>3, <2>4, <2>5, <2>10 DEF Verdict
<1>. QED BY ReconstructionInductive, <1>1, PTL
=============================================================================
