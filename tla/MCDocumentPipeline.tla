-------------------------- MODULE MCDocumentPipeline --------------------------
(* Files of two pages, two statements and two sidecars.                        *)
EXTENDS DocumentPipeline

CONSTANTS balance, income

PageOf(chars, coverage, error, images, headings) ==
    [chars |-> chars, coverage |-> coverage, geometryError |-> error, images |-> images,
     headings |-> headings, blocks |-> IF chars = 0 THEN 0 ELSE 1]

\* On either side of each threshold, with and without images.
Kinds == {
    PageOf(50, 0, FALSE, FALSE, {balance}),
    PageOf(50, 30, FALSE, TRUE, {balance, income}),
    PageOf(49, 0, FALSE, FALSE, {balance}),
    PageOf(0, 4, FALSE, TRUE, {}),
    PageOf(0, 0, FALSE, FALSE, {}),
    PageOf(0, 5, FALSE, TRUE, {}),
    PageOf(0, NoCoverage, TRUE, TRUE, {}),
    PageOf(0, 0, TRUE, TRUE, {})}

OcrOf(text, confidence, headings) ==
    [text |-> text, confidence |-> confidence, headings |-> headings]
Readings == {OcrOf(TRUE, 60, {income}), OcrOf(TRUE, 59, {}), OcrOf(TRUE, 101, {}),
             OcrOf(TRUE, NoConfidence, {}), OcrOf(FALSE, 100, {})}

GridOf(box, own, unit, header, rows, jagged) ==
    [box |-> box, own |-> own, unit |-> unit, header |-> header, rows |-> rows,
     jagged |-> jagged, unplaced |-> FALSE]
Good == GridOf(<<0, 10>>, NoSection, TRUE, TRUE, TRUE, FALSE)
Low == GridOf(<<10, 20>>, income, TRUE, TRUE, TRUE, FALSE)
Finds == {<<>>, <<Good, Low>>,
          <<GridOf(NoBox, balance, FALSE, TRUE, TRUE, TRUE)>>, FinderFails}

SheetOf(headings, own, rows, unit) ==
    [headings |-> headings, own |-> own, rows |-> rows, unit |-> unit, header |-> rows]
Sheets == {SheetOf({balance}, NoSection, TRUE, TRUE), SheetOf({}, income, TRUE, TRUE),
           SheetOf({income}, NoSection, FALSE, FALSE), SheetOf({}, NoSection, TRUE, TRUE),
           SheetOf({income}, balance, TRUE, TRUE), SheetOf({income}, NoSection, TRUE, TRUE)}

RawOf(page, box, own, status, partial) ==
    [page |-> page, index |-> 0, box |-> box, status |-> status, partial |-> partial,
     own |-> own, unit |-> TRUE, header |-> TRUE]
Raws == {RawOf(1, <<2, 12>>, balance, "OK", FALSE),
         RawOf(1, <<0, 9>>, balance, "NEEDS_REVIEW", TRUE),
         RawOf(2, <<3, 13>>, income, "OK", FALSE)}
===============================================================================
