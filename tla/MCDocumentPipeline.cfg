\* One document of two pages through every stage, with and without an engine.
SPECIFICATION Spec
CONSTANTS
    balance = balance
    income = income
    NoSection = NoSection
    NoBox = NoBox
    NoGrid = NoGrid
    NoCoverage = NoCoverage
    NoConfidence = NoConfidence
    FinderFails = FinderFails
    Sections = {balance, income}
    PageCount = 2
    PageKinds <- Kinds
    OcrKinds <- Readings
    NativeFinds <- Finds
    SheetKinds <- Sheets
    Sidecars = {1, 2}
    RawGrids <- Raws
CHECK_DEADLOCK FALSE
INVARIANTS
    TypeOK
    ProcessedIsTrusted
    ReviewHasACause
    BlocksNumbered
    TableIdsIdentify
    NativeTablesKept
    OcrWholeOrNone
    ContextUnambiguous
