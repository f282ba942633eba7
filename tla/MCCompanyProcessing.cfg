\* A call over two artifacts beside another attempt, with every fault; none is slow.
SPECIFICATION CompanyFairSpec
CONSTANTS
    c1 = c1
    a1 = a1
    a2 = a2
    j1 = j1
    j2 = j2
    j3 = j3
    Call = {c1}
    Job = {j1, j2, j3}
    Artifact = {a1, a2}
    ArtifactOf <- OfCompany
    PageCount <- OnePage
    Listed <- BothArtifacts
    Slow = FALSE
    Faults = {"crash", "attempt", "db"}
INVARIANTS
    SummaryMatchesJobs
    OnlyUnrecordedStops
PROPERTIES
    VerdictFinal
    CallsEnd
