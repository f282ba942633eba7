\* Three attempts replace the output of one artifact, slow ones included.
SPECIFICATION Spec
CONSTANTS
    a1 = a1
    j1 = j1
    j2 = j2
    j3 = j3
    Job = {j1, j2, j3}
    Artifact = {a1}
    ArtifactOf <- SameArtifact
    PageCount <- TwoPages
    Slow = TRUE
    Faults = {"crash", "attempt", "db"}
SYMMETRY JobSymmetry
INVARIANTS
    TypeOK
    OutputWhole
    ProcessedLeavesPages
    StaleRecovered
PROPERTIES
    ReplacementsAreAtomic
