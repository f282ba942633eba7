\* A process killed between its two first commits.
SPECIFICATION Spec
CONSTANTS
    a1 = a1
    j1 = j1
    j2 = j2
    j3 = j3
    Job = {j1, j2}
    Artifact = {a1}
    ArtifactOf <- SameArtifact
    PageCount <- OnePage
    Slow = FALSE
    Faults = {"crash"}
INVARIANTS
    DeadAttemptsTerminal
