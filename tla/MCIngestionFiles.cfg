\* Two files that may share their bytes, every fault, under weak fairness.
SPECIFICATION FairSpec
CONSTANTS
    v1 = v1
    v2 = v2
    v3 = v3
    a1 = a1
    a2 = a2
    s1 = s1
    s2 = s2
    Run = {r1, r2}
    NoPub = NoPub
    NoSha = NoSha
    Att = {a1, a2}
    Sha = {s1, s2}
    Pub = {v1, v2}
    PubOrder <- MCOrder
    Content <- FileContent
    Feeds <- FileFeeds
    Faults = {"crash", "escape", "source", "storage", "db", "download"}
INVARIANTS
    ArtifactsResolve
    CompletedMeansStored
    StatusMatchesCounts
PROPERTIES
    ArtifactsImmutable
    RunsSettle
