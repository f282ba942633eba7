\* The newest version listed first: an interrupted run leaves two latest.
SPECIFICATION Spec
CONSTANTS
    v1 = v1
    v2 = v2
    v3 = v3
    a1 = a1
    a2 = a2
    s1 = s1
    s2 = s2
    Run = {r1}
    NoPub = NoPub
    NoSha = NoSha
    Att = {}
    Sha = {}
    Pub <- Versions
    PubOrder <- MCOrder
    Content <- NoFiles
    Feeds <- ChainFeeds
    Faults = {"crash"}
SYMMETRY RunSymmetry
INVARIANTS
    NoTwoDeclaredLatest
