\* A predecessor that arrives while its absence is being recorded.
SPECIFICATION Spec
CONSTANTS
    v1 = v1
    v2 = v2
    v3 = v3
    a1 = a1
    a2 = a2
    s1 = s1
    s2 = s2
    Run = {r1, r2}
    NoPub = NoPub
    NoSha = NoSha
    Att = {}
    Sha = {}
    Pub <- Versions
    PubOrder <- MCOrder
    Content <- NoFiles
    Feeds <- WindowFeeds
    Faults = {}
SYMMETRY RunSymmetry
INVARIANTS
    NewestLeafLatest
