\* Three runs link the same chain; one of them moves a version between lineages.
SPECIFICATION FairSpec
CONSTANTS
    v1 = v1
    v2 = v2
    v3 = v3
    v4 = v4
    t1 = t1
    t2 = t2
    t3 = t3
    NoPub = NoPub
    NoLinker = NoLinker
    Pub = {v1, v2, v3, v4}
    PubOrder <- Order
    RowId <- Ids
    Linker = {t1, t2, t3}
    Links <- Crossing
    Forest <- Stored
INVARIANTS
    TypeOK
    SomeRunLinksAll
PROPERTIES
    LinksAreAtomic
    LinksEnd
