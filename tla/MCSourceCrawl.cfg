SPECIFICATION CrawlFairSpec
CONSTANTS
    t1 = t1
    t2 = t2
    t3 = t3
    fpt = fpt
    vnm = vnm
    FPT = fpt
    Tickers = {fpt, vnm}
    Names = {t1, t2, t3}
    Links <- TwoLinks
    Pages <- SomePages
    Catalogs <- SomeCatalogs
    Windows <- SomeWindows
    Bodies <- SomeBodies
    Size <- Bytes
    Requests <- OneLink
    MaxRetries = 3
    BackoffBase = 1
    MaxSize = 3
INVARIANTS
    DeliveredWhole
    GivesUpLast
    CardsReadAsMeant
PROPERTY FetchingEnds
