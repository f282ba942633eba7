------------------------------ MODULE SourceCrawl ------------------------------
(***************************************************************************)
(* A crawl as ingest makes it: the connector of a source is asked for the  *)
(* documents of a company in a window of dates, and the attachments of     *)
(* what it found are downloaded one after the other.  Rows, stored objects *)
(* and the skipping of what is there already belong to IngestionRuns.      *)
(***************************************************************************)
EXTENDS SourceConnectors, Downloader

CONSTANTS Pages, Catalogs, Windows, Tickers, FPT

ASSUME CrawlAssumption ==
    /\ Pages \subseteq Seq(Card) /\ Windows \subseteq Window
    /\ FPT \in Tickers

VARIABLES
    source,     \* the connector the registry returns
    feed,       \* the page, or the catalog
    ticker,
    window,
    phase,
    documents,  \* publications
    todo        \* attachments not yet asked for

crawl == <<source, feed, ticker, window>>
vars == <<crawl, phase, documents, todo, dlvars>>

CrawlInit ==
    /\ \/ source = "ISSUER_IR" /\ feed \in Pages
       \/ source = "FIXTURE" /\ feed \in Catalogs
       \/ source \in Stubs /\ feed = << >>
    /\ ticker \in Tickers /\ window \in Windows
    /\ phase = "discover" /\ documents = << >> /\ todo = << >>
    /\ DownloaderInit

Gone == [from |-> 0, to |-> 0]
LinksOf(found) == FlattenSeq([k \in DOMAIN found |-> found[k].links])

Found(list) ==
    /\ phase = "discover" /\ phase' = "found"
    /\ documents' = list
    /\ UNCHANGED <<crawl, todo, dlvars>>

DiscoverPage ==
    /\ source = "ISSUER_IR" /\ ticker = FPT /\ ~ Unparsable(feed)
    /\ Found(DiscoverFpt(feed, window))

DiscoverCatalog ==
    source = "FIXTURE" /\ Found(DiscoverFixture(feed, ticker, window))

\* SourceError: a stub, another company than FPT, a catalog that is not there.
SourceUnavailable ==
    /\ phase = "discover" /\ phase' = "refused"
    /\ source = "ISSUER_IR" => ticker # FPT
    /\ UNCHANGED <<crawl, documents, todo, dlvars>>

\* An HTTP error of the site, a date no calendar has, a catalog that is not JSON.
SourceEscapes ==
    /\ phase = "discover" /\ phase' = "escaped"
    /\ source \notin Stubs /\ (source = "ISSUER_IR" => ticker = FPT)
    /\ UNCHANGED <<crawl, documents, todo, dlvars>>

\* The page and the window are locals of discover and gone; what is left of the documents
\* are the attachments to fetch.
BeginFetch ==
    /\ phase = "found" /\ phase' = "fetch"
    /\ todo' = LinksOf(documents)
    /\ feed' = << >> /\ window' = Gone /\ documents' = << >>
    /\ UNCHANGED <<source, ticker, dlvars>>

\* FPT reports every attachment as a PDF.
RequestOf(link) == IF source = "FIXTURE" THEN link
                   ELSE [remote |-> TRUE, pdfName |-> link.pdfName, reported |-> "pdf"]

Fetch(owned) ==
    /\ phase = "fetch" /\ todo # << >> /\ outcome # "escaped"
    /\ Download(RequestOf(Head(todo)), owned)
    /\ todo' = Tail(todo)
    /\ UNCHANGED <<crawl, phase, documents>>

\* download_error is counted and the loop goes on; anything else leaves ingest.
FetchEnds ==
    /\ phase = "fetch" /\ call \in {"idle", "ended"}
    /\ phase' = IF outcome = "escaped" THEN "escaped" ELSE "ended"
    /\ todo = << >> \/ outcome = "escaped"
    /\ UNCHANGED <<crawl, documents, todo, dlvars>>

Downloading == Step /\ UNCHANGED <<crawl, phase, documents, todo>>

Ended == phase \in {"ended", "refused", "escaped"} /\ UNCHANGED vars

CrawlNext ==
    \/ DiscoverPage \/ DiscoverCatalog \/ SourceUnavailable \/ SourceEscapes
    \/ BeginFetch
    \/ \E owned \in BOOLEAN : Fetch(owned)
    \/ FetchEnds \/ Downloading \/ Ended

CrawlSpec == CrawlInit /\ [][CrawlNext]_vars

\* The event loop runs what can run, and httpx ends every wait for the server: with bytes,
\* with the end of the stream or with a timeout.
CrawlFairSpec ==
    /\ CrawlSpec
    /\ WF_vars(\E owned \in BOOLEAN : Fetch(owned))
    /\ WF_vars(FetchEnds)
    /\ WF_vars(Transfer /\ UNCHANGED <<crawl, phase, documents, todo>>)
    /\ WF_vars((ReadFixture \/ NoFixture) /\ UNCHANGED <<crawl, phase, documents, todo>>)
    /\ WF_vars((Sleep \/ Inspect \/ Close)
               /\ UNCHANGED <<crawl, phase, documents, todo>>)

-----------------------------------------------------------------------------
(* Properties.                                                             *)

\* How far what the regular expressions find on a page is what its cards mean. Each complete
\* card with a title they know is a document with its own date and key and its own links
\* first, and where every title is known there are no others. A title they do not know
\* hides its card: its links, and its date where the known card above has none, are taken
\* for that card. The parser then makes a document, of the known title and the date of the
\* unknown one, that nobody published; the property keeps such a document to one for each
\* known card, and what it borrows to the cards right below, never past a known title.
CardsReadAsMeant ==
    phase = "found" /\ source = "ISSUER_IR" =>
        /\ ReadAsMeant(feed, window, documents)
        /\ OwnBeforeBorrowed(feed, window, documents)
        /\ FromCards(feed, window, documents)

\* Whatever the servers do, the fetching of what was found comes to an end: no attachment is
\* retried for ever, and every client that a call opened has been closed, exceptions included.
FetchingEnds ==
    phase = "fetch" ~> (phase \in {"ended", "escaped"} /\ client # "open")
=============================================================================
