---------------------------- MODULE SourceConnectors ----------------------------
(***************************************************************************)
(* What the connectors make of their sources: the disclosure page of FPT,  *)
(* read by regular expressions, and the fixture catalog.  The page is the  *)
(* sequence of its cards as they are meant, a title with the dates and the *)
(* download links that follow it; the parser knows no cards, only titles   *)
(* that match.                                                             *)
(***************************************************************************)
EXTENDS Integers, SequencesExt

CONSTANTS Names,  \* titles, as far as the key of a document tells them apart
          Links

Words == {"disclosure", "audited", "unaudited", "consolidated", "separate"}
Title == [name : Names, words : SUBSET Words]
Impossible == 0   \* a date no calendar has
Card == [title : Title, days : Seq(Nat), links : Seq(Links)]

Window == [from : Nat, to : Nat]   \* from_date and to_date, wide when not given

\* The positions in S, in order. (SetToSortSeq and SelectSeq would do, but rest on
\* operators of which the proof system knows no definition.)
Ascending(S) ==
    CHOOSE order \in [1..Cardinality(S) -> S] :
        \A i, j \in DOMAIN order : i < j => order[i] < order[j]

\* The elements of s at the positions in S, in order.
At(s, S) == [k \in DOMAIN Ascending(S) |-> s[Ascending(S)[k]]]

-----------------------------------------------------------------------------
(* parse_fpt_information_disclosures_html.                                 *)

\* _TITLE_SPAN_RE.
Recognised(title) ==
    \/ "disclosure" \in title.words
    \/ "audited" \in title.words /\ title.words \cap {"consolidated", "separate"} # {}

TitlesOf(page) == {i \in DOMAIN page : Recognised(page[i].title)}

\* card_html: from a title to the next one that matches.
WindowEnd(page, i) ==
    Max({j \in i..Len(page) : (i + 1)..j \cap TitlesOf(page) = {}})
\* Mutant: a window that runs on to the end of the page.
CardWindowOpen(page, i) == SubSeq(page, i, Len(page))

CardWindow(page, i) == SubSeq(page, i, WindowEnd(page, i))

DaysIn(cards) == FlattenSeq([k \in DOMAIN cards |-> cards[k].days])
LinksIn(cards) == FlattenSeq([k \in DOMAIN cards |-> cards[k].links])

Unparsable(page) ==
    \E i \in TitlesOf(page) : LET days == DaysIn(CardWindow(page, i))
                              IN days # << >> /\ Head(days) = Impossible

ScopeOf(title) == IF "consolidated" \in title.words THEN "CONSOLIDATED"
                  ELSE IF "separate" \in title.words THEN "STANDALONE"
                  ELSE "UNKNOWN"

\* The text "unaudited" contains "audited", which is looked for first.
AuditOf(title) == IF title.words \cap {"audited", "unaudited"} # {} THEN "AUDITED"
                  ELSE IF "unaudited" \in title.words THEN "UNAUDITED"
                  ELSE "UNKNOWN"

Disclosure(page, i) ==
    LET cards == CardWindow(page, i)
        day == Head(DaysIn(cards))
    IN [key |-> <<page[i].title.name, day>>, day |-> day, links |-> LinksIn(cards),
        scope |-> ScopeOf(page[i].title), audit |-> AuditOf(page[i].title)]

\* Titles without a date or without links are passed over.
Listed(page) == {i \in TitlesOf(page) : /\ DaysIn(CardWindow(page, i)) # << >>
                                        /\ LinksIn(CardWindow(page, i)) # << >>}

Disclosures(page) ==
    LET order == Ascending(Listed(page)) IN [k \in DOMAIN order |-> Disclosure(page, order[k])]

InWindow(window, day) == window.from <= day /\ day <= window.to

-----------------------------------------------------------------------------
(* discover.                                                               *)

Within(window, list) == At(list, {k \in DOMAIN list : InWindow(window, list[k].day)})

DiscoverFpt(page, window) == Within(window, Disclosures(page))

\* The catalog has a document per item, of any company.
DiscoverFixture(catalog, ticker, window) ==
    Within(window, At(catalog, {k \in DOMAIN catalog : catalog[k].ticker = ticker}))

Stubs == {"HOSE", "HNX", "SSC"}

-----------------------------------------------------------------------------
(* The page as it is meant.                                                *)

Complete(card) == card.days # << >> /\ card.links # << >>
AsMeant(card) == [key |-> <<card.title.name, Head(card.days)>>, day |-> Head(card.days),
                  links |-> card.links, scope |-> ScopeOf(card.title),
                  audit |-> AuditOf(card.title)]

\* The parser tells cards from titles: where every title is one it knows, it finds each
\* complete card with its own date and links, in the order of the page, and nothing else.
ReadAsMeant(page, window, found) ==
    DOMAIN page = TitlesOf(page) =>
        LET meant == At(page, {i \in DOMAIN page : Complete(page[i])})
        IN found = Within(window, [k \in DOMAIN meant |-> AsMeant(meant[k])])

\* Where some are not, a complete card it knows still has its own date and its own links,
\* first; the links that are added come from the unknown cards right below it.
OwnBeforeBorrowed(page, window, found) ==
    \A i \in TitlesOf(page) :
        Complete(page[i]) /\ InWindow(window, Head(page[i].days)) =>
            \E d \in ToSet(found) :
                /\ d.key = AsMeant(page[i]).key
                /\ IsPrefix(page[i].links, d.links)
                /\ \A l \in ToSet(d.links) \ ToSet(page[i].links) :
                      \E j \in (i + 1)..Len(page) :
                          /\ l \in ToSet(page[j].links)
                          /\ (i + 1)..j \cap TitlesOf(page) = {}

\* The card at i, if its title is known, and the unknown cards right below it.
Reach(page, i) == {j \in i..Len(page) : (i + 1)..j \cap TitlesOf(page) = {}}

\* The document has the title of the card at i, the first date in its reach, which is its
\* own if it has one, and links from its reach.
FromCard(page, i, document) ==
    /\ document.key = <<page[i].title.name, document.day>>
    /\ document.scope = ScopeOf(page[i].title) /\ document.audit = AuditOf(page[i].title)
    /\ \E j \in Reach(page, i) :
          /\ page[j].days # << >> /\ document.day = Head(page[j].days)
          /\ \A l \in i..(j - 1) : page[l].days = << >>
    /\ \A link \in ToSet(document.links) :
          \E j \in Reach(page, i) : link \in ToSet(page[j].links)

\* What is found comes from known cards, in the order of the page and at most one document
\* of each, and lies in the window. A known card without a date or links of its own may be
\* one of them, with what the unknown cards right below it have.
FromCards(page, window, found) ==
    \E card \in [DOMAIN found -> TitlesOf(page)] :
        /\ \A k, l \in DOMAIN found : k < l => card[k] < card[l]
        /\ \A k \in DOMAIN found :
              FromCard(page, card[k], found[k]) /\ InWindow(window, found[k].day)
=============================================================================
