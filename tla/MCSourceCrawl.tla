----------------------------- MODULE MCSourceCrawl -----------------------------
(* Pages of up to three cards, catalogs, and servers that send up to three chunks.  *)
EXTENDS SourceCrawl

CONSTANTS t1, t2, t3, fpt, vnm

SomeBodies == { [kind |-> "pdf", chunks |-> <<2, 1>>], [kind |-> "html", chunks |-> <<1>>],
                [kind |-> "page", chunks |-> <<1, 1>>], [kind |-> "plain", chunks |-> << >>],
                [kind |-> "known", chunks |-> <<2, 2>>] }

Bytes == [c \in {b.chunks : b \in SomeBodies} |-> FoldSeq(LAMBDA m, n : m + n, 0, c)]

OneLink == { [remote |-> r, pdfName |-> p, reported |-> m] :
                r \in BOOLEAN, p \in BOOLEAN, m \in {"pdf", "html", NoMime} }

File == [pdfName |-> TRUE]
Sheet == [pdfName |-> FALSE]
TwoLinks == {File, Sheet}

Titled(name, words) == [name |-> name, words |-> words]
SomeTitles == { Titled(t1, {"disclosure", "unaudited", "consolidated"}),
                Titled(t2, {"audited", "separate"}),
                Titled(t3, {"unaudited", "consolidated"}) }

Cards == { [title |-> t, days |-> d, links |-> l] :
              t \in SomeTitles, d \in {<< >>, <<1>>, <<2>>}, l \in {<< >>, <<File>>, <<Sheet>>} }
Odd == [title |-> Titled(t2, {"audited", "separate"}), days |-> <<Impossible>>, links |-> <<File>>]

SomePages == UNION {[1..n -> Cards] : n \in 0..2}
               \cup { <<a, b, c>> : a \in {c \in Cards : Complete(c)}, b \in Cards,
                                    c \in {c \in Cards : c.title.name = t3} }
               \cup { <<Odd>> } \cup { <<c, Odd>> : c \in Cards }

Item(company, day, link) == [key |-> <<t1, day>>, ticker |-> company, day |-> day,
                             links |-> <<link>>]
SomeCatalogs == { <<Item(fpt, d, l), Item(vnm, 2, l)>> : d \in {1, 2}, l \in OneLink }

SomeWindows == { [from |-> 0, to |-> 9], [from |-> 2, to |-> 9], [from |-> 0, to |-> 1] }
=============================================================================
