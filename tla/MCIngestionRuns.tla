--------------------------- MODULE MCIngestionRuns ---------------------------
(* Small instances of IngestionRuns: three versions, or two files.          *)
EXTENDS IngestionRuns, TLC

CONSTANTS v1, v2, v3, a1, a2, s1, s2

File(p, as) == [id |-> p, supersedes |-> NoPub, correction |-> FALSE, atts |-> as]
Version(p, q) == [id |-> p, supersedes |-> q, correction |-> FALSE, atts |-> << >>]
Correction(p) == [id |-> p, supersedes |-> NoPub, correction |-> TRUE, atts |-> << >>]

Versions == {v1, v2, v3}
MCOrder == [p \in Pub |-> CASE p = v1 -> 1 [] p = v2 -> 2 [] OTHER -> 3]

\* A chain v1 <- v2 <- v3, oldest first or newest first, always whole.
ChainFeeds ==
    { << File(v1, << >>), Version(v2, v1), Version(v3, v2) >>,
      << Version(v3, v2), Version(v2, v1), File(v1, << >>) >> }

\* Date windows that cut the chain, a correction that names no predecessor, and a
\* source that changes its mind about what v3 supersedes.
WindowFeeds ==
    { << Version(v2, v1) >>, << Version(v3, v2) >>, << Correction(v3) >>,
      << Version(v3, v1), Correction(v2) >>,
      << File(v1, << >>) >>, << File(v1, << >>), Version(v2, v1) >> }

\* The chain in either order, what date windows leave of it while it grows, a correction
\* without a predecessor, and a list that moves v3 under v1.
LineageFeeds == ChainFeeds \cup WindowFeeds

\* Runs are interchangeable in every safety property.
RunSymmetry == Permutations(Run)

NoFiles == [a \in Att |-> {}]

\* Two publications whose files may carry the same bytes; the source may change a2.
\* Two cards of one title and date share their key, hence their publication.
FileFeeds == { << File(v1, <<a1>>), File(v2, <<a2>>) >>,
               << File(v2, <<a2>>), File(v2, <<a2>>) >> }
FileContent == (a1 :> {s1}) @@ (a2 :> {s1, s2})
=============================================================================
