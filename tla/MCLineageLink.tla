---------------------------- MODULE MCLineageLink ----------------------------
(* Two or three runs linking the same versions at the same time.            *)
EXTENDS LineageLink, TLC

CONSTANTS v1, v2, v3, v4, t1, t2, t3

Order == [p \in Pub |-> CASE p = v1 -> 1 [] p = v2 -> 2 [] p = v3 -> 3 [] OTHER -> 4]
\* Row ids are random, so their order is not the order of publication.
Ids == [p \in Pub |-> CASE p = v1 -> 2 [] p = v2 -> 3 [] p = v3 -> 1 [] OTHER -> 4]

Unlinked == [p \in Pub |-> NoPub]
NewestFirst == <<<<v3, v2>>, <<v2, v1>>>>

\* v4 is stored under v3 already.  Two runs link the chain newest first, as in the
\* out-of-order test; a third moves v4 to the lineage of v1 and links oldest first.
Stored == [Unlinked EXCEPT ![v4] = v3]
Crossing == (t1 :> NewestFirst) @@ (t2 :> NewestFirst)
                @@ (t3 :> <<<<v4, v1>>, <<v2, v1>>, <<v3, v2>>>>)
=============================================================================
