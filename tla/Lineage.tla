------------------------------ MODULE Lineage ------------------------------
(***************************************************************************)
(* The version lineage of source publications, as the SQL of               *)
(* SourcePublicationRepository.link_child_to_parent_and_update_latest sees *)
(* it: a forest given by source_publications.parent_publication_id.        *)
(*                                                                         *)
(* A parent map par is a function from publications to publications, with  *)
(* NoPub for a NULL parent.  The recursive CTE of the code is the least    *)
(* set that holds the start row and is closed under children, and that is  *)
(* how Subtree states it.                                                  *)
(***************************************************************************)
EXTENDS Integers

CONSTANTS
    Pub,       \* publications, one per (source, source_document_id)
    NoPub,     \* the NULL parent
    PubOrder   \* ORDER BY published_at, id::text, as a number per publication

(***************************************************************************)
(* The ORDER BY is total: ties of published_at are broken by the row id.   *)
(***************************************************************************)
ASSUME LineageAssumption ==
    /\ NoPub \notin Pub
    /\ PubOrder \in [Pub -> Int]
    /\ \A S \in SUBSET Pub :
          S # {} => \E p \in S : \A q \in S \ {p} : PubOrder[q] < PubOrder[p]

ParentMap == [Pub -> Pub \cup {NoPub}]

ClosedUnderChildren(par, S) == \A q \in Pub : par[q] \in S => q \in S

\* WITH RECURSIVE lineage(id): the row r and everything linked below it.
Subtree(par, r) ==
    {q \in Pub : \A S \in SUBSET Pub :
                    r \in S /\ ClosedUnderChildren(par, S) => q \in S}

\* _find_root: the parentless row above p.
Root(par, p) == CHOOSE r \in Pub : par[r] = NoPub /\ p \in Subtree(par, r)

Leaves(par, r) == {q \in Subtree(par, r) : \A c \in Pub : par[c] # q}

\* _latest_leaf_id: the newest row of the lineage that has no child.
LatestLeaf(par, r) ==
    CHOOSE q \in Leaves(par, r) :
        \A l \in Leaves(par, r) \ {q} : PubOrder[l] < PubOrder[q]

\* Seeded fault: the lineage the child joins keeps its latest row.
ClearedChildOnly(par, child, parent) == Subtree(par, Root(par, child))

\* The rows whose latest flag one link transaction clears.
Cleared(par, child, parent) ==
    Subtree(par, Root(par, child)) \cup Subtree(par, Root(par, parent))

Linked(par, child, parent) == [par EXCEPT ![child] = parent]

\* Seeded fault: the child just linked is elected, whatever is linked below it.
ChildElected(par, latest, child, parent) ==
    (latest \ Cleared(par, child, parent)) \cup {child}

\* The set of latest publications after child is linked under parent.
LatestAfterLink(par, latest, child, parent) ==
    (latest \ Cleared(par, child, parent))
        \cup {LatestLeaf(Linked(par, child, parent), Root(par, parent))}

\* A parent map without cycles, stated for both directions of a link.
Acyclic(par) ==
    \A S \in SUBSET Pub : S # {} =>
        /\ \E p \in S : par[p] \notin S
        /\ \E p \in S : \A c \in S : par[c] # p

\* No lineage has two of the given publications among its rows.
OneLatest(par, lat) ==
    \A p, q \in lat : (\E r \in Pub : {p, q} \subseteq Subtree(par, r)) => p = q

\* The latest rows before any of the given links is made: each lineage has its newest
\* leaf, and a stored successor that is not linked yet is not latest.
StoredLatest(par, links) ==
    {LatestLeaf(par, r) : r \in
        {p \in Pub : par[p] = NoPub
                       /\ ((\E c \in Pub : par[c] = p) \/ \A l \in links : l[1] # p)}}
=============================================================================
