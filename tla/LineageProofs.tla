---------------------------- MODULE LineageProofs ----------------------------
(***************************************************************************)
(* Facts about subtrees, roots and link transactions that hold for every   *)
(* set of publications.                                                    *)
(***************************************************************************)
EXTENDS Lineage, TLAPS

\* A subtree holds its start row and every child of a row it holds.
LEMMA SubtreeClosed ==
    ASSUME NEW par, NEW r \in Pub
    PROVE  /\ r \in Subtree(par, r)
           /\ ClosedUnderChildren(par, Subtree(par, r))
BY DEF Subtree, ClosedUnderChildren

\* It is the least such set.
LEMMA SubtreeLeast ==
    ASSUME NEW par, NEW r \in Pub, NEW S \in SUBSET Pub,
           r \in S, ClosedUnderChildren(par, S)
    PROVE  Subtree(par, r) \subseteq S
BY DEF Subtree

LEMMA SubtreeTransitive ==
    ASSUME NEW par, NEW r \in Pub, NEW q \in Subtree(par, r)
    PROVE  q \in Pub /\ Subtree(par, q) \subseteq Subtree(par, r)
<1>1. Subtree(par, r) \in SUBSET Pub /\ q \in Pub
  BY DEF Subtree
<1>2. QED
  BY <1>1, SubtreeClosed, SubtreeLeast

\* Every row of a subtree but its start was reached through its parent.
LEMMA SubtreeStep ==
    ASSUME NEW par \in ParentMap, NEW r \in Pub, NEW q \in Subtree(par, r), q # r
    PROVE  par[q] \in Subtree(par, r)
<1> DEFINE S == Subtree(par, r) \ {q}
<1> SUFFICES ASSUME par[q] \notin Subtree(par, r)
             PROVE  FALSE
  OBVIOUS
<1>1. S \in SUBSET Pub /\ r \in S
  BY SubtreeClosed DEF Subtree
<1>2. ClosedUnderChildren(par, S)
  <2> SUFFICES ASSUME NEW x \in Pub, par[x] \in S
               PROVE  x \in S
    BY DEF ClosedUnderChildren
  <2>1. x \in Subtree(par, r)
    BY SubtreeClosed DEF ClosedUnderChildren
  <2>2. x # q
    OBVIOUS
  <2>3. QED
    BY <2>1, <2>2
<1>3. Subtree(par, r) \subseteq S
  BY <1>1, <1>2, SubtreeLeast
<1>4. QED
  BY <1>3

\* Without cycles, _find_root ends at a parentless row above its start.
LEMMA RootExists ==
    ASSUME NEW par \in ParentMap, Acyclic(par), NEW p \in Pub
    PROVE  /\ Root(par, p) \in Pub
           /\ par[Root(par, p)] = NoPub
           /\ p \in Subtree(par, Root(par, p))
<1> DEFINE Above == {q \in Pub : p \in Subtree(par, q)}
<1>1. p \in Above
  BY SubtreeClosed
<1>2. PICK q \in Above : par[q] \notin Above
  BY <1>1 DEF Acyclic
<1>3. par[q] = NoPub
  <2> SUFFICES ASSUME par[q] # NoPub
               PROVE  FALSE
    OBVIOUS
  <2>1. par[q] \in Pub
    BY DEF ParentMap
  <2>2. q \in Subtree(par, par[q])
    BY <2>1, SubtreeClosed DEF ClosedUnderChildren
  <2>3. p \in Subtree(par, par[q])
    BY <2>1, <2>2, SubtreeTransitive
  <2>4. QED
    BY <2>1, <2>3, <1>2
<1>4. QED
  BY <1>2, <1>3 DEF Root

\* A lineage has one root: two parentless rows share no descendant.
LEMMA RootUnique ==
    ASSUME NEW par \in ParentMap, NEW r \in Pub, NEW s \in Pub,
           par[r] = NoPub, par[s] = NoPub,
           NEW p \in Subtree(par, r) \cap Subtree(par, s)
    PROVE  r = s
<1> DEFINE S == {q \in Subtree(par, r) : q \in Subtree(par, s) => r = s}
<1>1. S \in SUBSET Pub
  BY DEF Subtree
<1>2. r \in S
  <2>1. r \in Subtree(par, s) /\ r # s => par[r] \in Pub
    BY SubtreeStep DEF Subtree
  <2>2. QED
    BY <2>1, SubtreeClosed, LineageAssumption
<1>3. ClosedUnderChildren(par, S)
  <2> SUFFICES ASSUME NEW x \in Pub, par[x] \in S
               PROVE  x \in S
    BY DEF ClosedUnderChildren
  <2>1. x \in Subtree(par, r)
    BY SubtreeClosed DEF ClosedUnderChildren
  <2>2. x # s
    BY <1>1, LineageAssumption
  <2>3. x \in Subtree(par, s) => par[x] \in Subtree(par, s)
    BY <2>2, SubtreeStep
  <2>4. QED
    BY <2>1, <2>3
<1>4. Subtree(par, r) \subseteq S
  BY <1>1, <1>2, <1>3, SubtreeLeast
<1>5. QED
  BY <1>4

\* Without cycles, the election of _latest_leaf_id finds a row of the lineage.
LEMMA LatestLeafExists ==
    ASSUME NEW par, Acyclic(par), NEW r \in Pub
    PROVE  LatestLeaf(par, r) \in Leaves(par, r)
<1>1. PICK p \in Subtree(par, r) : \A c \in Subtree(par, r) : par[c] # p
  <2>1. Subtree(par, r) \in SUBSET Pub /\ Subtree(par, r) # {}
    BY SubtreeClosed DEF Subtree
  <2>2. QED
    BY <2>1 DEF Acyclic
<1>2. p \in Leaves(par, r)
  BY <1>1, SubtreeClosed DEF Leaves, ClosedUnderChildren
<1>3. Leaves(par, r) \in SUBSET Pub
  BY DEF Leaves, Subtree
<1>4. \E q \in Leaves(par, r) : \A l \in Leaves(par, r) \ {q} : PubOrder[l] < PubOrder[q]
  BY <1>2, <1>3, LineageAssumption
<1>5. QED
  BY <1>4 DEF LatestLeaf

-----------------------------------------------------------------------------
(* One link transaction.                                                   *)

\* Seen from the new parent map, the cleared rows form whole lineages: a link neither
\* enters the cleared rows from outside nor leaves them.
LEMMA ClearedIsClosed ==
    ASSUME NEW par \in ParentMap, Acyclic(par), NEW child \in Pub, NEW parent \in Pub
    PROVE  LET C == Cleared(par, child, parent)
               new == Linked(par, child, parent)
           IN /\ C \in SUBSET Pub
              /\ Root(par, parent) \in C
              /\ ClosedUnderChildren(new, C)
              /\ \A q \in C : new[q] \in C \cup {NoPub}
<1> DEFINE C == Cleared(par, child, parent)
           new == Linked(par, child, parent)
           cr == Root(par, child)
           pr == Root(par, parent)
<1>1. /\ cr \in Pub /\ par[cr] = NoPub /\ child \in Subtree(par, cr)
      /\ pr \in Pub /\ par[pr] = NoPub /\ parent \in Subtree(par, pr)
  BY RootExists
<1>2. C = Subtree(par, cr) \cup Subtree(par, pr)
  BY DEF Cleared
<1>3. /\ C \in SUBSET Pub
      /\ child \in C /\ parent \in C /\ pr \in C
  BY <1>1, <1>2, SubtreeClosed DEF Subtree
<1>4. new[child] = parent /\ \A q \in Pub \ {child} : new[q] = par[q]
  BY DEF Linked, ParentMap
<1> HIDE DEF C, new, cr, pr
<1>5. ClosedUnderChildren(par, C)
  BY <1>1, <1>2, SubtreeClosed DEF ClosedUnderChildren
<1>6. ClosedUnderChildren(new, C)
  BY <1>3, <1>4, <1>5 DEF ClosedUnderChildren
<1>7. \A q \in C : new[q] \in C \cup {NoPub}
  <2> SUFFICES ASSUME NEW q \in C, q # child
               PROVE  new[q] \in C \cup {NoPub}
    BY <1>3, <1>4
  <2>1. new[q] = par[q]
    BY <1>3, <1>4
  <2>2. CASE q \in Subtree(par, cr)
    BY <2>1, <2>2, <1>1, <1>2, SubtreeStep
  <2>3. CASE q \in Subtree(par, pr)
    BY <2>1, <2>3, <1>1, <1>2, SubtreeStep
  <2>4. QED
    BY <2>2, <2>3, <1>2
<1>8. QED
  BY <1>3, <1>6, <1>7 DEF C, new, pr

\* A link transaction leaves at most one latest version per lineage if it finds that,
\* wherever the child was linked before.
LEMMA LinkKeepsOneLatest ==
    ASSUME NEW par \in ParentMap, NEW lat \in SUBSET Pub,
           NEW child \in Pub, NEW parent \in Pub,
           Acyclic(par), Acyclic(Linked(par, child, parent)),
           OneLatest(par, lat)
    PROVE  /\ LatestAfterLink(par, lat, child, parent) \in SUBSET Pub
           /\ OneLatest(Linked(par, child, parent), LatestAfterLink(par, lat, child, parent))
<1> DEFINE C == Cleared(par, child, parent)
           new == Linked(par, child, parent)
           leaf == LatestLeaf(new, Root(par, parent))
<1>1. /\ C \in SUBSET Pub /\ Root(par, parent) \in C
      /\ ClosedUnderChildren(new, C)
      /\ \A q \in C : new[q] \in C \cup {NoPub}
  BY ClearedIsClosed
<1>2. LatestAfterLink(par, lat, child, parent) = (lat \ C) \cup {leaf}
  BY DEF LatestAfterLink
<1>3. \A q \in Pub \ C : new[q] = par[q] \/ new[q] \in C
  <2>1. new[child] = parent /\ \A q \in Pub \ {child} : new[q] = par[q]
    BY DEF Linked, ParentMap
  <2>2. parent \in C
    BY RootExists DEF Cleared
  <2>3. QED
    BY <2>1, <2>2
<1>4. \A r \in C : Subtree(new, r) \subseteq C
  BY <1>1, SubtreeLeast
<1>5. \A r \in Pub \ C : Subtree(new, r) \subseteq Subtree(par, r) \ C
  <2> SUFFICES ASSUME NEW r \in Pub \ C
               PROVE  Subtree(new, r) \subseteq Subtree(par, r) \ C
    OBVIOUS
  <2> DEFINE S == Subtree(par, r) \ C
  <2>1. S \in SUBSET Pub /\ r \in S
    BY SubtreeClosed DEF Subtree
  <2>2. ClosedUnderChildren(new, S)
    <3> SUFFICES ASSUME NEW q \in Pub, new[q] \in S
                 PROVE  q \in S
      BY DEF ClosedUnderChildren
    <3>1. q \notin C
      BY <1>1, <2>1, LineageAssumption
    <3>2. new[q] = par[q]
      BY <3>1, <1>3
    <3>3. q \in Subtree(par, r)
      BY <3>2, SubtreeClosed DEF ClosedUnderChildren
    <3>4. QED
      BY <3>1, <3>3
  <2>3. QED
    BY <2>1, <2>2, SubtreeLeast
<1>6. leaf \in C
  <2>1. Root(par, parent) \in Pub
    BY RootExists
  <2>2. leaf \in Subtree(new, Root(par, parent))
    BY <2>1, LatestLeafExists DEF Leaves
  <2>3. QED
    BY <2>2, <1>1, <1>4
<1> HIDE DEF C, new, leaf
<1>7. OneLatest(new, (lat \ C) \cup {leaf})
  <2> SUFFICES ASSUME NEW p \in (lat \ C) \cup {leaf}, NEW q \in (lat \ C) \cup {leaf},
                      NEW r \in Pub, p \in Subtree(new, r), q \in Subtree(new, r)
               PROVE  p = q
    BY DEF OneLatest
  <2>1. CASE r \in C
    BY <2>1, <1>4
  <2>2. CASE r \notin C
    <3>1. /\ p \in lat /\ q \in lat
          /\ p \in Subtree(par, r) /\ q \in Subtree(par, r)
      BY <2>2, <1>5, <1>6
    <3>2. QED
      BY <3>1 DEF OneLatest
  <2>3. QED
    BY <2>1, <2>2
<1>8. QED
  BY <1>1, <1>2, <1>6, <1>7 DEF new

\* A row without parent and children is a lineage of its own, so that inserting it as
\* latest makes no second latest version of anything.
LEMMA InsertKeepsOneLatest ==
    ASSUME NEW par \in ParentMap, NEW lat \in SUBSET Pub, NEW p \in Pub,
           par[p] = NoPub, \A q \in Pub : par[q] # p, OneLatest(par, lat)
    PROVE  OneLatest(par, lat \cup {p})
<1>1. \A r \in Pub : p \in Subtree(par, r) => r = p
  <2> SUFFICES ASSUME NEW r \in Pub, p \in Subtree(par, r), r # p
               PROVE  FALSE
    OBVIOUS
  <2>1. par[p] \in Subtree(par, r)
    BY SubtreeStep
  <2>2. QED
    BY <2>1, LineageAssumption DEF Subtree
<1>2. Subtree(par, p) \subseteq {p}
  <2>1. ClosedUnderChildren(par, {p})
    BY DEF ClosedUnderChildren
  <2>2. QED
    BY <2>1, SubtreeLeast
<1>3. QED
  BY <1>1, <1>2 DEF OneLatest

\* Two parent maps that differ only inside a set of whole lineages agree on every lineage
\* outside it.
LEMMA UntouchedLineage ==
    ASSUME NEW par \in ParentMap, NEW new \in ParentMap, NEW C \in SUBSET Pub,
           \A q \in C : par[q] \in C \cup {NoPub} /\ new[q] \in C \cup {NoPub},
           ClosedUnderChildren(par, C), ClosedUnderChildren(new, C),
           \A q \in Pub \ C : par[q] = new[q],
           NEW r \in Pub \ C
    PROVE  /\ Subtree(par, r) \cap C = {}
           /\ Subtree(new, r) = Subtree(par, r)
           /\ Leaves(new, r) = Leaves(par, r)
           /\ LatestLeaf(new, r) = LatestLeaf(par, r)
<1>1. ASSUME NEW a \in ParentMap, NEW b \in ParentMap,
             \A q \in C : a[q] \in C \cup {NoPub} /\ b[q] \in C \cup {NoPub},
             \A q \in Pub \ C : a[q] = b[q]
      PROVE  Subtree(a, r) \subseteq Subtree(b, r) \ C
  <2> DEFINE S == Subtree(b, r) \ C
  <2>1. S \in SUBSET Pub /\ r \in S
    BY SubtreeClosed DEF Subtree
  <2>2. ClosedUnderChildren(a, S)
    <3> SUFFICES ASSUME NEW q \in Pub, a[q] \in S
                 PROVE  q \in S
      BY DEF ClosedUnderChildren
    <3>1. q \notin C
      BY <1>1, <2>1, LineageAssumption
    <3>2. b[q] = a[q]
      BY <1>1, <3>1
    <3>3. q \in Subtree(b, r)
      BY <3>2, SubtreeClosed DEF ClosedUnderChildren
    <3>4. QED
      BY <3>1, <3>3
  <2>3. QED
    BY <2>1, <2>2, SubtreeLeast
<1>2. Subtree(par, r) \subseteq Subtree(new, r) \ C /\ Subtree(new, r) \subseteq Subtree(par, r) \ C
  BY <1>1
<1>3. Subtree(new, r) = Subtree(par, r) /\ Subtree(par, r) \cap C = {}
  BY <1>2
<1>4. ASSUME NEW q \in Subtree(par, r), NEW c \in Pub
      PROVE  par[c] = q <=> new[c] = q
  <2>1. q \notin C /\ q # NoPub
    BY <1>3, LineageAssumption DEF Subtree
  <2>2. QED
    BY <2>1
<1>5. Leaves(new, r) = Leaves(par, r)
  BY <1>3, <1>4 DEF Leaves
<1>6. QED
  BY <1>3, <1>5 DEF LatestLeaf

\* The rows a link clears are whole lineages before the link too, those of its two roots.
LEMMA ClearedWasClosed ==
    ASSUME NEW par \in ParentMap, Acyclic(par), NEW child \in Pub, NEW parent \in Pub
    PROVE  LET C == Cleared(par, child, parent)
           IN /\ ClosedUnderChildren(par, C)
              /\ \A q \in C : par[q] \in C \cup {NoPub}
              /\ \A q \in C : par[q] = NoPub => q \in {Root(par, child), Root(par, parent)}
<1> DEFINE C == Cleared(par, child, parent)
           cr == Root(par, child)
           pr == Root(par, parent)
<1>1. cr \in Pub /\ par[cr] = NoPub /\ pr \in Pub /\ par[pr] = NoPub
  BY RootExists
<1>2. C = Subtree(par, cr) \cup Subtree(par, pr)
  BY DEF Cleared
<1> HIDE DEF C, cr, pr
<1>3. ClosedUnderChildren(par, C)
  BY <1>1, <1>2, SubtreeClosed DEF ClosedUnderChildren
<1>4. \A q \in C : par[q] \in C \cup {NoPub}
  BY <1>1, <1>2, SubtreeStep
<1>5. ASSUME NEW q \in C, par[q] = NoPub
      PROVE  q \in {cr, pr}
  <2>1. q \in Pub /\ q \in Subtree(par, q)
    BY <1>2, SubtreeClosed DEF Subtree
  <2>2. CASE q \in Subtree(par, cr)
    BY <1>1, <1>5, <2>1, <2>2, RootUnique
  <2>3. CASE q \in Subtree(par, pr)
    BY <1>1, <1>5, <2>1, <2>3, RootUnique
  <2>4. QED
    BY <1>2, <2>2, <2>3
<1>6. QED
  BY <1>3, <1>4, <1>5 DEF C, cr, pr

\* A root found by any means is the root.
LEMMA RootIs ==
    ASSUME NEW par \in ParentMap, Acyclic(par), NEW r \in Pub, par[r] = NoPub,
           NEW p \in Subtree(par, r)
    PROVE  Root(par, p) = r
<1>1. p \in Pub
  BY DEF Subtree
<1>2. Root(par, p) \in Pub /\ par[Root(par, p)] = NoPub /\ p \in Subtree(par, Root(par, p))
  BY <1>1, RootExists
<1>3. QED
  BY <1>2, RootUnique

\* The latest row of every lineage with links is its newest leaf.
NewestLeaf(par, lat) ==
    \A p \in Pub : par[p] # NoPub => LatestLeaf(par, Root(par, p)) \in lat

\* A link of a version that stands nowhere, or where it is linked again, keeps that.
LEMMA LinkKeepsNewestLeaf ==
    ASSUME NEW par \in ParentMap, NEW lat \in SUBSET Pub,
           NEW child \in Pub, NEW parent \in Pub,
           Acyclic(par), Acyclic(Linked(par, child, parent)),
           par[child] \in {NoPub, parent}, NewestLeaf(par, lat)
    PROVE  NewestLeaf(Linked(par, child, parent), LatestAfterLink(par, lat, child, parent))
<1> DEFINE C == Cleared(par, child, parent)
           new == Linked(par, child, parent)
           cr == Root(par, child)
           pr == Root(par, parent)
           leaf == LatestLeaf(new, pr)
<1>1. /\ cr \in Pub /\ par[cr] = NoPub /\ child \in Subtree(par, cr)
      /\ pr \in Pub /\ par[pr] = NoPub /\ parent \in Subtree(par, pr)
  BY RootExists
<1>2. C = Subtree(par, cr) \cup Subtree(par, pr)
  BY DEF Cleared
<1>3. /\ C \in SUBSET Pub /\ pr \in C
      /\ ClosedUnderChildren(new, C)
      /\ \A q \in C : new[q] \in C \cup {NoPub}
  BY ClearedIsClosed
<1>4. /\ new \in ParentMap /\ new[child] = parent /\ \A q \in Pub \ {child} : new[q] = par[q]
  BY DEF Linked, ParentMap
<1>5. LatestAfterLink(par, lat, child, parent) = (lat \ C) \cup {leaf}
  BY DEF LatestAfterLink
<1>6. Acyclic(new)
  OBVIOUS
<1> HIDE DEF C, new, cr, pr, leaf
<1>7. child \in C /\ parent \in C
  BY <1>1, <1>2
<1>8. ClosedUnderChildren(par, C) /\ \A q \in C : par[q] \in C \cup {NoPub}
  BY ClearedWasClosed DEF C
<1>9. \A q \in C : par[q] = NoPub => q \in {cr, pr}
  BY ClearedWasClosed DEF C, cr, pr
<1>10. cr \in {child, pr}
  <2>1. CASE par[child] = NoPub
    <3>1. child \in Subtree(par, child)
      BY SubtreeClosed
    <3>2. QED
      BY <1>1, <2>1, <3>1, RootUnique
  <2>2. CASE par[child] = parent
    <3>1. child \in Subtree(par, pr)
      BY <1>1, <2>2, SubtreeClosed DEF ClosedUnderChildren
    <3>2. QED
      BY <1>1, <3>1, RootUnique
  <2>3. QED
    BY <2>1, <2>2
<1>11. \A q \in C : new[q] = NoPub => q = pr
  BY <1>3, <1>4, <1>9, <1>10, LineageAssumption
<1>12. new[pr] = NoPub
  <2>1. PICK q \in C : new[q] \notin C
    BY <1>3, <1>6 DEF Acyclic
  <2>2. QED
    BY <1>3, <1>11, <2>1
<1>13. ASSUME NEW r \in Pub \ C
       PROVE  /\ Subtree(par, r) \cap C = {}
              /\ Subtree(new, r) = Subtree(par, r)
              /\ LatestLeaf(new, r) = LatestLeaf(par, r)
  <2>1. \A q \in C : par[q] \in C \cup {NoPub} /\ new[q] \in C \cup {NoPub}
    BY <1>3, <1>8
  <2>2. \A q \in Pub \ C : par[q] = new[q]
    BY <1>4, <1>7
  <2>3. QED
    BY <1>3, <1>4, <1>8, <2>1, <2>2, UntouchedLineage
<1> SUFFICES ASSUME NEW p \in Pub, new[p] # NoPub
             PROVE  LatestLeaf(new, Root(new, p)) \in (lat \ C) \cup {leaf}
  BY <1>5 DEF NewestLeaf, new
<1>14. CASE p \in C
  <2> DEFINE r == Root(new, p)
  <2>1. r \in Pub /\ new[r] = NoPub /\ p \in Subtree(new, r)
    BY <1>4, <1>6, RootExists
  <2>2. r \in C
    BY <1>13, <1>14, <2>1
  <2>3. r = pr
    BY <1>11, <2>1, <2>2
  <2>4. QED
    BY <2>3 DEF leaf
<1>15. CASE p \notin C
  <2> DEFINE r == Root(par, p)
  <2>1. par[p] = new[p]
    BY <1>4, <1>7, <1>15
  <2>2. r \in Pub /\ par[r] = NoPub /\ p \in Subtree(par, r)
    BY RootExists
  <2>3. LatestLeaf(par, r) \in lat
    BY <2>1 DEF NewestLeaf
  <2>4. r \notin C
    <3>1. ASSUME r \in C
          PROVE  Subtree(par, r) \subseteq C
      BY <1>3, <1>8, <2>2, <3>1, SubtreeLeast
    <3>2. QED
      BY <1>15, <2>2, <3>1
  <2> HIDE DEF r
  <2>5. /\ Subtree(par, r) \cap C = {} /\ Subtree(new, r) = Subtree(par, r)
        /\ LatestLeaf(new, r) = LatestLeaf(par, r)
    BY <1>13, <2>2, <2>4
  <2>6. new[r] = NoPub /\ p \in Subtree(new, r)
    BY <1>4, <1>7, <2>2, <2>4, <2>5
  <2>7. Root(new, p) = r
    BY <1>4, <1>6, <2>2, <2>6, RootIs
  <2>8. LatestLeaf(par, r) \notin C
    <3>1. LatestLeaf(par, r) \in Subtree(par, r)
      BY <2>2, LatestLeafExists DEF Leaves
    <3>2. QED
      BY <2>5, <3>1
  <2>9. QED
    BY <2>3, <2>5, <2>7, <2>8
<1>16. QED
  BY <1>14, <1>15
=============================================================================
