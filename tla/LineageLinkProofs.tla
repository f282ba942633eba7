-------------------------- MODULE LineageLinkProofs --------------------------
(***************************************************************************)
(* Link transactions for any number of runs, publications and links        *)
(* without a cycle: locking the rows on the way to the root is enough to   *)
(* make each transaction take effect as one step.                          *)
(***************************************************************************)
EXTENDS LineageLink, LineageProofs, SequenceTheorems

-----------------------------------------------------------------------------
(* What a transaction has found and locked by each statement.              *)

\* Whatever t has locked on the way up from a leads to b: b is in every set of rows that
\* holds a and, with a row t has locked, its parent.
PathUp(lk, par, t, a, b) ==
    \A S \in SUBSET Pub :
        a \in S /\ (\A x \in S : lk[x] = t /\ par[x] # NoPub => par[x] \in S) => b \in S

\* The walk from a ended at the root r, and t keeps it locked.
Held(lk, par, t, a, r) ==
    r \in Pub /\ lk[r] = t /\ par[r] = NoPub /\ PathUp(lk, par, t, a, r)

AboveChild == {"walkParent", "snapshotLock", "lockRows", "snapshotClear", "clearRows",
               "setParent", "electLeaf", "setLatest", "commit"}
AboveBoth == AboveChild \ {"walkParent"}

\* The rows of the lineages whose turn is still to come.
Pending(t, from) ==
    {x \in Pub : \E i \in DOMAIN roots[t] : from <= i /\ x \in Subtree(parent, roots[t][i])}

BothLineages(t) == Subtree(parent, childRoot[t]) \cup Subtree(parent, parentRoot[t])

\* Where the rows of both lineages stand: cleared, being cleared or still to be.
Account(t) ==
    /\ pc[t] \in {"walkChild", "walkParent"} => cleared[t] = {}
    /\ pc[t] \in {"snapshotLock", "lockRows", "snapshotClear", "clearRows"} =>
          /\ Len(roots[t]) \in {1, 2}
          /\ \A i \in DOMAIN roots[t] : roots[t][i] \in {childRoot[t], parentRoot[t]}
    /\ pc[t] \in {"snapshotLock", "lockRows", "snapshotClear"} =>
          BothLineages(t) = cleared[t] \cup Pending(t, 1)
    /\ pc[t] = "clearRows" => BothLineages(t) = cleared[t] \cup todo[t] \cup Pending(t, 2)
    /\ pc[t] \in {"setParent", "electLeaf", "setLatest", "commit"} => BothLineages(t) = cleared[t]

LinkInv(t) ==
    /\ ~ Ended(t) => done[t] < Len(Links[t])
    /\ pc[t] = "end" => done[t] = Len(Links[t])
    /\ Ended(t) => \A p \in Pub : lock[p] # t
    /\ pc[t] = "walkChild" => PathUp(lock, parent, t, Child(t), cur[t])
    /\ pc[t] = "walkParent" => PathUp(lock, parent, t, Parent(t), cur[t])
    /\ pc[t] \in AboveChild => Held(lock, parent, t, Child(t), childRoot[t])
    /\ pc[t] \in AboveBoth => Held(lock, parent, t, Parent(t), parentRoot[t])
    /\ Account(t)
    /\ pc[t] \in {"electLeaf", "setLatest", "commit"} => lock[Child(t)] = t
    /\ pc[t] \in {"setLatest", "commit"} =>
          elected[t] = LatestLeaf(Linked(parent, Child(t), Parent(t)), parentRoot[t])

\* Links follow what was stored or given, and deadlock detection spares a run.
LinkIInv ==
    /\ TypeOK
    /\ \A p, q \in Pub : parent[p] = q => Joins(p, q)
    /\ \A t \in Linker : LinkInv(t)
    /\ \E t \in Linker : pc[t] # "aborted"

Step(t) == Statement(t) \/ DeadlockVictim(t)

-----------------------------------------------------------------------------
(* Facts about one state.                                                  *)

LEMMA JoinsAcyclic ==
    ASSUME NEW par \in ParentMap, \A p, q \in Pub : par[p] = q => Joins(p, q)
    PROVE  Acyclic(par)
<1> SUFFICES ASSUME NEW S \in SUBSET Pub, S # {}
             PROVE  /\ \E p \in S : par[p] \notin S
                    /\ \E p \in S : \A c \in S : par[c] # p
  BY DEF Acyclic
<1>1. /\ \E p \in S : \A q \in S : ~ Joins(p, q)
      /\ \E p \in S : \A q \in S : ~ Joins(q, p)
  BY LinkAssumption
<1>2. QED
  BY <1>1

\* A locked way up from a to b puts a into the lineage below b.
LEMMA PathReaches ==
    ASSUME parent \in ParentMap, NEW t \in Linker, NEW a \in Pub, NEW b \in Pub,
           PathUp(lock, parent, t, a, b)
    PROVE  a \in Subtree(parent, b)
<1> SUFFICES ASSUME NEW T \in SUBSET Pub, b \in T, ClosedUnderChildren(parent, T), a \notin T
             PROVE  FALSE
  BY DEF Subtree
<1> DEFINE S == Pub \ T
<1>1. a \in S /\ \A x \in S : parent[x] # NoPub => parent[x] \in S
  BY DEF ParentMap, ClosedUnderChildren
<1>2. b \in S
  BY <1>1 DEF PathUp
<1>3. QED
  BY <1>2

\* The link a running transaction makes.
LEMMA LinkAtHand ==
    ASSUME TypeOK, NEW t \in Linker, done[t] < Len(Links[t])
    PROVE  Child(t) \in Pub /\ Parent(t) \in Pub /\ Joins(Child(t), Parent(t))
<1>1. Links[t] \in Seq(Pub \X Pub) /\ done[t] \in 0..Len(Links[t])
  BY LinkAssumption DEF TypeOK
<1>2. done[t] + 1 \in DOMAIN Links[t] /\ Links[t][done[t] + 1] \in Pub \X Pub
  BY <1>1
<1>3. Links[t][done[t] + 1] = <<Child(t), Parent(t)>>
  BY <1>2 DEF Child, Parent
<1>4. QED
  BY <1>2, <1>3 DEF Joins

\* The map of parents, with or without the link at hand, has no cycle.
LEMMA MapsAcyclic ==
    ASSUME LinkIInv
    PROVE  /\ parent \in ParentMap /\ Acyclic(parent)
           /\ \A t \in Linker : done[t] < Len(Links[t]) =>
                 /\ Linked(parent, Child(t), Parent(t)) \in ParentMap
                 /\ Acyclic(Linked(parent, Child(t), Parent(t)))
                 /\ \A p, q \in Pub : Linked(parent, Child(t), Parent(t))[p] = q => Joins(p, q)
<1>1. parent \in ParentMap /\ \A p, q \in Pub : parent[p] = q => Joins(p, q)
  BY DEF LinkIInv, TypeOK
<1>2. Acyclic(parent)
  BY <1>1, JoinsAcyclic
<1>3. ASSUME NEW t \in Linker, done[t] < Len(Links[t])
      PROVE  /\ Linked(parent, Child(t), Parent(t)) \in ParentMap
             /\ Acyclic(Linked(parent, Child(t), Parent(t)))
             /\ \A p, q \in Pub : Linked(parent, Child(t), Parent(t))[p] = q => Joins(p, q)
  <2> DEFINE c == Child(t)
             p0 == Parent(t)
             new == Linked(parent, c, p0)
  <2>1. c \in Pub /\ p0 \in Pub /\ Joins(c, p0)
    BY <1>3, LinkAtHand DEF LinkIInv
  <2> HIDE DEF c, p0
  <2>2. new \in ParentMap /\ \A p \in Pub : new[p] = IF p = c THEN p0 ELSE parent[p]
    BY <1>1, <2>1 DEF Linked, ParentMap
  <2>3. \A p, q \in Pub : new[p] = q => Joins(p, q)
    BY <1>1, <2>1, <2>2
  <2>4. Acyclic(new)
    BY <2>2, <2>3, JoinsAcyclic
  <2>5. QED
    BY <2>2, <2>3, <2>4 DEF c, p0
<1>4. QED
  BY <1>1, <1>2, <1>3

\* The roots a transaction holds are those _find_root would find now.
LEMMA HeldRoot ==
    ASSUME LinkIInv, NEW t \in Linker, NEW a \in Pub, NEW r, Held(lock, parent, t, a, r)
    PROVE  r \in Pub /\ a \in Subtree(parent, r) /\ Root(parent, a) = r
<1>1. parent \in ParentMap /\ Acyclic(parent) /\ r \in Pub
  BY MapsAcyclic DEF Held
<1>2. a \in Subtree(parent, r)
  BY <1>1, PathReaches DEF Held
<1>3. QED
  BY <1>1, <1>2, RootIs DEF Held

\* Once both roots are held, the two lineages are the rows the promise clears.
LEMMA HeldLineages ==
    ASSUME LinkIInv, NEW t \in Linker, pc[t] \in AboveBoth
    PROVE  /\ Child(t) \in Pub /\ Parent(t) \in Pub
           /\ Root(parent, Child(t)) = childRoot[t] /\ Root(parent, Parent(t)) = parentRoot[t]
           /\ Child(t) \in Subtree(parent, childRoot[t])
           /\ Parent(t) \in Subtree(parent, parentRoot[t])
           /\ childRoot[t] \in Pub /\ parentRoot[t] \in Pub
           /\ lock[childRoot[t]] = t /\ lock[parentRoot[t]] = t
           /\ parent[childRoot[t]] = NoPub /\ parent[parentRoot[t]] = NoPub
           /\ BothLineages(t) = Cleared(parent, Child(t), Parent(t))
<1>1. LinkInv(t) /\ TypeOK
  BY DEF LinkIInv
<1>2. Child(t) \in Pub /\ Parent(t) \in Pub
  BY <1>1, LinkAtHand DEF LinkInv, Ended, AboveBoth, AboveChild
<1>3. /\ Held(lock, parent, t, Child(t), childRoot[t])
      /\ Held(lock, parent, t, Parent(t), parentRoot[t])
  BY <1>1 DEF LinkInv, AboveBoth
<1>4. /\ Root(parent, Child(t)) = childRoot[t] /\ Root(parent, Parent(t)) = parentRoot[t]
      /\ Child(t) \in Subtree(parent, childRoot[t])
      /\ Parent(t) \in Subtree(parent, parentRoot[t])
  BY <1>2, <1>3, HeldRoot
<1>5. BothLineages(t) = Cleared(parent, Child(t), Parent(t))
  BY <1>4 DEF BothLineages, Cleared
<1>6. QED
  BY <1>2, <1>3, <1>4, <1>5 DEF Held

-----------------------------------------------------------------------------
(* What a step of one transaction leaves to the others.                    *)

LEMMA OthersUntouched ==
    ASSUME LinkIInv, NEW u \in Linker, Step(u), NEW t \in Linker \ {u}
    PROVE  /\ pc'[t] = pc[t] /\ cur'[t] = cur[t] /\ childRoot'[t] = childRoot[t]
           /\ parentRoot'[t] = parentRoot[t] /\ roots'[t] = roots[t] /\ todo'[t] = todo[t]
           /\ cleared'[t] = cleared[t] /\ elected'[t] = elected[t] /\ done'[t] = done[t]
           /\ \A p \in Pub : lock'[p] = t <=> lock[p] = t
<1> USE DEF Jump, Take, Free, Release, txVars, rowVars
<1>1. /\ pc \in [Linker -> Phases] /\ cur \in [Linker -> Pub \cup {NoPub}]
      /\ childRoot \in [Linker -> Pub \cup {NoPub}]
      /\ parentRoot \in [Linker -> Pub \cup {NoPub}]
      /\ elected \in [Linker -> Pub \cup {NoPub}]
      /\ lock \in [Pub -> Linker \cup {NoLinker}]
      /\ roots \in [Linker -> Seq(Pub)]
      /\ todo \in [Linker -> SUBSET Pub] /\ cleared \in [Linker -> SUBSET Pub]
      /\ t # NoLinker
  BY LinkAssumption DEF LinkIInv, TypeOK
<1>2. done'[t] = done[t]
  <2>1. done' = done \/ done' = [done EXCEPT ![u] = done[u] + 1]
    BY DEF Step, Statement, DeadlockVictim, Aborted, WalkUp, FindChildRoot, FindParentRoot,
       BeginLock, BeginClear, Snapshot, LockRow, ClearRow, SetParent, ElectLeaf, SetLatest,
       Commit
  <2>2. done \in [Linker -> Nat]
    BY DEF LinkIInv, TypeOK
  <2>3. QED
    BY <2>1, <2>2
<1>3. CASE WalkUp(u) \/ FindChildRoot(u) \/ FindParentRoot(u)
  BY <1>1, <1>2, <1>3 DEF WalkUp, FindChildRoot, FindParentRoot
<1>4. CASE BeginLock(u) \/ BeginClear(u)
  BY <1>1, <1>2, <1>4 DEF BeginLock, BeginClear, Snapshot
<1>5. ASSUME NEW p \in Pub, LockRow(u, p) \/ ClearRow(u, p)
      PROVE  /\ pc'[t] = pc[t] /\ cur'[t] = cur[t] /\ childRoot'[t] = childRoot[t]
             /\ parentRoot'[t] = parentRoot[t] /\ roots'[t] = roots[t] /\ todo'[t] = todo[t]
             /\ cleared'[t] = cleared[t] /\ elected'[t] = elected[t]
             /\ \A x \in Pub : lock'[x] = t <=> lock[x] = t
  BY <1>1, <1>5 DEF LockRow, ClearRow
<1>6. CASE SetParent(u) \/ ElectLeaf(u) \/ SetLatest(u)
  BY <1>1, <1>2, <1>6 DEF SetParent, ElectLeaf, SetLatest
<1>7. CASE Commit(u) \/ DeadlockVictim(u)
  BY <1>1, <1>2, <1>7 DEF Commit, DeadlockVictim, Aborted
<1>8. QED
  BY <1>2, <1>3, <1>4, <1>5, <1>6, <1>7 DEF Step, Statement

LEMMA RowsFrame ==
    ASSUME NEW u \in Linker, Step(u)
    PROVE  Commit(u) \/ UNCHANGED rowVars
BY DEF Step, Statement, DeadlockVictim, Aborted, WalkUp, FindChildRoot, FindParentRoot,
       BeginLock, BeginClear, Snapshot, LockRow, ClearRow, SetParent, ElectLeaf, SetLatest

\* A commit is the step the atomic link makes.
LEMMA CommitStep ==
    ASSUME LinkIInv, NEW u \in Linker, Commit(u)
    PROVE  /\ done[u] < Len(Links[u]) /\ pc[u] = "commit" /\ lock[Child(u)] = u
           /\ Child(u) \in Pub /\ Parent(u) \in Pub
           /\ parent' = Linked(parent, Child(u), Parent(u))
           /\ latest' = LatestAfterLink(parent, latest, Child(u), Parent(u))
           /\ parent' \in ParentMap
           /\ \A p \in Pub \ {Child(u)} : parent'[p] = parent[p]
<1>1. pc[u] = "commit" /\ LinkInv(u) /\ TypeOK
  BY DEF Commit, Jump, LinkIInv
<1>2. done[u] < Len(Links[u]) /\ lock[Child(u)] = u
  BY <1>1 DEF LinkInv, Ended
<1>3. parent' = Linked(parent, Child(u), Parent(u))
  BY <1>1 DEF Commit, Seen
<1>4. /\ Child(u) \in Pub /\ Parent(u) \in Pub
      /\ Root(parent, Parent(u)) = parentRoot[u]
      /\ BothLineages(u) = Cleared(parent, Child(u), Parent(u))
  BY <1>1, HeldLineages DEF AboveBoth, AboveChild
<1>5. /\ cleared[u] = BothLineages(u)
      /\ elected[u] = LatestLeaf(Linked(parent, Child(u), Parent(u)), parentRoot[u])
  BY <1>1 DEF LinkInv, Account
<1>6. latest' = LatestAfterLink(parent, latest, Child(u), Parent(u))
  BY <1>4, <1>5 DEF Commit, LatestAfterLink
<1>7. parent' \in ParentMap /\ \A p \in Pub \ {Child(u)} : parent'[p] = parent[p]
  BY <1>1, <1>3, <1>4 DEF TypeOK, ParentMap, Linked
<1>8. QED
  BY <1>1, <1>2, <1>3, <1>4, <1>6, <1>7

\* A locked root and its lineage are out of reach of another run's commit.
LEMMA OthersLineage ==
    ASSUME LinkIInv, NEW u \in Linker, Commit(u), NEW t \in Linker \ {u},
           NEW r \in Pub, lock[r] = t, parent[r] = NoPub
    PROVE  /\ r \notin Cleared(parent, Child(u), Parent(u)) /\ parent'[r] = NoPub
           /\ Subtree(parent', r) = Subtree(parent, r)
           /\ Subtree(parent, r) \cap Cleared(parent, Child(u), Parent(u)) = {}
<1> DEFINE c == Child(u)
           p == Parent(u)
           C == Cleared(parent, c, p)
<1>1. /\ pc[u] = "commit" /\ lock[c] = u /\ c \in Pub /\ p \in Pub
      /\ parent' = Linked(parent, c, p) /\ parent' \in ParentMap
      /\ \A q \in Pub \ {c} : parent'[q] = parent[q]
  BY CommitStep
<1>2. parent \in ParentMap /\ Acyclic(parent)
  BY MapsAcyclic
<1>3. /\ Root(parent, c) = childRoot[u] /\ Root(parent, p) = parentRoot[u]
      /\ lock[childRoot[u]] = u /\ lock[parentRoot[u]] = u
  BY <1>1, HeldLineages DEF AboveBoth, AboveChild
<1> HIDE DEF c, p
<1>4. /\ C \in SUBSET Pub /\ c \in C
      /\ ClosedUnderChildren(Linked(parent, c, p), C)
      /\ \A q \in C : Linked(parent, c, p)[q] \in C \cup {NoPub}
  BY <1>1, <1>2, ClearedIsClosed, RootExists DEF Cleared
<1>5. /\ ClosedUnderChildren(parent, C)
      /\ \A q \in C : parent[q] \in C \cup {NoPub}
      /\ \A q \in C : parent[q] = NoPub => q \in {Root(parent, c), Root(parent, p)}
  BY <1>1, <1>2, ClearedWasClosed
<1> HIDE DEF C
<1>6. r \notin C /\ r # c
  BY <1>1, <1>3, <1>5
<1>7. \A q \in C : parent[q] \in C \cup {NoPub} /\ parent'[q] \in C \cup {NoPub}
  BY <1>1, <1>4, <1>5
<1>8. ClosedUnderChildren(parent', C)
  BY <1>1, <1>4
<1>9. \A q \in Pub \ C : parent[q] = parent'[q]
  BY <1>1, <1>4
<1>10. Subtree(parent, r) \cap C = {} /\ Subtree(parent', r) = Subtree(parent, r)
  BY <1>1, <1>2, <1>4, <1>5, <1>6, <1>7, <1>8, <1>9, UntouchedLineage
<1>11. QED
  BY <1>1, <1>6, <1>10 DEF C, c, p

\* So is the election that reads the lineage with the link at hand.
LEMMA OthersElection ==
    ASSUME LinkIInv, NEW u \in Linker, Commit(u), NEW t \in Linker \ {u}, pc[t] \in AboveBoth
    PROVE  LatestLeaf(Linked(parent', Child(t), Parent(t)), parentRoot[t])
               = LatestLeaf(Linked(parent, Child(t), Parent(t)), parentRoot[t])
<1> DEFINE c == Child(u)
           p == Parent(u)
           C == Cleared(parent, c, p)
           a == Child(t)
           b == Parent(t)
           r == parentRoot[t]
           old == Linked(parent, a, b)
           new == Linked(parent', a, b)
<1>1. /\ pc[u] = "commit" /\ c \in Pub /\ p \in Pub
      /\ parent' = Linked(parent, c, p) /\ parent' \in ParentMap
      /\ \A q \in Pub \ {c} : parent'[q] = parent[q]
  BY CommitStep
<1>2. parent \in ParentMap /\ Acyclic(parent)
  BY MapsAcyclic
<1>3. /\ a \in Pub /\ b \in Pub /\ r \in Pub /\ r \notin C
      /\ a \notin C /\ b \notin C
  <2>1. /\ a \in Subtree(parent, childRoot[t]) /\ b \in Subtree(parent, r)
        /\ childRoot[t] \in Pub /\ r \in Pub /\ lock[childRoot[t]] = t /\ lock[r] = t
        /\ parent[childRoot[t]] = NoPub /\ parent[r] = NoPub
        /\ a \in Pub /\ b \in Pub
    BY HeldLineages
  <2>2. Subtree(parent, childRoot[t]) \cap C = {} /\ Subtree(parent, r) \cap C = {} /\ r \notin C
    BY <2>1, OthersLineage
  <2>3. QED
    BY <2>1, <2>2
<1> HIDE DEF c, p, a, b, r
<1>4. /\ C \in SUBSET Pub /\ c \in C
      /\ ClosedUnderChildren(Linked(parent, c, p), C)
      /\ \A q \in C : Linked(parent, c, p)[q] \in C \cup {NoPub}
  BY <1>1, <1>2, ClearedIsClosed, RootExists DEF Cleared
<1>5. /\ ClosedUnderChildren(parent, C)
      /\ \A q \in C : parent[q] \in C \cup {NoPub}
  BY <1>1, <1>2, ClearedWasClosed
<1> HIDE DEF C
<1>6. /\ old \in ParentMap /\ \A q \in Pub : old[q] = IF q = a THEN b ELSE parent[q]
      /\ new \in ParentMap /\ \A q \in Pub : new[q] = IF q = a THEN b ELSE parent'[q]
  BY <1>1, <1>2, <1>3 DEF Linked, ParentMap
<1> HIDE DEF old, new
<1>7. \A q \in C : old[q] \in C \cup {NoPub} /\ new[q] \in C \cup {NoPub}
  BY <1>1, <1>3, <1>4, <1>5, <1>6
<1>8. ClosedUnderChildren(old, C) /\ ClosedUnderChildren(new, C)
  BY <1>1, <1>3, <1>4, <1>5, <1>6 DEF ClosedUnderChildren
<1>9. \A q \in Pub \ C : old[q] = new[q]
  BY <1>1, <1>4, <1>6
<1>10. LatestLeaf(new, r) = LatestLeaf(old, r)
  BY <1>3, <1>4, <1>6, <1>7, <1>8, <1>9, UntouchedLineage
<1>11. QED
  BY <1>10 DEF old, new, a, b, r

LEMMA LockedParentsKept ==
    ASSUME LinkIInv, NEW u \in Linker, Step(u), NEW t \in Linker \ {u}
    PROVE  \A x \in Pub : lock[x] = t => parent'[x] = parent[x]
<1>1. CASE UNCHANGED rowVars
  BY <1>1 DEF rowVars
<1>2. CASE Commit(u)
  BY <1>2, CommitStep
<1>3. QED
  BY <1>1, <1>2, RowsFrame

LEMMA HeldKept ==
    ASSUME LinkIInv, NEW u \in Linker, Step(u), NEW t \in Linker \ {u}, NEW a, NEW b
    PROVE  /\ PathUp(lock, parent, t, a, b) => PathUp(lock', parent', t, a, b)
           /\ Held(lock, parent, t, a, b) => Held(lock', parent', t, a, b)
<1>1. \A x \in Pub : lock'[x] = t <=> lock[x] = t
  BY OthersUntouched
<1>2. \A x \in Pub : lock[x] = t => parent'[x] = parent[x]
  BY LockedParentsKept
<1>3. PathUp(lock, parent, t, a, b) => PathUp(lock', parent', t, a, b)
  BY <1>1, <1>2 DEF PathUp
<1>4. QED
  BY <1>1, <1>2, <1>3 DEF Held

LEMMA LinkInvOthers ==
    ASSUME LinkIInv, NEW u \in Linker, Step(u), NEW t \in Linker \ {u}
    PROVE  LinkInv(t)'
<1>1. /\ pc'[t] = pc[t] /\ cur'[t] = cur[t] /\ childRoot'[t] = childRoot[t]
      /\ parentRoot'[t] = parentRoot[t] /\ roots'[t] = roots[t] /\ todo'[t] = todo[t]
      /\ cleared'[t] = cleared[t] /\ elected'[t] = elected[t] /\ done'[t] = done[t]
      /\ \A p \in Pub : lock'[p] = t <=> lock[p] = t
  BY OthersUntouched
<1>2. Child(t)' = Child(t) /\ Parent(t)' = Parent(t)
  BY <1>1 DEF Child, Parent
<1>3. LinkInv(t)
  BY DEF LinkIInv
<1>4. pc[t] = "walkChild" => PathUp(lock, parent, t, Child(t), cur[t])'
  <2>1. \A a, b : PathUp(lock, parent, t, a, b) => PathUp(lock', parent', t, a, b)
    BY HeldKept
  <2>2. QED
    BY <1>1, <1>2, <1>3, <2>1 DEF LinkInv
<1>5. pc[t] = "walkParent" => PathUp(lock, parent, t, Parent(t), cur[t])'
  <2>1. \A a, b : PathUp(lock, parent, t, a, b) => PathUp(lock', parent', t, a, b)
    BY HeldKept
  <2>2. QED
    BY <1>1, <1>2, <1>3, <2>1 DEF LinkInv
<1>6. pc[t] \in AboveChild => Held(lock, parent, t, Child(t), childRoot[t])'
  <2>1. \A a, b : Held(lock, parent, t, a, b) => Held(lock', parent', t, a, b)
    BY HeldKept
  <2>2. QED
    BY <1>1, <1>2, <1>3, <2>1 DEF LinkInv
<1>7. pc[t] \in AboveBoth => Held(lock, parent, t, Parent(t), parentRoot[t])'
  <2>1. \A a, b : Held(lock, parent, t, a, b) => Held(lock', parent', t, a, b)
    BY HeldKept
  <2>2. QED
    BY <1>1, <1>2, <1>3, <2>1 DEF LinkInv
<1>8. ASSUME pc[t] \in AboveBoth
      PROVE  /\ Subtree(parent', childRoot[t]) = Subtree(parent, childRoot[t])
             /\ Subtree(parent', parentRoot[t]) = Subtree(parent, parentRoot[t])
             /\ LatestLeaf(Linked(parent', Child(t), Parent(t)), parentRoot[t])
                    = LatestLeaf(Linked(parent, Child(t), Parent(t)), parentRoot[t])
  <2>1. CASE UNCHANGED rowVars
    BY <2>1 DEF rowVars
  <2>2. CASE Commit(u)
    <3>1. /\ childRoot[t] \in Pub /\ parentRoot[t] \in Pub
          /\ lock[childRoot[t]] = t /\ lock[parentRoot[t]] = t
          /\ parent[childRoot[t]] = NoPub /\ parent[parentRoot[t]] = NoPub
      BY <1>8, HeldLineages
    <3>2. /\ Subtree(parent', childRoot[t]) = Subtree(parent, childRoot[t])
          /\ Subtree(parent', parentRoot[t]) = Subtree(parent, parentRoot[t])
      BY <2>2, <3>1, OthersLineage
    <3>3. QED
      BY <1>8, <2>2, <3>2, OthersElection
  <2>3. QED
    BY <2>1, <2>2, RowsFrame
<1>9. Account(t)'
  <2>1. Account(t)
    BY <1>3 DEF LinkInv
  <2>2. CASE pc[t] \in AboveBoth
    <3>1. BothLineages(t)' = BothLineages(t)
      BY <1>1, <1>8, <2>2 DEF BothLineages
    <3>2. ASSUME pc[t] \in {"snapshotLock", "lockRows", "snapshotClear", "clearRows"}
          PROVE  Pending(t, 1)' = Pending(t, 1) /\ Pending(t, 2)' = Pending(t, 2)
      <4>1. \A i \in DOMAIN roots[t] : roots[t][i] \in {childRoot[t], parentRoot[t]}
        BY <2>1, <3>2 DEF Account
      <4>2. \A i \in DOMAIN roots[t] : Subtree(parent', roots[t][i]) = Subtree(parent, roots[t][i])
        BY <1>8, <2>2, <4>1
      <4>3. QED
        BY <1>1, <4>2 DEF Pending
    <3>3. QED
      BY <1>1, <2>1, <3>1, <3>2 DEF Account
  <2>3. CASE pc[t] \notin AboveBoth
    BY <1>1, <2>1, <2>3 DEF Account, AboveBoth, AboveChild
  <2>4. QED
    BY <2>2, <2>3
<1>10. pc[t] \in {"electLeaf", "setLatest", "commit"} => lock'[Child(t)] = t
  <2>1. CASE pc[t] \in AboveBoth
    <3>1. Child(t) \in Pub
      BY <2>1, HeldLineages
    <3>2. QED
      BY <1>1, <1>3, <3>1 DEF LinkInv
  <2>2. QED
    BY <2>1 DEF AboveBoth, AboveChild
<1>11. pc[t] \in {"setLatest", "commit"} =>
           elected[t] = LatestLeaf(Linked(parent', Child(t), Parent(t)), parentRoot[t])
  BY <1>3, <1>8 DEF LinkInv, AboveBoth, AboveChild
<1>12. /\ ~ Ended(t)' => done'[t] < Len(Links[t])
       /\ pc'[t] = "end" => done'[t] = Len(Links[t])
       /\ Ended(t)' => \A p \in Pub : lock'[p] # t
  BY <1>1, <1>3 DEF LinkInv, Ended
<1>13. QED
  BY <1>1, <1>2, <1>4, <1>5, <1>6, <1>7, <1>9, <1>10, <1>11, <1>12 DEF LinkInv

-----------------------------------------------------------------------------
(* What a step of a transaction does to itself.                            *)

\* Taking more locks loses no way up and no root.
LEMMA HeldGrows ==
    ASSUME NEW lk, NEW more, NEW par, NEW t, \A x \in Pub : lk[x] = t => more[x] = t,
           NEW a, NEW b
    PROVE  /\ PathUp(lk, par, t, a, b) => PathUp(more, par, t, a, b)
           /\ Held(lk, par, t, a, b) => Held(more, par, t, a, b)
BY DEF PathUp, Held

LEMMA PathStart ==
    ASSUME NEW lk, NEW par, NEW t, NEW a
    PROVE  PathUp(lk, par, t, a, a)
BY DEF PathUp

LEMMA PathMoves ==
    ASSUME NEW lk, NEW par, NEW t, NEW a, NEW b \in Pub,
           PathUp(lk, par, t, a, b), lk[b] = t, par[b] # NoPub
    PROVE  PathUp(lk, par, t, a, par[b])
BY DEF PathUp

LEMMA TakeLocks ==
    ASSUME TypeOK, NEW t \in Linker, NEW p \in Pub, Take(t, p)
    PROVE  /\ lock' \in [Pub -> Linker \cup {NoLinker}] /\ lock'[p] = t
           /\ \A x \in Pub : lock[x] = t => lock'[x] = t
BY DEF TypeOK, Take

\* Until it commits, a transaction changes no committed row and releases no lock.
LEMMA OwnFrame ==
    ASSUME LinkIInv, NEW t \in Linker, Statement(t), ~ Commit(t)
    PROVE  /\ parent' = parent /\ latest' = latest /\ done' = done
           /\ Child(t)' = Child(t) /\ Parent(t)' = Parent(t)
           /\ \A x \in Pub : lock[x] = t => lock'[x] = t
<1>1. parent' = parent /\ latest' = latest /\ done' = done
  BY DEF Statement, WalkUp, FindChildRoot, FindParentRoot, BeginLock, BeginClear, Snapshot,
     LockRow, ClearRow, SetParent, ElectLeaf, SetLatest, rowVars
<1>2. lock' = lock \/ \E p : Take(t, p)
  BY DEF Statement, WalkUp, FindChildRoot, FindParentRoot, BeginLock, BeginClear, Snapshot,
     LockRow, ClearRow, SetParent, ElectLeaf, SetLatest
<1>3. \A x \in Pub : lock[x] = t => lock'[x] = t
  BY <1>2 DEF Take, LinkIInv, TypeOK
<1>4. QED
  BY <1>1, <1>3 DEF Child, Parent

LEMMA ElectedTyped ==
    ASSUME LinkIInv, NEW t \in Linker, pc[t] \in AboveBoth
    PROVE  LatestLeaf(Linked(parent, Child(t), Parent(t)), parentRoot[t]) \in Pub
<1> DEFINE new == Linked(parent, Child(t), Parent(t))
<1>1. LinkInv(t)
  BY DEF LinkIInv
<1>2. done[t] < Len(Links[t])
  BY <1>1 DEF LinkInv, Ended, AboveBoth, AboveChild
<1>3. Acyclic(new) /\ parentRoot[t] \in Pub
  BY <1>2, MapsAcyclic, HeldLineages
<1> HIDE DEF new
<1>4. LatestLeaf(new, parentRoot[t]) \in Leaves(new, parentRoot[t])
  BY <1>3, LatestLeafExists
<1>5. QED
  BY <1>4 DEF Leaves, Subtree, new

LEMMA WalkSelf ==
    ASSUME LinkIInv, NEW t \in Linker, WalkUp(t) \/ FindChildRoot(t) \/ FindParentRoot(t)
    PROVE  LinkInv(t)'
<1>1. /\ LinkInv(t) /\ TypeOK /\ t # NoLinker
      /\ pc \in [Linker -> Phases] /\ cur \in [Linker -> Pub \cup {NoPub}]
      /\ childRoot \in [Linker -> Pub \cup {NoPub}]
      /\ parentRoot \in [Linker -> Pub \cup {NoPub}]
      /\ roots \in [Linker -> Seq(Pub)]
  BY LinkAssumption DEF LinkIInv, TypeOK
<1>2. /\ pc[t] \in {"walkChild", "walkParent"} /\ Take(t, cur[t])
      /\ cleared' = cleared /\ elected' = elected /\ todo' = todo
  BY DEF WalkUp, FindChildRoot, FindParentRoot, Jump
<1>3. cur[t] \in Pub
  BY <1>1, <1>2 DEF TypeOK
<1>4. /\ parent' = parent /\ done' = done
      /\ Child(t)' = Child(t) /\ Parent(t)' = Parent(t)
      /\ \A x \in Pub : lock[x] = t => lock'[x] = t
      /\ lock'[cur[t]] = t
  <2>1. ~ Commit(t)
    BY <1>2 DEF Commit, Jump
  <2>2. Statement(t)
    BY DEF Statement
  <2>3. QED
    BY <1>1, <1>2, <1>3, <2>1, <2>2, OwnFrame, TakeLocks
<1>5. \A a, b : /\ PathUp(lock, parent, t, a, b) => PathUp(lock', parent, t, a, b)
                /\ Held(lock, parent, t, a, b) => Held(lock', parent, t, a, b)
  BY <1>4, HeldGrows
<1>6. /\ done[t] < Len(Links[t]) /\ cleared[t] = {}
      /\ pc[t] = "walkChild" => PathUp(lock', parent, t, Child(t), cur[t])
      /\ pc[t] = "walkParent" => /\ PathUp(lock', parent, t, Parent(t), cur[t])
                                 /\ Held(lock', parent, t, Child(t), childRoot[t])
  BY <1>1, <1>2, <1>5 DEF LinkInv, Account, Ended, AboveChild
<1>7. CASE WalkUp(t)
  <2>1. /\ pc' = pc /\ cur'[t] = parent[cur[t]] /\ parent[cur[t]] # NoPub
        /\ childRoot' = childRoot
    BY <1>1, <1>7 DEF WalkUp
  <2>2. \A a : PathUp(lock', parent, t, a, cur[t]) => PathUp(lock', parent, t, a, parent[cur[t]])
    BY <1>3, <1>4, <2>1, PathMoves
  <2>3. QED
    BY <1>2, <1>4, <1>6, <2>1, <2>2 DEF LinkInv, Account, Ended, AboveBoth, AboveChild
<1>8. CASE FindChildRoot(t)
  <2>1. /\ pc[t] = "walkChild" /\ pc'[t] = "walkParent" /\ childRoot'[t] = cur[t]
        /\ cur'[t] = Parent(t) /\ parent[cur[t]] = NoPub
    BY <1>1, <1>8 DEF FindChildRoot, Jump, AtRoot
  <2>2. Held(lock', parent, t, Child(t), cur[t])
    BY <1>3, <1>4, <1>6, <2>1 DEF Held
  <2>3. PathUp(lock', parent, t, Parent(t), Parent(t))
    BY PathStart
  <2>4. QED
    BY <1>2, <1>4, <1>6, <2>1, <2>2, <2>3 DEF LinkInv, Account, Ended, AboveBoth, AboveChild
<1>9. CASE FindParentRoot(t)
  <2>1. /\ pc[t] = "walkParent" /\ pc'[t] = "snapshotLock" /\ parentRoot'[t] = cur[t]
        /\ childRoot' = childRoot /\ parent[cur[t]] = NoPub
        /\ roots'[t] = RootsToClear(childRoot[t], cur[t])
    BY <1>1, <1>9 DEF FindParentRoot, Jump, AtRoot
  <2>2. Held(lock', parent, t, Parent(t), cur[t])
    BY <1>3, <1>4, <1>6, <2>1 DEF Held
  <2>3. /\ Len(roots'[t]) \in {1, 2}
        /\ \A i \in DOMAIN roots'[t] : roots'[t][i] \in {childRoot[t], cur[t]}
        /\ \E i \in DOMAIN roots'[t] : 1 <= i /\ roots'[t][i] = childRoot[t]
        /\ \E i \in DOMAIN roots'[t] : 1 <= i /\ roots'[t][i] = cur[t]
    BY <2>1 DEF RootsToClear
  <2>4. BothLineages(t)' = Pending(t, 1)'
    <3>1. Subtree(parent, childRoot[t]) \cup Subtree(parent, cur[t])
              = {x \in Pub : \E i \in DOMAIN roots'[t] :
                                1 <= i /\ x \in Subtree(parent, roots'[t][i])}
      <4>1. Subtree(parent, childRoot[t]) \subseteq Pub /\ Subtree(parent, cur[t]) \subseteq Pub
        BY DEF Subtree
      <4>2. QED
        BY <2>3, <4>1
    <3>2. QED
      BY <1>4, <2>1, <3>1 DEF BothLineages, Pending
  <2>5. Account(t)'
    BY <1>2, <1>6, <2>1, <2>3, <2>4 DEF Account
  <2>6. QED
    BY <1>2, <1>4, <1>6, <2>1, <2>2, <2>5 DEF LinkInv, Ended, AboveBoth, AboveChild
<1>10. QED
  BY <1>7, <1>8, <1>9

\* Between both roots and the commit, what was held stays held.
LEMMA HoldingSelf ==
    ASSUME LinkIInv, NEW t \in Linker, Statement(t), pc[t] \in AboveBoth, pc'[t] \in AboveBoth,
           childRoot' = childRoot, parentRoot' = parentRoot
    PROVE  /\ parent' = parent /\ done' = done
           /\ Child(t)' = Child(t) /\ Parent(t)' = Parent(t)
           /\ \A x \in Pub : lock[x] = t => lock'[x] = t
           /\ Held(lock', parent', t, Child(t)', childRoot'[t])
           /\ Held(lock', parent', t, Parent(t)', parentRoot'[t])
           /\ BothLineages(t)' = BothLineages(t)
           /\ done[t] < Len(Links[t])
<1>1. LinkInv(t) /\ pc \in [Linker -> Phases]
  BY DEF LinkIInv, TypeOK
<1>2. ~ Commit(t)
  BY <1>1 DEF Commit, Jump, FirstPhase, AboveBoth, AboveChild
<1>3. /\ parent' = parent /\ done' = done
      /\ Child(t)' = Child(t) /\ Parent(t)' = Parent(t)
      /\ \A x \in Pub : lock[x] = t => lock'[x] = t
  BY <1>2, OwnFrame
<1>4. /\ Held(lock, parent, t, Child(t), childRoot[t])
      /\ Held(lock, parent, t, Parent(t), parentRoot[t])
      /\ done[t] < Len(Links[t])
  BY <1>1 DEF LinkInv, Ended, AboveBoth, AboveChild
<1>5. /\ Held(lock', parent, t, Child(t), childRoot[t])
      /\ Held(lock', parent, t, Parent(t), parentRoot[t])
  BY <1>3, <1>4, HeldGrows
<1>6. BothLineages(t)' = BothLineages(t)
  BY <1>3 DEF BothLineages
<1>7. QED
  BY <1>3, <1>4, <1>5, <1>6

LEMMA TailOfTwo ==
    ASSUME NEW s \in Seq(Pub), Len(s) = 2
    PROVE  /\ Len(Tail(s)) = 1 /\ Tail(s)[1] = s[2] /\ DOMAIN Tail(s) = {1}
           /\ DOMAIN s = {1, 2}
<1>1. s # << >>
  OBVIOUS
<1>2. /\ Tail(s) \in Seq(Pub) /\ Len(Tail(s)) = Len(s) - 1
      /\ \A i \in 1 .. Len(Tail(s)) : Tail(s)[i] = s[i + 1]
  BY <1>1, HeadTailProperties
<1>3. Len(Tail(s)) = 1
  BY <1>2
<1>4. DOMAIN s = 1..2 /\ DOMAIN Tail(s) = 1..1
  BY <1>2, <1>3, LenProperties
<1>5. QED
  BY <1>2, <1>3, <1>4

LEMMA LockSelf ==
    ASSUME LinkIInv, NEW t \in Linker,
           BeginLock(t) \/ BeginClear(t) \/ (\E p \in Pub : LockRow(t, p) \/ ClearRow(t, p))
    PROVE  LinkInv(t)'
<1> DEFINE before == {"snapshotLock", "lockRows", "snapshotClear"}
<1>1. /\ LinkInv(t) /\ Account(t)
      /\ pc \in [Linker -> Phases] /\ roots \in [Linker -> Seq(Pub)]
      /\ todo \in [Linker -> SUBSET Pub] /\ cleared \in [Linker -> SUBSET Pub]
  BY DEF LinkIInv, LinkInv, TypeOK
<1>2. /\ Statement(t)
      /\ pc[t] \in before \cup {"clearRows"} /\ pc'[t] \in before \cup {"clearRows", "setParent"}
      /\ childRoot' = childRoot /\ parentRoot' = parentRoot
  BY <1>1 DEF Statement, BeginLock, BeginClear, Snapshot, LockRow, ClearRow, Jump
<1>3. /\ parent' = parent /\ done' = done
      /\ Child(t)' = Child(t) /\ Parent(t)' = Parent(t)
      /\ Held(lock', parent', t, Child(t)', childRoot'[t])
      /\ Held(lock', parent', t, Parent(t)', parentRoot'[t])
      /\ BothLineages(t)' = BothLineages(t)
      /\ done[t] < Len(Links[t])
  BY <1>2, HoldingSelf DEF AboveBoth, AboveChild
<1>4. /\ Len(roots[t]) \in {1, 2}
      /\ \A i \in DOMAIN roots[t] : roots[t][i] \in {childRoot[t], parentRoot[t]}
      /\ roots[t] \in Seq(Pub)
  BY <1>1, <1>2 DEF Account
<1>5. Account(t)'
  <2>1. CASE BeginLock(t) \/ \E p \in Pub : LockRow(t, p)
    <3>1. /\ pc[t] \in {"snapshotLock", "lockRows"} /\ pc'[t] \in {"lockRows", "snapshotClear"}
          /\ roots' = roots /\ cleared' = cleared
      BY <1>1, <2>1 DEF BeginLock, Snapshot, LockRow, Jump
    <3>2. Pending(t, 1)' = Pending(t, 1)
      BY <1>3, <3>1 DEF Pending
    <3>3. QED
      BY <1>1, <1>2, <1>3, <1>4, <3>1, <3>2 DEF Account
  <2>2. CASE BeginClear(t)
    <3>1. /\ pc[t] = "snapshotClear" /\ pc'[t] = "clearRows" /\ roots' = roots
          /\ cleared' = cleared /\ todo'[t] = Subtree(parent, Head(roots[t]))
      BY <1>1, <2>2 DEF BeginClear, Snapshot, Jump, Seen
    <3>2. Pending(t, 1) = Subtree(parent, roots[t][1]) \cup Pending(t, 2)
      <4>1. 1 \in DOMAIN roots[t] /\ \A i \in DOMAIN roots[t] : 1 <= i /\ (i = 1 \/ 2 <= i)
        BY <1>4
      <4>2. Subtree(parent, roots[t][1]) \subseteq Pub
        BY DEF Subtree
      <4>3. QED
        BY <4>1, <4>2 DEF Pending
    <3>3. Head(roots[t]) = roots[t][1]
      BY <1>4
    <3>4. Pending(t, 2)' = Pending(t, 2)
      BY <1>3, <3>1 DEF Pending
    <3>5. BothLineages(t)' = cleared'[t] \cup todo'[t] \cup Pending(t, 2)'
      BY <1>1, <1>3, <3>1, <3>2, <3>3, <3>4 DEF Account
    <3>6. QED
      BY <1>2, <1>4, <3>1, <3>5 DEF Account
  <2>3. ASSUME NEW p \in Pub, ClearRow(t, p)
        PROVE  Account(t)'
    <3>1. /\ pc[t] = "clearRows" /\ p \in todo[t] /\ todo'[t] = todo[t] \ {p}
          /\ cleared'[t] = cleared[t] \cup {p}
      BY <1>1, <2>3 DEF ClearRow, Jump
    <3>2. BothLineages(t) = cleared[t] \cup todo[t] \cup Pending(t, 2)
      BY <1>1, <3>1 DEF Account
    <3>3. CASE todo[t] # {p}
      <4>1. pc'[t] = "clearRows" /\ roots' = roots
        BY <1>1, <2>3, <3>3 DEF ClearRow, Jump
      <4>2. Pending(t, 2)' = Pending(t, 2)
        BY <1>3, <4>1 DEF Pending
      <4>3. BothLineages(t)' = cleared'[t] \cup todo'[t] \cup Pending(t, 2)'
        BY <1>3, <3>1, <3>2, <4>2
      <4>4. QED
        BY <1>2, <1>4, <4>1, <4>3 DEF Account
    <3>4. CASE todo[t] = {p} /\ Len(roots[t]) = 2
      <4>1. pc'[t] = "snapshotLock" /\ roots'[t] = Tail(roots[t])
        BY <1>1, <2>3, <3>4 DEF ClearRow, Jump
      <4>2. /\ Len(roots'[t]) = 1 /\ roots'[t][1] = roots[t][2] /\ DOMAIN roots'[t] = {1}
            /\ DOMAIN roots[t] = {1, 2}
        BY <1>4, <3>4, <4>1, TailOfTwo
      <4>3. Pending(t, 1)' = Pending(t, 2)
        BY <1>3, <4>2 DEF Pending
      <4>4. BothLineages(t)' = cleared'[t] \cup Pending(t, 1)'
        BY <1>3, <3>1, <3>2, <3>4, <4>3
      <4>5. QED
        BY <1>2, <1>4, <4>1, <4>2, <4>4 DEF Account
    <3>5. CASE todo[t] = {p} /\ Len(roots[t]) = 1
      <4>1. pc'[t] = "setParent"
        BY <1>1, <2>3, <3>5 DEF ClearRow, Jump
      <4>2. \A i \in DOMAIN roots[t] : ~ (2 <= i)
        BY <1>4, <3>5
      <4>3. Pending(t, 2) = {}
        BY <4>2 DEF Pending
      <4>4. BothLineages(t)' = cleared'[t]
        BY <1>3, <3>1, <3>2, <3>5, <4>3
      <4>5. QED
        BY <4>1, <4>4 DEF Account
    <3>6. QED
      BY <1>4, <3>3, <3>4, <3>5
  <2>4. QED
    BY <2>1, <2>2, <2>3
<1>6. QED
  BY <1>2, <1>3, <1>5 DEF LinkInv, Ended, AboveBoth, AboveChild

LEMMA WriteSelf ==
    ASSUME LinkIInv, NEW t \in Linker, SetParent(t) \/ ElectLeaf(t) \/ SetLatest(t)
    PROVE  LinkInv(t)'
<1> DEFINE leaf == LatestLeaf(Linked(parent, Child(t), Parent(t)), parentRoot[t])
<1>1. /\ LinkInv(t) /\ Account(t) /\ TypeOK
      /\ pc \in [Linker -> Phases] /\ elected \in [Linker -> Pub \cup {NoPub}]
  BY DEF LinkIInv, LinkInv, TypeOK
<1>2. /\ Statement(t) /\ pc[t] \in {"setParent", "electLeaf", "setLatest"}
      /\ pc'[t] \in {"electLeaf", "setLatest", "commit"}
      /\ pc'[t] = "electLeaf" <=> pc[t] = "setParent"
      /\ childRoot' = childRoot /\ parentRoot' = parentRoot /\ cleared' = cleared
  BY <1>1 DEF Statement, SetParent, ElectLeaf, SetLatest, Jump, txVars
<1>3. /\ parent' = parent /\ done' = done
      /\ Child(t)' = Child(t) /\ Parent(t)' = Parent(t)
      /\ \A x \in Pub : lock[x] = t => lock'[x] = t
      /\ Held(lock', parent', t, Child(t)', childRoot'[t])
      /\ Held(lock', parent', t, Parent(t)', parentRoot'[t])
      /\ BothLineages(t)' = BothLineages(t)
      /\ done[t] < Len(Links[t])
  BY <1>2, HoldingSelf DEF AboveBoth, AboveChild
<1>4. Account(t)'
  BY <1>1, <1>2, <1>3 DEF Account
<1>5. lock'[Child(t)] = t
  <2>1. Child(t) \in Pub
    BY <1>2, HeldLineages DEF AboveBoth, AboveChild
  <2>2. CASE SetParent(t)
    BY <1>1, <2>1, <2>2, TakeLocks DEF SetParent
  <2>3. CASE ElectLeaf(t) \/ SetLatest(t)
    <3>1. lock[Child(t)] = t
      BY <1>1, <2>3 DEF ElectLeaf, SetLatest, Jump, LinkInv
    <3>2. QED
      BY <1>3, <2>1, <3>1
  <2>4. QED
    BY <2>2, <2>3
<1>6. pc'[t] \in {"setLatest", "commit"} => elected'[t] = leaf
  <2>1. CASE SetParent(t)
    BY <1>2, <2>1 DEF SetParent, Jump
  <2>2. CASE ElectLeaf(t)
    BY <1>1, <2>2 DEF ElectLeaf, Jump, Seen
  <2>3. CASE SetLatest(t)
    BY <1>1, <2>3 DEF SetLatest, Jump, txVars, LinkInv
  <2>4. QED
    BY <2>1, <2>2, <2>3
<1> HIDE DEF leaf
<1>7. leaf = LatestLeaf(Linked(parent', Child(t)', Parent(t)'), parentRoot'[t])
  BY <1>2, <1>3 DEF leaf
<1>8. QED
  BY <1>2, <1>3, <1>4, <1>5, <1>6, <1>7 DEF LinkInv, Ended, AboveBoth, AboveChild

LEMMA EndSelf ==
    ASSUME LinkIInv, NEW t \in Linker, Commit(t) \/ DeadlockVictim(t)
    PROVE  LinkInv(t)'
<1>1. /\ LinkInv(t) /\ t # NoLinker
      /\ pc \in [Linker -> Phases] /\ cur \in [Linker -> Pub \cup {NoPub}]
      /\ cleared \in [Linker -> SUBSET Pub] /\ done \in [Linker -> Nat]
  BY LinkAssumption DEF LinkIInv, TypeOK
<1>2. \A p \in Pub : lock'[p] # t
  <2>1. lock' = [p \in Pub |-> IF lock[p] = t THEN NoLinker ELSE lock[p]]
    BY DEF Commit, DeadlockVictim, Aborted, Release
  <2>2. QED
    BY <1>1, <2>1
<1>3. CASE Commit(t)
  <2> DEFINE n == done[t] + 1
  <2>1. n \in Nat /\ n <= Len(Links[t]) /\ Len(Links[t]) \in Nat
    <3>1. Len(Links[t]) \in Nat
      BY LinkAssumption
    <3>2. QED
      BY <1>1, <1>3, <3>1, CommitStep
  <2>2. /\ done'[t] = n /\ cleared'[t] = {}
        /\ pc'[t] = IF n < Len(Links[t]) THEN "walkChild" ELSE "end"
        /\ n < Len(Links[t]) => cur'[t] = Links[t][n + 1][1]
    BY <1>1, <1>3 DEF Commit, Jump, FirstPhase
  <2>3. Child(t)' = Links[t][n + 1][1]
    BY <2>2 DEF Child
  <2> HIDE DEF n
  <2>4. n < Len(Links[t]) => PathUp(lock', parent', t, Child(t)', cur'[t])
    BY <2>2, <2>3, PathStart
  <2>5. Account(t)'
    BY <2>2 DEF Account
  <2>6. QED
    BY <1>2, <1>1, <2>1, <2>2, <2>4, <2>5 DEF LinkInv, Ended, AboveBoth, AboveChild
<1>4. CASE DeadlockVictim(t)
  <2>1. pc'[t] = "aborted"
    BY <1>1, <1>4 DEF DeadlockVictim, Aborted
  <2>2. QED
    BY <1>2, <1>1, <2>1 DEF LinkInv, Account, Ended, AboveBoth, AboveChild
<1>5. QED
  BY <1>3, <1>4

-----------------------------------------------------------------------------
(* The invariant.                                                          *)

LEMMA LinkTypes ==
    ASSUME LinkIInv, NEW t \in Linker, Step(t)
    PROVE  TypeOK'
<1> USE DEF Jump, Phases, rowVars, txVars
<1>1. /\ TypeOK /\ LinkInv(t)
      /\ parent \in ParentMap /\ latest \subseteq Pub
      /\ lock \in [Pub -> Linker \cup {NoLinker}]
      /\ pc \in [Linker -> Phases]
      /\ cur \in [Linker -> Pub \cup {NoPub}] /\ childRoot \in [Linker -> Pub \cup {NoPub}]
      /\ parentRoot \in [Linker -> Pub \cup {NoPub}]
      /\ elected \in [Linker -> Pub \cup {NoPub}]
      /\ \A u \in Linker : pc[u] \in {"walkChild", "walkParent"} => cur[u] \in Pub
      /\ roots \in [Linker -> Seq(Pub)]
      /\ todo \in [Linker -> SUBSET Pub] /\ cleared \in [Linker -> SUBSET Pub]
      /\ done \in [Linker -> Nat] /\ \A u \in Linker : done[u] <= Len(Links[u])
  BY DEF LinkIInv, TypeOK
<1>2. CASE WalkUp(t)
  <2>1. /\ pc[t] \in {"walkChild", "walkParent"} /\ Take(t, cur[t]) /\ cur[t] \in Pub
        /\ cur' = [cur EXCEPT ![t] = parent[cur[t]]] /\ parent[cur[t]] \in Pub
        /\ UNCHANGED <<rowVars, pc, childRoot, parentRoot, roots, todo, cleared, elected, done>>
    BY <1>1, <1>2 DEF WalkUp, ParentMap
  <2>2. lock' \in [Pub -> Linker \cup {NoLinker}]
    BY <1>1, <2>1, TakeLocks
  <2>3. QED
    BY <1>1, <2>1, <2>2 DEF TypeOK
<1>3. CASE FindChildRoot(t)
  <2>1. cur[t] \in Pub /\ Parent(t) \in Pub
    BY <1>1, <1>3, LinkAtHand DEF FindChildRoot, LinkInv, Ended
  <2>2. lock' \in [Pub -> Linker \cup {NoLinker}]
    BY <1>1, <1>3, <2>1, TakeLocks DEF FindChildRoot
  <2>3. QED
    BY <1>1, <1>3, <2>1, <2>2 DEF TypeOK, FindChildRoot
<1>4. CASE FindParentRoot(t)
  <2>1. cur[t] \in Pub /\ childRoot[t] \in Pub
    BY <1>1, <1>4 DEF FindParentRoot, LinkInv, Held, AboveChild
  <2>2. lock' \in [Pub -> Linker \cup {NoLinker}]
    BY <1>1, <1>4, <2>1, TakeLocks DEF FindParentRoot
  <2>3. RootsToClear(childRoot[t], cur[t]) \in Seq(Pub)
    BY <2>1 DEF RootsToClear
  <2>4. QED
    BY <1>1, <1>4, <2>1, <2>2, <2>3 DEF TypeOK, FindParentRoot
<1>5. CASE BeginLock(t) \/ BeginClear(t)
  <2>1. Subtree(Seen(t), Head(roots[t])) \in SUBSET Pub
    BY DEF Subtree
  <2>2. todo' = [todo EXCEPT ![t] = Subtree(Seen(t), Head(roots[t]))]
    BY <1>5 DEF BeginLock, BeginClear, Snapshot
  <2>3. todo' \in [Linker -> SUBSET Pub]
    BY <1>1, <2>1, <2>2
  <2>4. pc' \in [Linker -> Phases] /\ (pc'[t] \in {"walkChild", "walkParent"} => FALSE)
    BY <1>1, <1>5 DEF BeginLock, BeginClear, Snapshot
  <2>5. QED
    BY <1>1, <1>5, <2>3, <2>4 DEF TypeOK, BeginLock, BeginClear, Snapshot
<1>6. ASSUME NEW p \in Pub, LockRow(t, p)
      PROVE  TypeOK'
  <2>1. lock' \in [Pub -> Linker \cup {NoLinker}]
    BY <1>1, <1>6, TakeLocks DEF LockRow
  <2>2. QED
    BY <1>1, <1>6, <2>1 DEF TypeOK, LockRow
<1>7. ASSUME NEW p \in Pub, ClearRow(t, p)
      PROVE  TypeOK'
  <2>1. lock' \in [Pub -> Linker \cup {NoLinker}]
    BY <1>1, <1>7, TakeLocks DEF ClearRow
  <2>2. roots' \in [Linker -> Seq(Pub)]
    <3>1. pc[t] = "clearRows" /\ (roots' = roots \/ roots' = [roots EXCEPT ![t] = Tail(roots[t])])
      BY <1>7 DEF ClearRow
    <3>2. Len(roots[t]) \in {1, 2} /\ roots[t] \in Seq(Pub)
      BY <1>1, <3>1 DEF LinkInv, Account
    <3>3. Tail(roots[t]) \in Seq(Pub)
      BY <3>2
    <3>4. QED
      BY <1>1, <3>1, <3>3
  <2>3. \E to \in Phases \ {"walkChild", "walkParent"} : pc' = [pc EXCEPT ![t] = to]
    BY <1>7 DEF ClearRow
  <2>4. /\ pc' \in [Linker -> Phases]
        /\ \A u \in Linker : pc'[u] \in {"walkChild", "walkParent"} => cur[u] \in Pub
    BY <1>1, <2>3
  <2>5. /\ todo' = [todo EXCEPT ![t] = @ \ {p}] /\ cleared' = [cleared EXCEPT ![t] = @ \cup {p}]
        /\ UNCHANGED <<rowVars, cur, childRoot, parentRoot, elected, done>>
    BY <1>7 DEF ClearRow
  <2>6. todo' \in [Linker -> SUBSET Pub] /\ cleared' \in [Linker -> SUBSET Pub]
    BY <1>1, <2>5
  <2>7. QED
    BY <1>1, <2>1, <2>2, <2>4, <2>5, <2>6 DEF TypeOK
<1>8. CASE SetParent(t)
  <2>1. Child(t) \in Pub
    BY <1>1, <1>8, LinkAtHand DEF SetParent, LinkInv, Ended
  <2>2. lock' \in [Pub -> Linker \cup {NoLinker}]
    BY <1>1, <1>8, <2>1, TakeLocks DEF SetParent
  <2>3. QED
    BY <1>1, <1>8, <2>2 DEF TypeOK, SetParent
<1>9. CASE ElectLeaf(t)
  <2>1. LatestLeaf(Seen(t), parentRoot[t]) \in Pub
    BY <1>9, ElectedTyped DEF ElectLeaf, Seen, AboveBoth, AboveChild
  <2>2. QED
    BY <1>1, <1>9, <2>1 DEF TypeOK, ElectLeaf
<1>10. CASE SetLatest(t)
  <2>1. elected[t] \in Pub
    BY <1>1, <1>10, ElectedTyped DEF SetLatest, LinkInv, AboveBoth, AboveChild
  <2>2. lock' \in [Pub -> Linker \cup {NoLinker}]
    BY <1>1, <1>10, <2>1, TakeLocks DEF SetLatest
  <2>3. QED
    BY <1>1, <1>10, <2>2 DEF TypeOK, SetLatest
<1>11. CASE Commit(t)
  <2> DEFINE n == done[t] + 1
  <2>1. /\ parent' \in ParentMap /\ done[t] < Len(Links[t]) /\ Links[t] \in Seq(Pub \X Pub)
        /\ elected[t] \in Pub
    BY <1>1, <1>11, CommitStep, ElectedTyped, LinkAssumption
       DEF Commit, LinkInv, AboveBoth, AboveChild
  <2>2. n \in Nat /\ n <= Len(Links[t]) /\ Len(Links[t]) \in Nat
    BY <1>1, <2>1
  <2>3. n < Len(Links[t]) => Links[t][n + 1][1] \in Pub
    <3> SUFFICES ASSUME n < Len(Links[t])
                 PROVE  Links[t][n + 1][1] \in Pub
      OBVIOUS
    <3>1. n + 1 \in 1..Len(Links[t])
      BY <2>2
    <3>2. Links[t][n + 1] \in Pub \X Pub
      BY <2>1, <3>1
    <3>3. QED
      BY <3>2
  <2> HIDE DEF n
  <2>4. /\ pc' = [pc EXCEPT ![t] = IF n < Len(Links[t]) THEN "walkChild" ELSE "end"]
        /\ latest' = (latest \ cleared[t]) \cup {elected[t]}
        /\ lock' = [p \in Pub |-> IF lock[p] = t THEN NoLinker ELSE lock[p]]
        /\ done' = [done EXCEPT ![t] = n]
        /\ cur' = [cur EXCEPT ![t] = IF n < Len(Links[t]) THEN Links[t][n + 1][1] ELSE NoPub]
        /\ childRoot' = [childRoot EXCEPT ![t] = NoPub]
        /\ parentRoot' = [parentRoot EXCEPT ![t] = NoPub]
        /\ cleared' = [cleared EXCEPT ![t] = {}]
        /\ elected' = [elected EXCEPT ![t] = NoPub]
        /\ roots' = roots /\ todo' = todo
    BY <1>11 DEF Commit, FirstPhase, Release, n
  <2>5. /\ pc' \in [Linker -> Phases] /\ latest' \subseteq Pub
        /\ lock' \in [Pub -> Linker \cup {NoLinker}]
        /\ done' \in [Linker -> Nat] /\ \A u \in Linker : done'[u] <= Len(Links[u])
    BY <1>1, <2>1, <2>2, <2>4
  <2>6. /\ cur' \in [Linker -> Pub \cup {NoPub}]
        /\ \A u \in Linker : pc'[u] \in {"walkChild", "walkParent"} => cur'[u] \in Pub
    BY <1>1, <2>3, <2>4
  <2>7. QED
    BY <1>1, <2>1, <2>4, <2>5, <2>6 DEF TypeOK
<1>12. CASE DeadlockVictim(t)
  BY <1>1, <1>12 DEF TypeOK, DeadlockVictim, Aborted, Release
<1>13. QED
  BY <1>2, <1>3, <1>4, <1>5, <1>6, <1>7, <1>8, <1>9, <1>10, <1>11, <1>12 DEF Step, Statement

LEMMA JoinsStep ==
    ASSUME LinkIInv, NEW t \in Linker, Step(t), NEW p \in Pub, NEW q \in Pub, parent'[p] = q
    PROVE  Joins(p, q)
<1>1. CASE UNCHANGED rowVars
  BY <1>1 DEF rowVars, LinkIInv
<1>2. CASE Commit(t)
  BY <1>2, CommitStep, MapsAcyclic
<1>3. QED
  BY <1>1, <1>2, RowsFrame

\* The victim of a deadlock waits for a transaction that is still running.
LEMMA SparedStep ==
    ASSUME LinkIInv, NEW t \in Linker, Step(t)
    PROVE  \E u \in Linker : pc'[u] # "aborted"
<1>1. pc \in [Linker -> Phases] /\ lock \in [Pub -> Linker \cup {NoLinker}]
  BY DEF LinkIInv, TypeOK
<1>2. CASE Statement(t)
  <2>1. pc'[t] # "aborted"
    <3>1. \/ pc' = pc /\ pc[t] \in {"walkChild", "walkParent"}
          \/ \E to \in Phases \ {"aborted"} : pc' = [pc EXCEPT ![t] = to]
      BY <1>2 DEF Statement, WalkUp, FindChildRoot, FindParentRoot, BeginLock, BeginClear,
         Snapshot, LockRow, ClearRow, SetParent, ElectLeaf, SetLatest, Commit, FirstPhase,
         Jump, Phases
    <3>2. QED
      BY <1>1, <3>1
  <2>2. QED
    BY <2>1
<1>3. CASE DeadlockVictim(t)
  <2>1. WaitsFor(t) # {}
    BY <1>3 DEF DeadlockVictim, InCycle
  <2>2. PICK p \in Wants(t) : lock[p] \notin {t, NoLinker}
    BY <2>1 DEF WaitsFor
  <2>3. PICK u : u = lock[p]
    OBVIOUS
  <2>4. p \in Pub
    <3>1. Wants(t) \subseteq Pub
      BY ElectedTyped DEF LinkIInv, TypeOK, Wants, LinkInv, AboveBoth, AboveChild
    <3>2. QED
      BY <3>1
  <2>5. u \in Linker /\ u # t /\ lock[p] = u
    BY <1>1, <2>2, <2>3, <2>4
  <2>6. ~ Ended(u)
    BY <2>4, <2>5 DEF LinkIInv, LinkInv
  <2>7. pc'[u] = pc[u]
    BY <1>1, <1>3, <2>5 DEF DeadlockVictim, Aborted
  <2>8. QED
    BY <2>5, <2>6, <2>7 DEF Ended
<1>4. QED
  BY <1>2, <1>3 DEF Step

LEMMA InitLinkIInv == Init => LinkIInv
<1> SUFFICES ASSUME Init
             PROVE  LinkIInv
  OBVIOUS
<1>1. Forest \in ParentMap /\ Links \in [Linker -> Seq(Pub \X Pub)] /\ NoLinker \notin Linker
  BY LinkAssumption
<1>2. \A p, q \in Pub : parent[p] = q => Joins(p, q)
  BY DEF Init, Joins
<1>3. latest \subseteq Pub
  <2>1. \A p \in Pub : LatestLeaf(Forest, p) \in Pub
    <3>1. Acyclic(Forest)
      BY <1>1, JoinsAcyclic DEF Joins
    <3>2. \A p \in Pub : LatestLeaf(Forest, p) \in Leaves(Forest, p)
      BY <3>1, LatestLeafExists
    <3>3. QED
      BY <3>2 DEF Leaves, Subtree
  <2>2. QED
    BY <2>1 DEF Init, StoredLatest
<1>4. ASSUME NEW t \in Linker
      PROVE  /\ Len(Links[t]) \in Nat
             /\ 0 < Len(Links[t]) => Links[t] # << >> /\ Child(t) = Links[t][1][1]
             /\ 0 < Len(Links[t]) => Links[t][1][1] \in Pub
             /\ ~ (0 < Len(Links[t])) => Len(Links[t]) = 0
  <2>1. Links[t] \in Seq(Pub \X Pub)
    BY <1>1
  <2>2. 0 < Len(Links[t]) => Links[t][1] \in Pub \X Pub /\ Links[t] # << >>
    BY <2>1
  <2>3. done[t] = 0
    BY DEF Init
  <2>4. Child(t) = Links[t][1][1]
    BY <2>3 DEF Child
  <2>5. QED
    BY <2>1, <2>2, <2>4
<1>5. TypeOK
  <2>1. \A t \in Linker : pc[t] \in {"walkChild", "walkParent"} => cur[t] \in Pub
    BY <1>4 DEF Init, FirstPhase
  <2>2. cur \in [Linker -> Pub \cup {NoPub}]
    <3>1. ASSUME NEW t \in Linker
          PROVE  cur[t] \in Pub \cup {NoPub}
      <4>1. Links[t] \in Seq(Pub \X Pub)
        BY <1>1
      <4>2. Links[t] # << >> => 0 < Len(Links[t])
        BY <4>1
      <4>3. QED
        BY <1>4, <4>2 DEF Init
    <3>2. QED
      BY <3>1 DEF Init
  <2>3. \A t \in Linker : done[t] <= Len(Links[t])
    BY <1>4 DEF Init
  <2>4. QED
    BY <1>1, <1>3, <2>1, <2>2, <2>3 DEF Init, TypeOK, FirstPhase, Phases
<1>6. ASSUME NEW t \in Linker
      PROVE  LinkInv(t)
  <2>1. PathUp(lock, parent, t, Child(t), Child(t))
    BY PathStart
  <2>2. /\ done[t] = 0 /\ cleared[t] = {} /\ \A p \in Pub : lock[p] # t
        /\ pc[t] = IF 0 < Len(Links[t]) THEN "walkChild" ELSE "end"
        /\ Links[t] # << >> => cur[t] = Links[t][1][1]
    BY <1>1 DEF Init, FirstPhase
  <2>3. QED
    BY <1>4, <2>1, <2>2 DEF LinkInv, Account, Ended, AboveBoth, AboveChild
<1>7. \E t \in Linker : pc[t] # "aborted"
  BY LinkAssumption DEF Init, FirstPhase
<1>8. QED
  BY <1>2, <1>5, <1>6, <1>7 DEF LinkIInv

LEMMA LinkIInvStep ==
    ASSUME LinkIInv, NEW t \in Linker, Step(t)
    PROVE  LinkIInv'
<1>1. LinkInv(t)'
  BY WalkSelf, LockSelf, WriteSelf, EndSelf DEF Step, Statement
<1>2. \A u \in Linker : LinkInv(u)'
  BY <1>1, LinkInvOthers
<1>3. (\A p, q \in Pub : parent[p] = q => Joins(p, q))'
  BY JoinsStep DEF Joins
<1>4. QED
  BY <1>2, <1>3, LinkTypes, SparedStep DEF LinkIInv

LEMMA LinkIInvStutter ==
    ASSUME LinkIInv, UNCHANGED vars
    PROVE  LinkIInv'
<1>1. /\ parent' = parent /\ latest' = latest /\ lock' = lock /\ pc' = pc /\ cur' = cur
      /\ childRoot' = childRoot /\ parentRoot' = parentRoot /\ roots' = roots /\ todo' = todo
      /\ cleared' = cleared /\ elected' = elected /\ done' = done
  BY DEF vars, rowVars, txVars
<1>2. TypeOK' /\ (\A p, q \in Pub : parent[p] = q => Joins(p, q))'
  BY <1>1 DEF LinkIInv, TypeOK, Joins
<1>3. ASSUME NEW t \in Linker
      PROVE  LinkInv(t)'
  <2>1. /\ Child(t)' = Child(t) /\ Parent(t)' = Parent(t) /\ BothLineages(t)' = BothLineages(t)
        /\ Pending(t, 1)' = Pending(t, 1) /\ Pending(t, 2)' = Pending(t, 2)
    BY <1>1 DEF Child, Parent, BothLineages, Pending
  <2>2. LinkInv(t)
    BY DEF LinkIInv
  <2>3. QED
    BY <1>1, <2>1, <2>2 DEF LinkInv, Account, Ended
<1>4. QED
  BY <1>1, <1>2, <1>3 DEF LinkIInv

LEMMA LinkInductive == Spec => []LinkIInv
<1>1. LinkIInv /\ [Next]_vars => LinkIInv'
  BY LinkIInvStep, LinkIInvStutter DEF Next, AllEnded, Step
<1>2. QED
  BY <1>1, InitLinkIInv, PTL DEF Spec

\* Every statement of every link transaction keeps the columns, the locks and what the
\* transaction remembers of their types.
THEOREM LinkTypeCorrect == Spec => []TypeOK
<1>1. LinkIInv => TypeOK
  BY DEF LinkIInv
<1>2. QED
  BY <1>1, LinkInductive, PTL

\* However many runs link the same versions, deadlock detection spares one that gets all
\* its links through.
THEOREM OneRunLinksAll == Spec => []SomeRunLinksAll
<1>1. LinkIInv => SomeRunLinksAll
  BY DEF LinkIInv, LinkInv, Ended, SomeRunLinksAll
<1>2. QED
  BY <1>1, LinkInductive, PTL

-----------------------------------------------------------------------------
(* The refinement.                                                         *)

LEMMA AtomicInit == Init => Atomic!Init
<1> SUFFICES ASSUME Init
             PROVE  Atomic!Init
  OBVIOUS
<1>1. {t \in Linker : pc[t] = "aborted"} = {}
  BY DEF Init, FirstPhase
<1>2. QED
  BY <1>1 DEF Init, Atomic!Init, StoredLatest, Atomic!StoredLatest, LatestLeaf,
     Atomic!LatestLeaf, Leaves, Atomic!Leaves, Subtree, Atomic!Subtree, ClosedUnderChildren,
     Atomic!ClosedUnderChildren

\* The operators of the promise are those of the detailed statements.
LEMMA AtomicOperators ==
    ASSUME NEW par, NEW lat, NEW c, NEW p
    PROVE  /\ Atomic!Linked(par, c, p) = Linked(par, c, p)
           /\ Atomic!LatestAfterLink(par, lat, c, p) = LatestAfterLink(par, lat, c, p)
<1>1. \A r : Atomic!Subtree(par, r) = Subtree(par, r)
  BY DEF Subtree, Atomic!Subtree, ClosedUnderChildren, Atomic!ClosedUnderChildren
<1>2. \A q : Atomic!Root(par, q) = Root(par, q)
  BY <1>1 DEF Root, Atomic!Root
<1>3. Atomic!Cleared(par, c, p) = Cleared(par, c, p)
  BY <1>1, <1>2 DEF Cleared, Atomic!Cleared
<1>4. \A map, r : Atomic!LatestLeaf(map, r) = LatestLeaf(map, r)
  BY DEF LatestLeaf, Atomic!LatestLeaf, Leaves, Atomic!Leaves, Subtree, Atomic!Subtree,
     ClosedUnderChildren, Atomic!ClosedUnderChildren
<1>5. Atomic!Linked(par, c, p) = Linked(par, c, p)
  BY DEF Linked, Atomic!Linked
<1>6. QED
  BY <1>2, <1>3, <1>4, <1>5 DEF LatestAfterLink, Atomic!LatestAfterLink

\* A commit is the indivisible link of the promise.
LEMMA AtomicCommit ==
    ASSUME LinkIInv, NEW t \in Linker, Commit(t)
    PROVE  Atomic!Link(t)
<1>1. /\ done[t] < Len(Links[t]) /\ pc[t] = "commit"
      /\ parent' = Linked(parent, Child(t), Parent(t))
      /\ latest' = LatestAfterLink(parent, latest, Child(t), Parent(t))
  BY CommitStep
<1>2. pc \in [Linker -> Phases] /\ done' = [done EXCEPT ![t] = done[t] + 1]
  BY DEF LinkIInv, TypeOK, Commit
<1>3. pc' = [pc EXCEPT ![t] = FirstPhase(done[t] + 1, t)]
  BY DEF Commit, Jump
<1>4. {u \in Linker : pc'[u] = "aborted"} = {u \in Linker : pc[u] = "aborted"}
  BY <1>1, <1>2, <1>3 DEF FirstPhase
<1>5. /\ parent' = Atomic!Linked(parent, Child(t), Parent(t))
      /\ latest' = Atomic!LatestAfterLink(parent, latest, Child(t), Parent(t))
  BY <1>1, AtomicOperators
<1>6. QED
  BY <1>1, <1>2, <1>4, <1>5 DEF Atomic!Link, Child, Parent

\* A deadlock victim gives up its link loop.
LEMMA AtomicVictim ==
    ASSUME LinkIInv, NEW t \in Linker, DeadlockVictim(t)
    PROVE  Atomic!Fail(t)
<1>1. LinkInv(t) /\ pc \in [Linker -> Phases]
  BY DEF LinkIInv, TypeOK
<1>2. Wants(t) # {}
  BY DEF DeadlockVictim, InCycle, WaitsFor
<1>3. ~ Ended(t)
  BY <1>2 DEF Wants, Ended
<1>4. pc' = [pc EXCEPT ![t] = "aborted"] /\ UNCHANGED <<parent, latest, done>>
  BY DEF DeadlockVictim, Aborted, rowVars
<1>5. {u \in Linker : pc'[u] = "aborted"} = {u \in Linker : pc[u] = "aborted"} \cup {t}
  BY <1>1, <1>4
<1>6. QED
  BY <1>1, <1>3, <1>4, <1>5 DEF Atomic!Fail, LinkInv, Ended

\* No other statement shows.
LEMMA AtomicStutter ==
    ASSUME LinkIInv, NEW t \in Linker, Statement(t), ~ Commit(t)
    PROVE  UNCHANGED Atomic!vars
<1>1. pc \in [Linker -> Phases]
  BY DEF LinkIInv, TypeOK
<1>2. /\ UNCHANGED <<parent, latest, done>>
      /\ pc' = pc \/ \E from, to \in Phases \ {"aborted"} : Jump(t, from, to)
  BY DEF Statement, WalkUp, FindChildRoot, FindParentRoot, BeginLock, BeginClear, Snapshot,
     LockRow, ClearRow, SetParent, ElectLeaf, SetLatest, Phases, rowVars
<1>3. {u \in Linker : pc'[u] = "aborted"} = {u \in Linker : pc[u] = "aborted"}
  BY <1>1, <1>2 DEF Jump
<1>4. QED
  BY <1>2, <1>3 DEF Atomic!vars

\* The row locks make every link take effect in one step at its commit, or not at all when
\* its transaction is the victim of a deadlock, for any number of runs, links and versions.
THEOREM LinksAtomic == Spec => LinksAreAtomic
<1>1. LinkIInv /\ [Next]_vars => [Atomic!Next]_(Atomic!vars)
  <2> SUFFICES ASSUME LinkIInv, [Next]_vars
               PROVE  Atomic!Next \/ UNCHANGED Atomic!vars
    OBVIOUS
  <2>1. ASSUME NEW t \in Linker, Statement(t)
        PROVE  Atomic!Next \/ UNCHANGED Atomic!vars
    BY <2>1, AtomicCommit, AtomicStutter DEF Atomic!Next
  <2>2. ASSUME NEW t \in Linker, DeadlockVictim(t)
        PROVE  Atomic!Next
    BY <2>2, AtomicVictim DEF Atomic!Next
  <2>3. CASE UNCHANGED vars
    BY <2>3 DEF vars, rowVars, Atomic!vars
  <2>4. QED
    BY <2>1, <2>2, <2>3 DEF Next, AllEnded
<1>2. QED
  BY <1>1, AtomicInit, LinkInductive, PTL DEF Spec, LinksAreAtomic, Atomic!Spec
=============================================================================
