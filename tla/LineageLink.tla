----------------------------- MODULE LineageLink -----------------------------
(***************************************************************************)
(* link_child_to_parent_and_update_latest, statement by statement, as      *)
(* PostgreSQL runs it under READ COMMITTED: FOR UPDATE and UPDATE take the *)
(* locks of their rows one by one, wait for the holder of a locked row,    *)
(* and hold every lock to the end of the transaction; each statement sees  *)
(* what was committed when it began and the transaction's own writes.      *)
(* A waits-for cycle is broken by aborting one of its transactions, and    *)
(* the run it belongs to gives up its link loop.                           *)
(***************************************************************************)
EXTENDS Lineage, Sequences

CONSTANTS
    Linker,   \* runs that are linking documents
    Links,    \* Links[t]: the (child, parent) pairs run t links, in order
    Forest,   \* the links stored before any of them
    NoLinker, \* no lock holder
    RowId     \* sorted(key=str): the order of the row ids

\* p is stored under q, or some run links it there.
Joins(p, q) ==
    Forest[p] = q \/ \E t \in Linker : \E i \in DOMAIN Links[t] : Links[t][i] = <<p, q>>

(***************************************************************************)
(* Some run links, and what the runs link has no cycle: _find_root does    *)
(* not end on one.  For finitely many publications both conjuncts of the   *)
(* last clause say the same.                                               *)
(***************************************************************************)
ASSUME LinkAssumption ==
    /\ Linker # {} /\ NoLinker \notin Linker
    /\ Links \in [Linker -> Seq(Pub \X Pub)]
    /\ Forest \in ParentMap
    /\ RowId \in [Pub -> Int]
    /\ \A S \in SUBSET Pub : S # {} =>
          /\ \E p \in S : \A q \in S : ~ Joins(p, q)
          /\ \E p \in S : \A q \in S : ~ Joins(q, p)

VARIABLES
    parent, latest,  \* the committed columns
    lock,            \* lock[p]: the transaction that holds the row lock of p
    pc,              \* the statement a transaction is at
    cur,             \* the row a walk of _find_root has reached
    childRoot, parentRoot,
    roots,           \* lineages still to be locked and cleared
    todo,            \* rows the running statement has still to lock
    cleared,         \* rows this transaction has written is_latest_version = FALSE to
    elected,         \* the leaf it makes latest
    done             \* done[t]: how many links of t have been committed

rowVars == <<parent, latest>>
txVars == <<cur, childRoot, parentRoot, roots, todo, cleared, elected>>
vars == <<rowVars, lock, pc, txVars, done>>

Phases == {"walkChild", "walkParent", "snapshotLock", "lockRows", "snapshotClear",
           "clearRows", "setParent", "electLeaf", "setLatest", "commit", "end", "aborted"}

TypeOK ==
    /\ parent \in ParentMap
    /\ latest \subseteq Pub
    /\ lock \in [Pub -> Linker \cup {NoLinker}]
    /\ pc \in [Linker -> Phases]
    /\ {cur, childRoot, parentRoot, elected} \subseteq [Linker -> Pub \cup {NoPub}]
    /\ \A t \in Linker : pc[t] \in {"walkChild", "walkParent"} => cur[t] \in Pub
    /\ roots \in [Linker -> Seq(Pub)]
    /\ {todo, cleared} \subseteq [Linker -> SUBSET Pub]
    /\ done \in [Linker -> Nat]
    /\ \A t \in Linker : done[t] <= Len(Links[t])

Child(t) == Links[t][done[t] + 1][1]
Parent(t) == Links[t][done[t] + 1][2]

\* Seeded faults: the link loop runs past its last pair, or stops before it.
PhasePastEnd(n, t) == IF n <= Len(Links[t]) THEN "walkChild" ELSE "end"
PhaseShort(n, t) == IF n + 1 < Len(Links[t]) THEN "walkChild" ELSE "end"

FirstPhase(n, t) == IF n < Len(Links[t]) THEN "walkChild" ELSE "end"

Init ==
    /\ parent = Forest
    /\ latest = StoredLatest(Forest, UNION {{Links[t][i] : i \in DOMAIN Links[t]} : t \in Linker})
    /\ lock = [p \in Pub |-> NoLinker]
    /\ pc = [t \in Linker |-> FirstPhase(0, t)]
    /\ cur = [t \in Linker |-> IF Links[t] = << >> THEN NoPub ELSE Links[t][1][1]]
    /\ childRoot = [t \in Linker |-> NoPub]
    /\ parentRoot = [t \in Linker |-> NoPub]
    /\ roots = [t \in Linker |-> << >>]
    /\ todo = [t \in Linker |-> {}]
    /\ cleared = [t \in Linker |-> {}]
    /\ elected = [t \in Linker |-> NoPub]
    /\ done = [t \in Linker |-> 0]

-----------------------------------------------------------------------------

Free(t, p) == lock[p] \in {t, NoLinker}
Take(t, p) == Free(t, p) /\ lock' = [lock EXCEPT ![p] = t]
Jump(t, from, to) == pc[t] = from /\ pc' = [pc EXCEPT ![t] = to]

\* The parent column as t sees it: committed, and its own link once written.
Seen(t) ==
    IF pc[t] \in {"electLeaf", "setLatest", "commit"}
    THEN Linked(parent, Child(t), Parent(t)) ELSE parent

\* Seeded fault: the walk does not move on.
WalkStuck(t) ==
    /\ pc[t] \in {"walkChild", "walkParent"}
    /\ parent[cur[t]] # NoPub
    /\ Take(t, cur[t])
    /\ UNCHANGED <<rowVars, pc, txVars, done>>

\* _find_root: lock the row, read its parent, go up.
WalkUp(t) ==
    /\ pc[t] \in {"walkChild", "walkParent"}
    /\ parent[cur[t]] # NoPub
    /\ Take(t, cur[t])
    /\ cur' = [cur EXCEPT ![t] = parent[cur[t]]]
    /\ UNCHANGED <<rowVars, pc, childRoot, parentRoot, roots, todo, cleared, elected, done>>

AtRoot(t) == parent[cur[t]] = NoPub

FindChildRoot(t) ==
    /\ Jump(t, "walkChild", "walkParent")
    /\ AtRoot(t) /\ Take(t, cur[t])
    /\ childRoot' = [childRoot EXCEPT ![t] = cur[t]]
    /\ cur' = [cur EXCEPT ![t] = Parent(t)]
    /\ UNCHANGED <<rowVars, parentRoot, roots, todo, cleared, elected, done>>

\* The roots whose lineages are cleared, each once, in the order of their ids.
RootsToClear(a, b) ==
    IF a = b THEN <<a>> ELSE IF RowId[a] < RowId[b] THEN <<a, b>> ELSE <<b, a>>

\* Seeded fault: the root above the parent is read without FOR UPDATE.
FindParentRootUnlocked(t) ==
    /\ Jump(t, "walkParent", "snapshotLock")
    /\ AtRoot(t)
    /\ parentRoot' = [parentRoot EXCEPT ![t] = cur[t]]
    /\ roots' = [roots EXCEPT ![t] = RootsToClear(childRoot[t], cur[t])]
    /\ UNCHANGED <<rowVars, lock, cur, childRoot, todo, cleared, elected, done>>

FindParentRoot(t) ==
    /\ Jump(t, "walkParent", "snapshotLock")
    /\ AtRoot(t) /\ Take(t, cur[t])
    /\ parentRoot' = [parentRoot EXCEPT ![t] = cur[t]]
    /\ roots' = [roots EXCEPT ![t] = RootsToClear(childRoot[t], cur[t])]
    /\ UNCHANGED <<rowVars, cur, childRoot, todo, cleared, elected, done>>

\* A statement over the lineage of the first root begins: its rows are those of its snapshot.
Snapshot(t, from, to) ==
    /\ Jump(t, from, to)
    /\ todo' = [todo EXCEPT ![t] = Subtree(Seen(t), Head(roots[t]))]
    /\ UNCHANGED <<rowVars, lock, cur, childRoot, parentRoot, roots, cleared, elected, done>>

BeginLock(t) == Snapshot(t, "snapshotLock", "lockRows")
BeginClear(t) == Snapshot(t, "snapshotClear", "clearRows")

\* SELECT ... FOR UPDATE takes the next of its rows, in whatever order the plan gives.
LockRow(t, p) ==
    /\ p \in todo[t]
    /\ Jump(t, "lockRows", IF todo[t] = {p} THEN "snapshotClear" ELSE "lockRows")
    /\ Take(t, p)
    /\ todo' = [todo EXCEPT ![t] = @ \ {p}]
    /\ UNCHANGED <<rowVars, cur, childRoot, parentRoot, roots, cleared, elected, done>>

\* UPDATE ... SET is_latest_version = FALSE writes the next of its rows.
ClearRow(t, p) ==
    /\ p \in todo[t]
    /\ IF todo[t] # {p} THEN Jump(t, "clearRows", "clearRows") /\ UNCHANGED roots
       ELSE /\ Jump(t, "clearRows", IF Len(roots[t]) > 1 THEN "snapshotLock" ELSE "setParent")
            /\ roots' = [roots EXCEPT ![t] = Tail(@)]
    /\ Take(t, p)
    /\ todo' = [todo EXCEPT ![t] = @ \ {p}]
    /\ cleared' = [cleared EXCEPT ![t] = @ \cup {p}]
    /\ UNCHANGED <<rowVars, cur, childRoot, parentRoot, elected, done>>

SetParent(t) ==
    /\ Jump(t, "setParent", "electLeaf")
    /\ Take(t, Child(t))
    /\ UNCHANGED <<rowVars, txVars, done>>

\* _latest_leaf_id reads without locking.
ElectLeaf(t) ==
    /\ Jump(t, "electLeaf", "setLatest")
    /\ elected' = [elected EXCEPT ![t] = LatestLeaf(Seen(t), parentRoot[t])]
    /\ UNCHANGED <<rowVars, lock, cur, childRoot, parentRoot, roots, todo, cleared, done>>

SetLatest(t) ==
    /\ Jump(t, "setLatest", "commit")
    /\ Take(t, elected[t])
    /\ UNCHANGED <<rowVars, txVars, done>>

Release(t) == lock' = [p \in Pub |-> IF lock[p] = t THEN NoLinker ELSE lock[p]]

\* The transaction's writes become visible at once; the run goes on to its next link.
Commit(t) ==
    LET n == done[t] + 1 IN
    /\ Jump(t, "commit", FirstPhase(n, t))
    /\ parent' = Seen(t)
    /\ latest' = (latest \ cleared[t]) \cup {elected[t]}
    /\ Release(t)
    /\ done' = [done EXCEPT ![t] = n]
    /\ cur' = [cur EXCEPT ![t] = IF n < Len(Links[t]) THEN Links[t][n + 1][1] ELSE NoPub]
    /\ childRoot' = [childRoot EXCEPT ![t] = NoPub]
    /\ parentRoot' = [parentRoot EXCEPT ![t] = NoPub]
    /\ cleared' = [cleared EXCEPT ![t] = {}]
    /\ elected' = [elected EXCEPT ![t] = NoPub]
    /\ UNCHANGED <<roots, todo>>

-----------------------------------------------------------------------------
(* Deadlock detection.                                                     *)

\* The rows a transaction needs to go on.
Wants(t) ==
    CASE pc[t] \in {"walkChild", "walkParent"} -> {cur[t]}
      [] pc[t] \in {"lockRows", "clearRows"} -> todo[t]
      [] pc[t] = "setLatest" -> {elected[t]}
      [] OTHER -> {}

WaitsFor(t) == {lock[p] : p \in Wants(t)} \ {t, NoLinker}

\* t waits, through others, for itself.
InCycle(t) ==
    /\ WaitsFor(t) # {}
    /\ \A S \in SUBSET Linker :
          WaitsFor(t) \subseteq S /\ (\A u \in S : WaitsFor(u) \subseteq S) => t \in S

Aborted(t) ==
    /\ pc' = [pc EXCEPT ![t] = "aborted"]
    /\ Release(t)
    /\ todo' = [todo EXCEPT ![t] = {}]
    /\ cleared' = [cleared EXCEPT ![t] = {}]
    /\ elected' = [elected EXCEPT ![t] = NoPub]
    /\ UNCHANGED <<rowVars, cur, childRoot, parentRoot, roots, done>>

\* PostgreSQL aborts one transaction of the cycle; _finish_run records the run FAILED.
DeadlockVictim(t) == InCycle(t) /\ Aborted(t)

Statement(t) ==
    \/ WalkUp(t) \/ FindChildRoot(t) \/ FindParentRoot(t)
    \/ BeginLock(t) \/ (\E p \in Pub : LockRow(t, p))
    \/ BeginClear(t) \/ (\E p \in Pub : ClearRow(t, p))
    \/ SetParent(t) \/ ElectLeaf(t) \/ SetLatest(t) \/ Commit(t)

Ended(t) == pc[t] \in {"end", "aborted"}
AllEnded == (\A t \in Linker : Ended(t)) /\ UNCHANGED vars

Next == (\E t \in Linker : Statement(t) \/ DeadlockVictim(t)) \/ AllEnded

Spec == Init /\ [][Next]_vars

\* The database keeps executing statements and looks for deadlocks when it waits.
FairSpec ==
    /\ Spec
    /\ \A t \in Linker : WF_vars(Statement(t))
    /\ WF_vars(\E t \in Linker : DeadlockVictim(t))

-----------------------------------------------------------------------------
(* Properties.                                                             *)

\* Concurrent link transactions have the effect of links made one after the other, in
\* the order of their commits: the locks on the walk to the root are enough to keep
\* every clear and every election from missing rows another transaction is linking.
Atomic == INSTANCE LineageAtomic WITH failed <- {t \in Linker : pc[t] = "aborted"}
LinksAreAtomic == Atomic!Spec

\* Deadlock detection never kills every run: one of them gets all its links through.
SomeRunLinksAll ==
    (\A t \in Linker : Ended(t)) => \E t \in Linker : done[t] = Len(Links[t])

\* No link waits for ever.
LinksEnd == \A t \in Linker : <>Ended(t)
=============================================================================
