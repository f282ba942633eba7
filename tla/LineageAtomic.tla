---------------------------- MODULE LineageAtomic ----------------------------
(***************************************************************************)
(* What link_child_to_parent_and_update_latest promises: each link of a    *)
(* run takes effect in one indivisible step, or not at all and the run     *)
(* stops there.  This is the step IngestionRuns takes in LinkUnder.        *)
(***************************************************************************)
EXTENDS Lineage, Sequences

CONSTANTS
    Linker,   \* runs that are linking documents
    Links,    \* Links[t]: the (child, parent) pairs run t links, in order
    Forest    \* the links stored before any of them

VARIABLES
    parent,   \* source_publications.parent_publication_id
    latest,   \* rows with is_latest_version
    done,     \* done[t]: how many links of t have been committed
    failed    \* runs whose link loop ended in an error

vars == <<parent, latest, done, failed>>

Init ==
    /\ parent = Forest
    /\ latest = StoredLatest(Forest, UNION {{Links[t][i] : i \in DOMAIN Links[t]} : t \in Linker})
    /\ done = [t \in Linker |-> 0]
    /\ failed = {}

Link(t) ==
    /\ t \notin failed /\ done[t] < Len(Links[t])
    /\ LET child == Links[t][done[t] + 1][1]
           par == Links[t][done[t] + 1][2]
       IN /\ parent' = Linked(parent, child, par)
          /\ latest' = LatestAfterLink(parent, latest, child, par)
    /\ done' = [done EXCEPT ![t] = @ + 1]
    /\ UNCHANGED failed

Fail(t) ==
    /\ t \notin failed /\ done[t] < Len(Links[t])
    /\ failed' = failed \cup {t}
    /\ UNCHANGED <<parent, latest, done>>

Next == \E t \in Linker : Link(t) \/ Fail(t)

Spec == Init /\ [][Next]_vars
=============================================================================
