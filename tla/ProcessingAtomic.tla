-------------------------- MODULE ProcessingAtomic --------------------------
(***************************************************************************)
(* What the attempts of process_document promise together: an attempt      *)
(* replaces the pages and blocks of its artifact and records its verdict   *)
(* in one indivisible step, its last one; nothing else touches what is     *)
(* stored.  A reader never sees a replacement half done.                   *)
(***************************************************************************)
EXTENDS Integers

CONSTANTS Job, Artifact, ArtifactOf, PageCount   \* as in ProcessingJobs

VARIABLES
    status,  \* document_processing_jobs.status
    pages,   \* rows of document_pages: <<attempt, page number>>
    blocks,  \* the page rows that carry document_blocks
    ended    \* attempts with a job that will write nothing more

vars == <<status, pages, blocks, ended>>

Output(j) == {j} \X (1..PageCount[ArtifactOf[j]])
Elsewhere(j) == {row \in pages : ArtifactOf[row[1]] # ArtifactOf[j]}
Open(j) == status[j] # "none" /\ j \notin ended

Init ==
    /\ status = [j \in Job |-> "none"]
    /\ pages = {} /\ blocks = {} /\ ended = {}

\* A job is created in the step that closes those a sweep took for dead, whatever they say.
Begin(j, closed) ==
    /\ status[j] = "none" /\ \A k \in closed : status[k] # "none"
    /\ status' = [k \in Job |-> IF k = j THEN "PENDING"
                                ELSE IF k \in closed THEN "FAILED" ELSE status[k]]
    /\ UNCHANGED <<pages, blocks, ended>>

Work(j) ==
    /\ Open(j)
    /\ status' = [status EXCEPT ![j] = "PROCESSING"]
    /\ UNCHANGED <<pages, blocks, ended>>

\* An attempt with nothing to store clears its artifact, or leaves what another attempt has
\* stored since it looked.
Finish(j, verdict) ==
    /\ Open(j)
    /\ \/ verdict \in {"PROCESSED", "NEEDS_REVIEW"} /\ pages' = Elsewhere(j) \cup Output(j)
       \/ verdict \in {"NEEDS_REVIEW", "FAILED"} /\ pages' \in {pages, Elsewhere(j)}
    /\ blocks' = pages'
    /\ status' = [status EXCEPT ![j] = verdict]
    /\ ended' = ended \cup {j}

\* The attempt fails, or dies and leaves the row as it is.
GiveUp(j) ==
    /\ Open(j)
    /\ status' \in {status, [status EXCEPT ![j] = "FAILED"]}
    /\ ended' = ended \cup {j}
    /\ UNCHANGED <<pages, blocks>>

Next ==
    \E j \in Job :
        \/ \E closed \in SUBSET Job : Begin(j, closed)
        \/ Work(j) \/ GiveUp(j)
        \/ \E verdict \in {"PROCESSED", "NEEDS_REVIEW", "FAILED"} : Finish(j, verdict)

Spec == Init /\ [][Next]_vars
=============================================================================
