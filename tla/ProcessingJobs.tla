--------------------------- MODULE ProcessingJobs ---------------------------
(***************************************************************************)
(* ProcessDocumentService.process_document: attempts that turn a stored    *)
(* artifact into pages and blocks.  An attempt first closes stale jobs and *)
(* commits a job row of its own, extracts outside any transaction, and     *)
(* then replaces the artifact's pages and blocks and finishes its job in   *)
(* one transaction, modelled statement by statement under READ COMMITTED.  *)
(* Attempts are separate processes; nothing keeps two of them off the same *)
(* artifact.                                                               *)
(***************************************************************************)
EXTENDS Integers, FiniteSets

CONSTANTS
    Job,         \* attempts, each with the job row it may create
    Artifact,    \* document artifacts
    ArtifactOf,  \* ArtifactOf[j]: the artifact attempt j processes
    PageCount,   \* PageCount[a]: how many pages the bytes of a paginate into
    Slow,        \* may an attempt outlive stale_job_after?
    Faults       \* the kinds of fault a behaviour may contain

FaultKinds == {"crash", "attempt", "db"}

ASSUME ProcessingAssumption ==
    /\ ArtifactOf \in [Job -> Artifact]
    /\ PageCount \in [Artifact -> Nat \ {0}]
    /\ Slow \in BOOLEAN
    /\ Faults \subseteq FaultKinds

VARIABLES
    \* PostgreSQL, committed
    jobStatus,   \* document_processing_jobs.status
    recovered,   \* jobs whose row was last written by the stale sweep
    aged,        \* jobs whose updated_at is older than stale_job_after
    pages,       \* rows of document_pages: <<attempt that wrote it, page number>>
    blocks,      \* document_blocks: the page rows that carry blocks
    \* the attempts
    pc,
    marks,       \* the stale jobs its sweep selected
    verdict,     \* result.status
    full,        \* the result has pages
    \* the statements of its open transaction
    ids,         \* page ids selected before the blocks are deleted
    snap,        \* page rows the DELETE of pages found when it began
    gonePages, goneBlocks, newPages, newBlocks,
    \* history
    overdue      \* aged jobs without a living attempt, seen when its sweep began

jobVars == <<jobStatus, recovered, aged>>
outVars == <<pages, blocks>>
txVars == <<ids, snap, gonePages, goneBlocks, newPages, newBlocks>>
resultVars == <<verdict, full>>
sweepVars == <<marks, overdue>>
vars == <<jobVars, outVars, pc, sweepVars, resultVars, txVars>>

Terminal == {"PROCESSED", "NEEDS_REVIEW", "FAILED"}
Replacing == {"deleteBlocks", "beginDelete", "deletePages", "insertPages",
              "insertBlocks", "commit"}
Working == {"created", "extract", "selectPages"} \cup Replacing
Stopped == {"done", "raised", "crashed"}
Phases == {"idle", "swept", "failing"} \cup Working \cup Stopped

Row == Job \X (Nat \ {0})

TypeOK ==
    /\ jobStatus \in [Job -> {"none", "PENDING", "PROCESSING"} \cup Terminal]
    /\ recovered \subseteq Job /\ aged \subseteq Job
    /\ pages \subseteq Row /\ blocks \subseteq Row
    /\ pc \in [Job -> Phases]
    /\ {marks, overdue} \subseteq [Job -> SUBSET Job]
    /\ verdict \in [Job -> Terminal] /\ full \in [Job -> BOOLEAN]
    /\ {ids, snap, gonePages, goneBlocks, newPages, newBlocks} \subseteq [Job -> SUBSET Row]

Nothing == [j \in Job |-> {}]

Init ==
    /\ jobStatus = [j \in Job |-> "none"]
    /\ recovered = {} /\ aged = {} /\ pages = {} /\ blocks = {}
    /\ pc = [j \in Job |-> "idle"]
    /\ marks = Nothing /\ overdue = Nothing
    /\ verdict = [j \in Job |-> "FAILED"] /\ full = [j \in Job |-> FALSE]
    /\ ids = Nothing /\ snap = Nothing /\ gonePages = Nothing
    /\ goneBlocks = Nothing /\ newPages = Nothing /\ newBlocks = Nothing

-----------------------------------------------------------------------------

Jump(j, from, to) == pc[j] = from /\ pc' = [pc EXCEPT ![j] = to]
SetTo(f, j, v) == [f EXCEPT ![j] = v]
Dead(j) == pc[j] \in {"crashed", "raised"}

\* The rows of j's artifact among some page rows.
OfArtifact(j, rows) == {row \in rows : ArtifactOf[row[1]] = ArtifactOf[j]}

\* The rows a full result of j is stored as.
FullRows(j) == {j} \X (1..PageCount[ArtifactOf[j]])

\* The end of a transaction drops its uncommitted writes and its locks.
EndTransaction(j) ==
    /\ ids' = SetTo(ids, j, {}) /\ snap' = SetTo(snap, j, {})
    /\ gonePages' = SetTo(gonePages, j, {}) /\ goneBlocks' = SetTo(goneBlocks, j, {})
    /\ newPages' = SetTo(newPages, j, {}) /\ newBlocks' = SetTo(newBlocks, j, {})

\* A row is overdue stale_job_after seconds after its last write.
Age(j) ==
    /\ jobStatus[j] \in {"PENDING", "PROCESSING"} /\ j \notin aged
    /\ Slow \/ Dead(j)
    /\ aged' = aged \cup {j}
    /\ UNCHANGED <<jobStatus, recovered, outVars, pc, sweepVars, resultVars, txVars>>

WriteJob(j, status) ==
    /\ jobStatus' = SetTo(jobStatus, j, status)
    /\ recovered' = recovered \ {j}
    /\ aged' = aged \ {j}

-----------------------------------------------------------------------------
(* Opening an attempt.                                                     *)

\* The artifact or its raw object has no row.
RefuseAttempt(j) ==
    /\ Jump(j, "idle", "raised")
    /\ UNCHANGED <<jobVars, outVars, sweepVars, resultVars, txVars>>

\* Seeded faults: the sweep looks for the wrong status, or forgets the time limit.
StalePending(j) == jobStatus[j] = "PENDING" /\ j \in aged
StaleAtOnce(j) == jobStatus[j] = "PROCESSING"

Stale(j) == jobStatus[j] = "PROCESSING" /\ j \in aged

\* mark_stale_processing_failed selects; its updates are flushed and committed later.
SelectStale(j) ==
    /\ Jump(j, "idle", "swept")
    /\ marks' = SetTo(marks, j, {k \in Job : Stale(k)})
    /\ overdue' = SetTo(overdue, j, {k \in aged : Dead(k)})
    /\ UNCHANGED <<jobVars, outVars, resultVars, txVars>>

\* UPDATE ... WHERE id = ... for each selected job, INSERT of the own PENDING row, COMMIT.
CreateJob(j) ==
    /\ Jump(j, "swept", "created")
    /\ jobStatus' = [k \in Job |-> IF k = j THEN "PENDING"
                                   ELSE IF k \in marks[j] THEN "FAILED" ELSE jobStatus[k]]
    /\ recovered' = recovered \cup marks[j]
    /\ aged' = aged \ marks[j]
    /\ marks' = SetTo(marks, j, {})
    /\ UNCHANGED <<outVars, overdue, resultVars, txVars>>

\* The sweep or the insert fails before there is a job.
CreateFails(j) ==
    /\ "db" \in Faults
    /\ Jump(j, "swept", "raised")
    /\ marks' = SetTo(marks, j, {})
    /\ UNCHANGED <<jobVars, outVars, overdue, resultVars, txVars>>

MarkProcessing(j) ==
    /\ Jump(j, "created", "extract")
    /\ WriteJob(j, "PROCESSING")
    /\ UNCHANGED <<outVars, sweepVars, resultVars, txVars>>

\* What the pipeline returns: FAILED results have no pages, PROCESSED ones have all.
Result == {<<"PROCESSED", TRUE>>, <<"NEEDS_REVIEW", TRUE>>,
           <<"NEEDS_REVIEW", FALSE>>, <<"FAILED", FALSE>>}

\* storage.get and processor.process, outside any transaction.
Extract(j, result) ==
    /\ Jump(j, "extract", "selectPages")
    /\ verdict' = SetTo(verdict, j, result[1])
    /\ full' = SetTo(full, j, result[2])
    /\ UNCHANGED <<jobVars, outVars, sweepVars, txVars>>

-----------------------------------------------------------------------------
(* Replacing pages and blocks: one transaction.                            *)

\* delete_for_document reads the page ids and stops when there are none.
SelectPages(j) ==
    LET found == OfArtifact(j, pages) IN
    /\ Jump(j, "selectPages", IF found = {} THEN "beginDelete" ELSE "deleteBlocks")
    /\ ids' = SetTo(ids, j, found)
    /\ UNCHANGED <<jobVars, outVars, sweepVars, resultVars, snap,
                   gonePages, goneBlocks, newPages, newBlocks>>

\* Rows another open transaction has deleted are waited for.
LockedBy(j, gone, rows) == \E k \in Job \ {j} : gone[k] \cap rows # {}

DeleteBlocks(j) ==
    LET rows == blocks \cap ids[j] IN
    /\ Jump(j, "deleteBlocks", "beginDelete")
    /\ ~ LockedBy(j, goneBlocks, rows)
    /\ goneBlocks' = SetTo(goneBlocks, j, rows)
    /\ UNCHANGED <<jobVars, outVars, sweepVars, resultVars, ids, snap,
                   gonePages, newPages, newBlocks>>

\* delete_by_document finds its rows when the statement begins ...
BeginDelete(j) ==
    /\ Jump(j, "beginDelete", "deletePages")
    /\ snap' = SetTo(snap, j, OfArtifact(j, pages))
    /\ UNCHANGED <<jobVars, outVars, sweepVars, resultVars, ids,
                   gonePages, goneBlocks, newPages, newBlocks>>

\* ... and waits for those another transaction is deleting.
DeletablePages(j) == snap[j] \cap pages

\* Blocks still on those pages: the foreign key refuses the DELETE.
Orphans(j) == (blocks \cap DeletablePages(j)) \ goneBlocks[j]

\* Seeded fault: the insert loop over result.pages is lost.
DeletePagesOnly(j) ==
    /\ Jump(j, "deletePages", "insertBlocks")
    /\ ~ LockedBy(j, gonePages, DeletablePages(j))
    /\ Orphans(j) = {}
    /\ gonePages' = SetTo(gonePages, j, DeletablePages(j))
    /\ UNCHANGED <<jobVars, outVars, sweepVars, resultVars, ids, snap,
                   goneBlocks, newPages, newBlocks>>

DeletePages(j) ==
    /\ Jump(j, "deletePages", IF full[j] THEN "insertPages" ELSE "insertBlocks")
    /\ ~ LockedBy(j, gonePages, DeletablePages(j))
    /\ Orphans(j) = {}
    /\ gonePages' = SetTo(gonePages, j, DeletablePages(j))
    /\ UNCHANGED <<jobVars, outVars, sweepVars, resultVars, ids, snap,
                   goneBlocks, newPages, newBlocks>>

ForeignKeyFails(j) ==
    /\ Jump(j, "deletePages", "failing")
    /\ ~ LockedBy(j, gonePages, DeletablePages(j))
    /\ Orphans(j) # {} /\ ~ LockedBy(j, goneBlocks, Orphans(j))
    /\ EndTransaction(j)
    /\ UNCHANGED <<jobVars, outVars, sweepVars, resultVars>>

\* Seeded fault: pages are numbered from zero.
NextPageFromZero(j) == Cardinality(newPages[j])

NextPage(j) == Cardinality(newPages[j]) + 1

\* Seeded fault: no unique index on (document_id, page_number).
ClashingNever(j) == {}

\* Committed rows with j's next page number that j has not deleted.
Clashing(j) == {row \in OfArtifact(j, pages) \ gonePages[j] : row[2] = NextPage(j)}

\* The unique index makes j wait for an open transaction that inserted the same number or
\* is deleting it.
WaitsToInsert(j) ==
    \/ LockedBy(j, gonePages, Clashing(j))
    \/ \E k \in Job \ {j} : \E row \in OfArtifact(j, newPages[k]) : row[2] = NextPage(j)

InsertPage(j) ==
    /\ Jump(j, "insertPages",
            IF NextPage(j) = PageCount[ArtifactOf[j]] THEN "insertBlocks" ELSE "insertPages")
    /\ ~ WaitsToInsert(j) /\ Clashing(j) = {}
    /\ newPages' = SetTo(newPages, j, newPages[j] \cup {<<j, NextPage(j)>>})
    /\ UNCHANGED <<jobVars, outVars, sweepVars, resultVars, ids, snap,
                   gonePages, goneBlocks, newBlocks>>

UniqueKeyFails(j) ==
    /\ Jump(j, "insertPages", "failing")
    /\ ~ WaitsToInsert(j) /\ Clashing(j) # {}
    /\ EndTransaction(j)
    /\ UNCHANGED <<jobVars, outVars, sweepVars, resultVars>>

\* Blocks go to the page ids just created; blocks of other page numbers are dropped.
InsertBlocks(j) ==
    /\ Jump(j, "insertBlocks", "commit")
    /\ newBlocks' = SetTo(newBlocks, j, newPages[j])
    /\ UNCHANGED <<jobVars, outVars, sweepVars, resultVars, ids, snap,
                   gonePages, goneBlocks, newPages>>

\* Seeded fault: the output is committed before the verdict is written.
CommitOutputFirst(j) ==
    /\ Jump(j, "commit", "failing")
    /\ pages' = (pages \ gonePages[j]) \cup newPages[j]
    /\ blocks' = (blocks \ goneBlocks[j]) \cup newBlocks[j]
    /\ EndTransaction(j)
    /\ UNCHANGED <<jobVars, sweepVars, resultVars>>

\* mark_finished writes the verdict over whatever the row says; COMMIT shows everything.
CommitResult(j) ==
    /\ Jump(j, "commit", "done")
    /\ pages' = (pages \ gonePages[j]) \cup newPages[j]
    /\ blocks' = (blocks \ goneBlocks[j]) \cup newBlocks[j]
    /\ WriteJob(j, verdict[j])
    /\ EndTransaction(j)
    /\ UNCHANGED <<sweepVars, resultVars>>

-----------------------------------------------------------------------------
(* Failing.                                                                *)

\* Storage, the pipeline or the database raises: rollback.
AttemptFails(j) ==
    /\ "attempt" \in Faults
    /\ pc[j] \in Working
    /\ pc' = [pc EXCEPT ![j] = "failing"]
    /\ EndTransaction(j)
    /\ UNCHANGED <<jobVars, outVars, sweepVars, resultVars>>

\* Seeded fault: the exception is swallowed and the job forgotten.
FailureSwallowed(j) ==
    /\ Jump(j, "failing", "done")
    /\ UNCHANGED <<jobVars, outVars, sweepVars, resultVars, txVars>>

\* _mark_job_failed, in a transaction of its own, then the exception goes on.
MarkJobFailed(j) ==
    /\ Jump(j, "failing", "raised")
    /\ WriteJob(j, "FAILED")
    /\ UNCHANGED <<outVars, sweepVars, resultVars, txVars>>

MarkJobFailedFails(j) ==
    /\ "db" \in Faults
    /\ Jump(j, "failing", "raised")
    /\ UNCHANGED <<jobVars, outVars, sweepVars, resultVars, txVars>>

\* The process stops, or the task is cancelled: no handler runs.
Crash(j) ==
    /\ "crash" \in Faults
    /\ pc[j] \notin Stopped \cup {"idle"}
    /\ pc' = [pc EXCEPT ![j] = "crashed"]
    /\ marks' = SetTo(marks, j, {})
    /\ EndTransaction(j)
    /\ UNCHANGED <<jobVars, outVars, overdue, resultVars>>

-----------------------------------------------------------------------------

Progress(j) ==
    \/ CreateJob(j) \/ MarkProcessing(j)
    \/ \E result \in Result : Extract(j, result)
    \/ SelectPages(j) \/ DeleteBlocks(j) \/ BeginDelete(j) \/ DeletePages(j)
    \/ InsertPage(j) \/ InsertBlocks(j) \/ CommitResult(j)
    \/ ForeignKeyFails(j) \/ UniqueKeyFails(j) \/ MarkJobFailed(j)

Environment(j) ==
    \/ RefuseAttempt(j) \/ SelectStale(j) \/ Age(j)
    \/ CreateFails(j) \/ AttemptFails(j) \/ MarkJobFailedFails(j) \/ Crash(j)

AllStopped == (\A j \in Job : pc[j] \in Stopped) /\ UNCHANGED vars

Next == (\E j \in Job : Progress(j) \/ Environment(j)) \/ AllStopped

Spec == Init /\ [][Next]_vars

-----------------------------------------------------------------------------
(* Properties.                                                             *)

\* The pages and blocks a reader finds for an artifact are the complete output of one
\* attempt, or nothing: no mixture, no page without its blocks, no block without a page,
\* whichever attempts replace them at the same time and wherever they stop.
OutputWhole ==
    \A a \in Artifact :
        LET rows == {row \in pages : ArtifactOf[row[1]] = a}
        IN /\ rows = {} \/ \E j \in Job : rows = FullRows(j)
           /\ {row \in blocks : ArtifactOf[row[1]] = a} = rows

\* Stored output belongs to an attempt whose job says so: its verdict is on record,
\* unless a sweep took it for dead.
OutputOnRecord ==
    \A row \in pages :
        jobStatus[row[1]] \in {"PROCESSED", "NEEDS_REVIEW"} \/ row[1] \in recovered

\* Whatever the statements of concurrent replacements meet, each takes effect as one step, in
\* which the verdict is written, or not at all: that is all ProcessingAtomic lets happen.
Atomic == INSTANCE ProcessingAtomic WITH
              status <- jobStatus,
              ended <- {j \in Job : pc[j] \in Stopped /\ jobStatus[j] # "none"}
ReplacementsAreAtomic == Atomic!Spec

\* A PROCESSED job leaves its artifact with pages, unless a finished attempt at the same
\* artifact had none to store.
ProcessedLeavesPages ==
    \A j \in Job : jobStatus[j] = "PROCESSED" =>
        \/ OfArtifact(j, pages) # {}
        \/ \E k \in Job : ArtifactOf[k] = ArtifactOf[j] /\ pc[k] = "done" /\ ~ full[k]

\* A job left PROCESSING by a dead attempt is closed by the next attempt that starts
\* after the time limit.
StaleRecovered ==
    \A j, k \in Job : k \in overdue[j] /\ pc[j] \in Working \cup {"done"} =>
        jobStatus[k] # "PROCESSING"

\* Every attempt ends in a terminal state, the dead ones by the next attempt's recovery.
DeadAttemptsTerminal ==
    \A j, k \in Job : k \in overdue[j] /\ pc[j] \in Working \cup {"done"} =>
        jobStatus[k] \in Terminal

\* A recorded verdict is final, as long as no living attempt is taken for dead.
VerdictFinal ==
    [][\A j \in Job : jobStatus[j] \in Terminal => jobStatus'[j] = jobStatus[j]]_vars

\* An attempt that has a job and is not killed comes to a verdict: its waits for the
\* rows of other attempts end.
AttemptsEnd ==
    \A j \in Job : jobStatus[j] \in {"PENDING", "PROCESSING"} ~>
        jobStatus[j] \in Terminal \/ Dead(j)
=============================================================================
