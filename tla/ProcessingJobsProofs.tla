------------------------ MODULE ProcessingJobsProofs ------------------------
(***************************************************************************)
(* Safety of process_document for any number of attempts, artifacts and    *)
(* pages, slow attempts and any set of faults: what concurrent             *)
(* replacements leave in document_pages and document_blocks.               *)
(***************************************************************************)
EXTENDS ProcessingJobs, FiniteSetTheorems, TLAPS

-----------------------------------------------------------------------------
(* The inductive invariant.                                                *)

\* Rows of j's artifact that are the output of one attempt, or none.
WholeOf(j, rows) ==
    rows = {} \/ \E k \in Job : ArtifactOf[k] = ArtifactOf[j] /\ rows = FullRows(k)

StoredWhole ==
    \A j \in Job : /\ WholeOf(j, OfArtifact(j, pages))
                   /\ OfArtifact(j, blocks) = OfArtifact(j, pages)

Deleted == {"insertPages", "insertBlocks", "commit"}

\* What the transaction of j has deleted and inserted by each of its statements: the rows
\* it deletes are stored ones and it deletes all pages of its artifact or none; the pages it
\* inserts are numbered from one, and while there are any, no page of others is left.
TxInv(j) ==
    /\ pc[j] \notin Replacing \ {"deleteBlocks"} => goneBlocks[j] = {}
    /\ pc[j] = "deleteBlocks" => ids[j] = OfArtifact(j, ids[j])
    /\ pc[j] \notin Deleted => gonePages[j] = {} /\ newPages[j] = {}
    /\ pc[j] = "deletePages" => WholeOf(j, snap[j]) /\ goneBlocks[j] \subseteq snap[j]
    /\ pc[j] \in Deleted => gonePages[j] = goneBlocks[j]
    /\ goneBlocks[j] \subseteq OfArtifact(j, pages)
    /\ gonePages[j] \in {{}, OfArtifact(j, pages)}
    /\ newPages[j] # {} => OfArtifact(j, pages) \subseteq gonePages[j]
    /\ pc[j] = "insertPages" =>
          /\ full[j]
          /\ \E n \in Nat : /\ n < PageCount[ArtifactOf[j]]
                            /\ newPages[j] = {j} \X (1..n)
                            /\ IsFiniteSet(newPages[j]) /\ Cardinality(newPages[j]) = n
    /\ pc[j] \in {"insertBlocks", "commit"} =>
          newPages[j] = IF full[j] THEN FullRows(j) ELSE {}
    /\ pc[j] = "commit" => newBlocks[j] = newPages[j]

\* No row is deleted by two open transactions, and only one inserts into an artifact.
Exclusive ==
    \A j \in Job : \A k \in Job \ {j} :
        /\ goneBlocks[j] \cap goneBlocks[k] = {}
        /\ newPages[j] # {} /\ newPages[k] # {} => ArtifactOf[j] # ArtifactOf[k]

\* Results with pages are no failures, and stored pages are those of finished attempts.
ResultInv ==
    /\ \A j \in Job : full[j] => verdict[j] \in {"PROCESSED", "NEEDS_REVIEW"}
    /\ \A j \in Job : verdict[j] = "PROCESSED" => full[j]
    /\ \A row \in pages : pc[row[1]] = "done"

\* A sweep that has begun has selected the jobs it found overdue, and their attempts are
\* dead for good.
SweepInv ==
    \A j \in Job : \A k \in overdue[j] :
        /\ Dead(k)
        /\ pc[j] = "swept" /\ jobStatus[k] = "PROCESSING" => k \in marks[j]
        /\ pc[j] \in Working \cup {"done"} => jobStatus[k] # "PROCESSING"

IInv ==
    /\ TypeOK
    /\ StoredWhole
    /\ \A j \in Job : TxInv(j)
    /\ Exclusive
    /\ ResultInv
    /\ OutputOnRecord
    /\ ProcessedLeavesPages
    /\ SweepInv

-----------------------------------------------------------------------------
(* The type invariant, variable by variable.                               *)

Typed ==
    /\ jobStatus \in [Job -> {"none", "PENDING", "PROCESSING"} \cup Terminal]
    /\ recovered \subseteq Job /\ aged \subseteq Job
    /\ pages \subseteq Row /\ blocks \subseteq Row
    /\ pc \in [Job -> Phases]
    /\ marks \in [Job -> SUBSET Job] /\ overdue \in [Job -> SUBSET Job]
    /\ verdict \in [Job -> Terminal] /\ full \in [Job -> BOOLEAN]
    /\ ids \in [Job -> SUBSET Row] /\ snap \in [Job -> SUBSET Row]
    /\ gonePages \in [Job -> SUBSET Row] /\ goneBlocks \in [Job -> SUBSET Row]
    /\ newPages \in [Job -> SUBSET Row] /\ newBlocks \in [Job -> SUBSET Row]

LEMMA TypedParts == TypeOK <=> Typed
BY DEF TypeOK, Typed

LEMMA TypedPartsNext == TypeOK' <=> Typed'
BY DEF TypeOK, Typed

Step(j) == Progress(j) \/ Environment(j)

\* What a step of another attempt leaves of k's own state.
Untouched(k) ==
    /\ pc'[k] = pc[k] /\ marks'[k] = marks[k] /\ overdue'[k] = overdue[k]
    /\ verdict'[k] = verdict[k] /\ full'[k] = full[k]
    /\ ids'[k] = ids[k] /\ snap'[k] = snap[k]
    /\ gonePages'[k] = gonePages[k] /\ goneBlocks'[k] = goneBlocks[k]
    /\ newPages'[k] = newPages[k] /\ newBlocks'[k] = newBlocks[k]

\* The steps that neither read nor write an open transaction.
Outside(j) ==
    \/ RefuseAttempt(j) \/ SelectStale(j) \/ CreateFails(j) \/ CreateJob(j)
    \/ MarkProcessing(j) \/ (\E result \in Result : Extract(j, result))
    \/ MarkJobFailed(j) \/ MarkJobFailedFails(j)

Rollback(j) == ForeignKeyFails(j) \/ UniqueKeyFails(j) \/ AttemptFails(j) \/ Crash(j)

Statement(j) ==
    \/ SelectPages(j) \/ DeleteBlocks(j) \/ BeginDelete(j) \/ DeletePages(j)
    \/ InsertPage(j) \/ InsertBlocks(j)

LEMMA StepKinds ==
    ASSUME NEW j \in Job, Step(j)
    PROVE  Age(j) \/ Outside(j) \/ Rollback(j) \/ Statement(j) \/ CommitResult(j)
BY DEF Step, Progress, Environment, Outside, Rollback, Statement

LEMMA StepTouchesOwn ==
    ASSUME Typed, NEW j \in Job, Step(j), NEW k \in Job \ {j}
    PROVE  Untouched(k)
<1>. USE DEF Typed, Untouched, Jump, SetTo, vars, jobVars, outVars, txVars, resultVars, sweepVars
<1>1. CASE RefuseAttempt(j)
  BY <1>1 DEF RefuseAttempt
<1>2. CASE SelectStale(j)
  BY <1>2 DEF SelectStale
<1>3. CASE Age(j)
  BY <1>3 DEF Age
<1>4. CASE CreateFails(j)
  BY <1>4 DEF CreateFails
<1>5. CASE CreateJob(j)
  BY <1>5 DEF CreateJob
<1>6. CASE MarkProcessing(j)
  BY <1>6 DEF MarkProcessing, WriteJob
<1>7. ASSUME NEW result \in Result, Extract(j, result) PROVE Untouched(k)
  BY <1>7 DEF Extract
<1>8. CASE MarkJobFailed(j)
  BY <1>8 DEF MarkJobFailed, WriteJob
<1>9. CASE MarkJobFailedFails(j)
  BY <1>9 DEF MarkJobFailedFails
<1>10. CASE ForeignKeyFails(j)
  BY <1>10 DEF ForeignKeyFails, EndTransaction
<1>11. CASE UniqueKeyFails(j)
  BY <1>11 DEF UniqueKeyFails, EndTransaction
<1>12. CASE AttemptFails(j)
  BY <1>12 DEF AttemptFails, EndTransaction
<1>13. CASE Crash(j)
  BY <1>13 DEF Crash, EndTransaction
<1>14. CASE SelectPages(j)
  BY <1>14 DEF SelectPages
<1>15. CASE DeleteBlocks(j)
  BY <1>15 DEF DeleteBlocks
<1>16. CASE BeginDelete(j)
  BY <1>16 DEF BeginDelete
<1>17. CASE DeletePages(j)
  BY <1>17 DEF DeletePages
<1>18. CASE InsertPage(j)
  BY <1>18 DEF InsertPage
<1>19. CASE InsertBlocks(j)
  BY <1>19 DEF InsertBlocks
<1>20. CASE CommitResult(j)
  BY <1>20 DEF CommitResult, WriteJob, EndTransaction
<1>. QED
  BY <1>1, <1>2, <1>3, <1>4, <1>5, <1>6, <1>7, <1>8, <1>9, <1>10, <1>11, <1>12, <1>13,
     <1>14, <1>15, <1>16, <1>17, <1>18, <1>19, <1>20 DEF Step, Progress, Environment

LEMMA OutsideEffect ==
    ASSUME Typed, NEW j \in Job, Outside(j)
    PROVE  /\ UNCHANGED <<outVars, txVars>>
           /\ pc[j] \notin Replacing \cup Stopped /\ pc'[j] \notin Replacing \cup {"done"}
           /\ \/ UNCHANGED resultVars
              \/ \E result \in Result : /\ verdict' = SetTo(verdict, j, result[1])
                                        /\ full' = SetTo(full, j, result[2])
<1>. USE DEF Typed, Jump, SetTo, vars, jobVars, outVars, txVars, resultVars, sweepVars,
             Replacing, Stopped
<1>1. ASSUME NEW result \in Result, Extract(j, result)
      PROVE  /\ UNCHANGED <<outVars, txVars>>
             /\ pc[j] \notin Replacing \cup Stopped /\ pc'[j] \notin Replacing \cup {"done"}
             /\ verdict' = SetTo(verdict, j, result[1]) /\ full' = SetTo(full, j, result[2])
  BY <1>1 DEF Extract
<1>2. CASE RefuseAttempt(j) \/ SelectStale(j) \/ CreateFails(j)
  BY <1>2 DEF RefuseAttempt, SelectStale, CreateFails
<1>3. CASE CreateJob(j) \/ MarkProcessing(j) \/ MarkJobFailed(j) \/ MarkJobFailedFails(j)
  BY <1>3 DEF CreateJob, MarkProcessing, MarkJobFailed, MarkJobFailedFails, WriteJob
<1>. QED
  BY <1>1, <1>2, <1>3 DEF Outside

LEMMA RollbackEffect ==
    ASSUME Typed, NEW j \in Job, Rollback(j)
    PROVE  /\ UNCHANGED <<jobVars, outVars, resultVars, overdue>> /\ EndTransaction(j)
           /\ pc[j] \notin Stopped /\ pc'[j] \in {"failing", "crashed"}
BY DEF Rollback, ForeignKeyFails, UniqueKeyFails, AttemptFails, Crash, Typed, Jump, SetTo,
       vars, jobVars, outVars, resultVars, sweepVars, Working, Replacing, Stopped

LEMMA StatementEffect ==
    ASSUME Typed, NEW j \in Job, Statement(j)
    PROVE  /\ UNCHANGED <<jobVars, outVars, resultVars, sweepVars>>
           /\ pc[j] \in {"selectPages"} \cup Replacing /\ pc'[j] \in Replacing
BY DEF Statement, SelectPages, DeleteBlocks, BeginDelete, DeletePages, InsertPage, InsertBlocks,
       Typed, Jump, SetTo, Working, Replacing, jobVars, outVars, resultVars, sweepVars

-----------------------------------------------------------------------------
(* Rows.                                                                   *)

LEMMA RowsOfAttempt ==
    ASSUME ProcessingAssumption, NEW j \in Job
    PROVE  /\ FullRows(j) \subseteq Row /\ <<j, 1>> \in FullRows(j)
           /\ \A row \in FullRows(j) : row[1] = j
<1>1. PageCount[ArtifactOf[j]] \in Nat \ {0}
  BY DEF ProcessingAssumption
<1>. QED
  BY <1>1 DEF FullRows, Row

\* Two outputs of one artifact are the same rows or have none in common.
LEMMA OutputsAlikeOrApart ==
    ASSUME ProcessingAssumption, NEW j \in Job, NEW r, NEW s, WholeOf(j, r), WholeOf(j, s)
    PROVE  r \cap s \in {{}, r}
<1>1. ASSUME NEW k \in Job, NEW m \in Job, r = FullRows(k), s = FullRows(m)
      PROVE  r \cap s \in {{}, r}
  <2>1. ASSUME k # m, NEW row \in r, row \in s PROVE FALSE
    <3>1. row[1] = k /\ row[1] = m
      BY <1>1, <2>1 DEF FullRows
    <3>. QED
      BY <2>1, <3>1
  <2>2. k = m => r \cap s = r
    BY <1>1
  <2>. QED
    BY <2>1, <2>2
<1>. QED
  BY <1>1 DEF WholeOf

\* An open transaction that has inserted a page has inserted page one.
LEMMA FirstPageFirst ==
    ASSUME ProcessingAssumption, NEW j \in Job, TxInv(j), newPages[j] # {}
    PROVE  <<j, 1>> \in newPages[j] /\ pc[j] \in Deleted
<1>1. pc[j] \in Deleted
  BY DEF TxInv
<1>2. CASE pc[j] = "insertPages"
  <2>1. PICK n \in Nat : newPages[j] = {j} \X (1..n)
    BY <1>2 DEF TxInv
  <2>. QED
    BY <1>1, <2>1
<1>3. CASE pc[j] # "insertPages"
  BY <1>1, <1>3, RowsOfAttempt DEF TxInv, Deleted
<1>. QED
  BY <1>2, <1>3

-----------------------------------------------------------------------------
(* Types are kept.                                                         *)

LEMMA ResultParts ==
    ASSUME NEW result \in Result
    PROVE  /\ result[1] \in Terminal /\ result[2] \in BOOLEAN
           /\ result[2] => result[1] \in {"PROCESSED", "NEEDS_REVIEW"}
           /\ result[1] = "PROCESSED" => result[2]
<1>1. CASE result = <<"PROCESSED", TRUE>>
  BY <1>1 DEF Terminal
<1>2. CASE result = <<"NEEDS_REVIEW", TRUE>>
  BY <1>2 DEF Terminal
<1>3. CASE result = <<"NEEDS_REVIEW", FALSE>>
  BY <1>3 DEF Terminal
<1>4. CASE result = <<"FAILED", FALSE>>
  BY <1>4 DEF Terminal
<1>. QED
  BY <1>1, <1>2, <1>3, <1>4 DEF Result

LEMMA NextPageIsNumber ==
    ASSUME NEW j \in Job, TxInv(j), pc[j] = "insertPages"
    PROVE  NextPage(j) \in Nat \ {0}
BY DEF TxInv, NextPage

LEMMA TypesKept ==
    ASSUME ProcessingAssumption, Typed, NEW j \in Job, TxInv(j), Step(j)
    PROVE  Typed'
<1>. USE DEF Typed, Jump, SetTo, vars, jobVars, outVars, txVars, resultVars, sweepVars, Phases,
             Stopped, Working, Replacing, Terminal
<1>1. CASE RefuseAttempt(j)
  BY <1>1 DEF RefuseAttempt
<1>2. CASE SelectStale(j)
  BY <1>2 DEF SelectStale
<1>3. CASE Age(j)
  BY <1>3 DEF Age
<1>4. CASE CreateFails(j)
  BY <1>4 DEF CreateFails
<1>5. CASE CreateJob(j)
  BY <1>5 DEF CreateJob
<1>6. CASE MarkProcessing(j)
  BY <1>6 DEF MarkProcessing, WriteJob
<1>7. ASSUME NEW result \in Result, Extract(j, result) PROVE Typed'
  <2>1. result[1] \in Terminal /\ result[2] \in BOOLEAN
    BY ResultParts
  <2>. QED
    BY <1>7, <2>1 DEF Extract
<1>8. CASE MarkJobFailed(j)
  BY <1>8 DEF MarkJobFailed, WriteJob
<1>9. CASE MarkJobFailedFails(j)
  BY <1>9 DEF MarkJobFailedFails
<1>10. CASE ForeignKeyFails(j)
  BY <1>10 DEF ForeignKeyFails, EndTransaction
<1>11. CASE UniqueKeyFails(j)
  BY <1>11 DEF UniqueKeyFails, EndTransaction
<1>12. CASE AttemptFails(j)
  BY <1>12 DEF AttemptFails, EndTransaction
<1>13. CASE Crash(j)
  BY <1>13 DEF Crash, EndTransaction
<1>14. CASE SelectPages(j)
  BY <1>14 DEF SelectPages, OfArtifact
<1>15. CASE DeleteBlocks(j)
  BY <1>15 DEF DeleteBlocks
<1>16. CASE BeginDelete(j)
  BY <1>16 DEF BeginDelete, OfArtifact
<1>17. CASE DeletePages(j)
  BY <1>17 DEF DeletePages, DeletablePages
<1>18. CASE InsertPage(j)
  <2>1. NextPage(j) \in Nat \ {0}
    BY <1>18, NextPageIsNumber DEF InsertPage
  <2>2. <<j, NextPage(j)>> \in Row
    BY <2>1 DEF Row
  <2>. QED
    BY <1>18, <2>2 DEF InsertPage
<1>19. CASE InsertBlocks(j)
  BY <1>19 DEF InsertBlocks
<1>20. CASE CommitResult(j)
  BY <1>20 DEF CommitResult, WriteJob, EndTransaction
<1>. QED
  BY <1>1, <1>2, <1>3, <1>4, <1>5, <1>6, <1>7, <1>8, <1>9, <1>10, <1>11, <1>12, <1>13,
     <1>14, <1>15, <1>16, <1>17, <1>18, <1>19, <1>20 DEF Step, Progress, Environment

-----------------------------------------------------------------------------
(* Open transactions.                                                      *)

LEMMA TxOfOthers ==
    ASSUME NEW k \in Job, TxInv(k), Untouched(k), pages' = pages
    PROVE  TxInv(k)'
BY DEF TxInv, Untouched, WholeOf, OfArtifact, FullRows

LEMMA TxClosed ==
    ASSUME Typed, NEW j \in Job, TxInv(j), Age(j) \/ Outside(j) \/ Rollback(j)
    PROVE  TxInv(j)' /\ goneBlocks'[j] \subseteq goneBlocks[j] /\ newPages'[j] \subseteq newPages[j]
<1>1. CASE Age(j)
  BY <1>1 DEF Age, TxInv, WholeOf, OfArtifact, FullRows, outVars, txVars, resultVars
<1>2. CASE Outside(j)
  <2>1. /\ pages' = pages /\ gonePages' = gonePages /\ goneBlocks' = goneBlocks
        /\ newPages' = newPages /\ pc[j] \notin Replacing /\ pc'[j] \notin Replacing
    BY <1>2, OutsideEffect DEF outVars, txVars
  <2>2. gonePages[j] = {} /\ goneBlocks[j] = {} /\ newPages[j] = {}
    BY <2>1 DEF TxInv, Replacing, Deleted
  <2>. QED
    BY <2>1, <2>2 DEF TxInv, Replacing, Deleted
<1>3. CASE Rollback(j)
  <2>1. /\ gonePages'[j] = {} /\ goneBlocks'[j] = {} /\ newPages'[j] = {}
        /\ pc'[j] \in {"failing", "crashed"}
    BY <1>3, RollbackEffect DEF EndTransaction, SetTo, Typed
  <2>. QED
    BY <2>1 DEF TxInv, Deleted
<1>. QED
  BY <1>1, <1>2, <1>3

\* The rows of an artifact that carry blocks are its pages.
LEMMA BlocksArePages ==
    ASSUME StoredWhole, NEW j \in Job, NEW row \in pages, ArtifactOf[row[1]] = ArtifactOf[j]
    PROVE  row \in blocks
BY DEF StoredWhole, OfArtifact

LEMMA WholeIsOfArtifact ==
    ASSUME ProcessingAssumption, NEW j \in Job, NEW rows, WholeOf(j, rows), NEW row \in rows
    PROVE  ArtifactOf[row[1]] = ArtifactOf[j]
<1>1. PICK k \in Job : ArtifactOf[k] = ArtifactOf[j] /\ rows = FullRows(k)
  BY DEF WholeOf
<1>. QED
  BY <1>1, RowsOfAttempt

LEMMA TxSelectPages ==
    ASSUME Typed, NEW j \in Job, TxInv(j), SelectPages(j)
    PROVE  TxInv(j)' /\ goneBlocks'[j] = goneBlocks[j] /\ newPages'[j] = newPages[j]
<1>1. /\ pc[j] = "selectPages" /\ pc'[j] \in {"beginDelete", "deleteBlocks"}
      /\ ids'[j] = OfArtifact(j, pages) /\ pages' = pages /\ gonePages' = gonePages
      /\ goneBlocks' = goneBlocks /\ newPages' = newPages
  BY DEF SelectPages, Jump, SetTo, Typed, outVars
<1>2. gonePages[j] = {} /\ goneBlocks[j] = {} /\ newPages[j] = {}
  BY <1>1 DEF TxInv, Replacing, Deleted
<1>3. ids'[j] = OfArtifact(j, ids'[j])
  BY <1>1 DEF OfArtifact
<1>. QED
  BY <1>1, <1>2, <1>3 DEF TxInv, Replacing, Deleted, OfArtifact

LEMMA TxDeleteBlocks ==
    ASSUME Typed, StoredWhole, NEW j \in Job, TxInv(j), DeleteBlocks(j)
    PROVE  /\ TxInv(j)' /\ newPages'[j] = newPages[j]
           /\ \A k \in Job \ {j} : goneBlocks'[j] \cap goneBlocks[k] = {}
<1>1. /\ pc[j] = "deleteBlocks" /\ pc'[j] = "beginDelete" /\ pages' = pages
      /\ goneBlocks'[j] = blocks \cap ids[j] /\ gonePages' = gonePages /\ newPages' = newPages
      /\ \A k \in Job \ {j} : goneBlocks[k] \cap (blocks \cap ids[j]) = {}
  BY DEF DeleteBlocks, LockedBy, Jump, SetTo, Typed, outVars
<1>2. gonePages[j] = {} /\ newPages[j] = {} /\ ids[j] = OfArtifact(j, ids[j])
  BY <1>1 DEF TxInv, Deleted
<1>3. blocks \cap ids[j] \subseteq OfArtifact(j, blocks)
  BY <1>2 DEF OfArtifact
<1>4. goneBlocks'[j] \subseteq OfArtifact(j, pages')
  BY <1>1, <1>3 DEF StoredWhole
<1>. QED
  BY <1>1, <1>2, <1>4 DEF TxInv, Replacing, Deleted

LEMMA TxBeginDelete ==
    ASSUME Typed, StoredWhole, NEW j \in Job, TxInv(j), BeginDelete(j)
    PROVE  TxInv(j)' /\ goneBlocks'[j] = goneBlocks[j] /\ newPages'[j] = newPages[j]
<1>1. /\ pc[j] = "beginDelete" /\ pc'[j] = "deletePages" /\ pages' = pages
      /\ snap'[j] = OfArtifact(j, pages) /\ gonePages' = gonePages
      /\ goneBlocks' = goneBlocks /\ newPages' = newPages
  BY DEF BeginDelete, Jump, SetTo, Typed, outVars
<1>2. gonePages[j] = {} /\ newPages[j] = {} /\ goneBlocks[j] \subseteq OfArtifact(j, pages)
  BY <1>1 DEF TxInv, Deleted
<1>3. WholeOf(j, snap'[j])
  BY <1>1 DEF StoredWhole
<1>4. WholeOf(j, snap[j])'
  BY <1>3 DEF WholeOf, FullRows
<1>. QED
  BY <1>1, <1>2, <1>4 DEF TxInv, Replacing, Deleted

LEMMA TxDeletePages ==
    ASSUME ProcessingAssumption, Typed, StoredWhole, NEW j \in Job, TxInv(j), DeletePages(j)
    PROVE  TxInv(j)' /\ goneBlocks'[j] = goneBlocks[j] /\ newPages'[j] = newPages[j]
<1>1. /\ pc[j] = "deletePages" /\ pc'[j] = IF full[j] THEN "insertPages" ELSE "insertBlocks"
      /\ gonePages'[j] = snap[j] \cap pages /\ pages' = pages /\ full' = full
      /\ (blocks \cap (snap[j] \cap pages)) \ goneBlocks[j] = {}
      /\ goneBlocks' = goneBlocks /\ newPages' = newPages
  BY DEF DeletePages, Orphans, DeletablePages, Jump, SetTo, Typed, outVars, resultVars
<1>2. /\ WholeOf(j, snap[j]) /\ goneBlocks[j] \subseteq snap[j]
      /\ goneBlocks[j] \subseteq OfArtifact(j, pages) /\ newPages[j] = {}
  BY <1>1 DEF TxInv, Deleted
<1>3. snap[j] \cap pages = snap[j] \cap OfArtifact(j, pages)
  BY <1>2, WholeIsOfArtifact DEF OfArtifact
<1>4. gonePages'[j] = goneBlocks'[j]
  <2>1. snap[j] \cap pages \subseteq goneBlocks[j]
    BY <1>1, <1>2, WholeIsOfArtifact, BlocksArePages
  <2>2. goneBlocks[j] \subseteq snap[j] \cap pages
    BY <1>2, <1>3
  <2>. QED
    BY <1>1, <2>1, <2>2
<1>5. gonePages'[j] \in {{}, OfArtifact(j, pages)}
  <2>1. WholeOf(j, OfArtifact(j, pages))
    BY DEF StoredWhole
  <2>2. OfArtifact(j, pages) \cap snap[j] \in {{}, OfArtifact(j, pages)}
    BY <1>2, <2>1, OutputsAlikeOrApart
  <2>. QED
    BY <1>1, <1>3, <2>2
<1>6. full[j] => /\ 0 < PageCount[ArtifactOf[j]] /\ newPages[j] = {j} \X (1..0)
                 /\ IsFiniteSet(newPages[j]) /\ Cardinality(newPages[j]) = 0
  <2>1. PageCount[ArtifactOf[j]] \in Nat \ {0}
    BY DEF ProcessingAssumption
  <2>2. {j} \X (1..0) = {}
    OBVIOUS
  <2>. QED
    BY <1>2, <2>1, <2>2, FS_EmptySet
<1>7. OfArtifact(j, pages') = OfArtifact(j, pages)
  BY <1>1
<1>. QED
  BY <1>1, <1>2, <1>4, <1>5, <1>6, <1>7 DEF TxInv, Replacing, Deleted

LEMMA TxInsertPage ==
    ASSUME ProcessingAssumption, Typed, StoredWhole, NEW j \in Job, TxInv(j), InsertPage(j)
    PROVE  /\ TxInv(j)' /\ goneBlocks'[j] = goneBlocks[j]
           /\ \A k \in Job \ {j} :
                 TxInv(k) /\ newPages[j] = {} /\ newPages[k] # {} => ArtifactOf[k] # ArtifactOf[j]
<1>1. /\ pc[j] = "insertPages" /\ pages' = pages /\ full' = full
      /\ pc'[j] = IF NextPage(j) = PageCount[ArtifactOf[j]] THEN "insertBlocks" ELSE "insertPages"
      /\ newPages'[j] = newPages[j] \cup {<<j, NextPage(j)>>}
      /\ gonePages' = gonePages /\ goneBlocks' = goneBlocks
      /\ ~ WaitsToInsert(j) /\ Clashing(j) = {}
  BY DEF InsertPage, Jump, SetTo, Typed, outVars, resultVars
<1>2. PICK n \in Nat : /\ full[j] /\ n < PageCount[ArtifactOf[j]] /\ newPages[j] = {j} \X (1..n)
                       /\ IsFiniteSet(newPages[j]) /\ Cardinality(newPages[j]) = n
  BY <1>1 DEF TxInv
<1>empty. newPages[j] = {} => n = 0
  BY <1>2, FS_EmptySet
<1>3. NextPage(j) = n + 1 /\ PageCount[ArtifactOf[j]] \in Nat
  BY <1>2 DEF NextPage, ProcessingAssumption
<1>4. /\ newPages'[j] = {j} \X (1..(n + 1))
      /\ IsFiniteSet(newPages'[j]) /\ Cardinality(newPages'[j]) = n + 1
  <2>1. <<j, n + 1>> \notin newPages[j]
    BY <1>2
  <2>2. {j} \X (1..(n + 1)) = ({j} \X (1..n)) \cup {<<j, n + 1>>}
    OBVIOUS
  <2>3. newPages'[j] = newPages[j] \cup {<<j, n + 1>>}
    BY <1>1, <1>3
  <2>4. /\ IsFiniteSet(newPages[j] \cup {<<j, n + 1>>})
        /\ Cardinality(newPages[j] \cup {<<j, n + 1>>}) = n + 1
    BY <1>2, <2>1, FS_AddElement
  <2>. QED
    BY <1>2, <2>2, <2>3, <2>4
<1>5. OfArtifact(j, pages) \subseteq gonePages[j]
  <2>1. CASE newPages[j] # {}
    BY <2>1 DEF TxInv
  <2>2. CASE newPages[j] = {} /\ OfArtifact(j, pages) # {}
    <3>1. n = 0
      BY <1>empty, <2>2
    <3>2. PICK k \in Job : ArtifactOf[k] = ArtifactOf[j] /\ OfArtifact(j, pages) = FullRows(k)
      BY <2>2 DEF StoredWhole, WholeOf
    <3>3. <<k, 1>> \in OfArtifact(j, pages)
      BY <3>2, RowsOfAttempt
    <3>4. <<k, 1>> \in gonePages[j]
      BY <1>1, <1>3, <3>1, <3>3 DEF Clashing
    <3>. QED
      BY <3>4 DEF TxInv
  <2>. QED
    BY <2>1, <2>2
<1>6. ASSUME NEW k \in Job \ {j}, TxInv(k), newPages[j] = {}, newPages[k] # {},
             ArtifactOf[k] = ArtifactOf[j]
      PROVE  FALSE
  <2>1. <<k, 1>> \in newPages[k]
    BY <1>6, FirstPageFirst
  <2>2. n = 0
    BY <1>empty, <1>6
  <2>3. <<k, 1>> \in OfArtifact(j, newPages[k]) /\ <<k, 1>>[2] = NextPage(j)
    BY <1>3, <1>6, <2>1, <2>2 DEF OfArtifact
  <2>. QED
    BY <1>1, <2>3 DEF WaitsToInsert
<1>7. CASE n + 1 = PageCount[ArtifactOf[j]]
  <2>1. newPages'[j] = FullRows(j) /\ pc'[j] = "insertBlocks"
    BY <1>1, <1>3, <1>4, <1>7 DEF FullRows
  <2>2. TxInv(j)'
    BY <1>1, <1>2, <1>5, <2>1 DEF TxInv, Replacing, Deleted, OfArtifact, FullRows
  <2>. QED
    BY <1>1, <1>6, <2>2
<1>8. CASE n + 1 # PageCount[ArtifactOf[j]]
  <2>1. n + 1 \in Nat /\ n + 1 < PageCount[ArtifactOf[j]] /\ pc'[j] = "insertPages"
    BY <1>1, <1>2, <1>3, <1>8
  <2>2. TxInv(j)'
    BY <1>1, <1>2, <1>4, <1>5, <2>1 DEF TxInv, Replacing, Deleted, OfArtifact
  <2>. QED
    BY <1>1, <1>6, <2>2
<1>. QED
  BY <1>7, <1>8

LEMMA TxInsertBlocks ==
    ASSUME Typed, NEW j \in Job, TxInv(j), InsertBlocks(j)
    PROVE  TxInv(j)' /\ goneBlocks'[j] = goneBlocks[j] /\ newPages'[j] = newPages[j]
<1>1. /\ pc[j] = "insertBlocks" /\ pc'[j] = "commit" /\ pages' = pages /\ full' = full
      /\ newBlocks'[j] = newPages[j] /\ gonePages' = gonePages
      /\ goneBlocks' = goneBlocks /\ newPages' = newPages
  BY DEF InsertBlocks, Jump, SetTo, Typed, outVars, resultVars
<1>. QED
  BY <1>1 DEF TxInv, Replacing, Deleted, OfArtifact, FullRows

\* A statement of one transaction keeps what every other has established.
LEMMA StatementKeepsTx ==
    ASSUME ProcessingAssumption, IInv, Typed, NEW j \in Job, Statement(j)
    PROVE  (\A k \in Job : TxInv(k)') /\ Exclusive'
<1>1. \A k \in Job \ {j} : Untouched(k) /\ TxInv(k)'
  BY StepTouchesOwn, TxOfOthers, StatementEffect
     DEF IInv, Step, Progress, Statement, outVars
<1>2. TxInv(j)'
  BY TxSelectPages, TxDeleteBlocks, TxBeginDelete, TxDeletePages, TxInsertPage, TxInsertBlocks
     DEF IInv, Statement
<1>3. \A k \in Job \ {j} : goneBlocks'[j] \cap goneBlocks[k] = {}
  BY TxSelectPages, TxDeleteBlocks, TxBeginDelete, TxDeletePages, TxInsertPage, TxInsertBlocks
     DEF IInv, Statement, Exclusive
<1>4. \A k \in Job \ {j} : newPages'[j] # {} /\ newPages[k] # {} => ArtifactOf[j] # ArtifactOf[k]
  <2>1. CASE InsertPage(j)
    BY <2>1, TxInsertPage DEF IInv, Exclusive
  <2>2. CASE ~ InsertPage(j)
    BY <2>2, TxSelectPages, TxDeleteBlocks, TxBeginDelete, TxDeletePages, TxInsertBlocks
       DEF IInv, Statement, Exclusive
  <2>. QED
    BY <2>1, <2>2
<1>5. \A k \in Job \ {j} : goneBlocks'[k] = goneBlocks[k] /\ newPages'[k] = newPages[k]
  BY <1>1 DEF Untouched
<1>6. Exclusive'
  BY <1>3, <1>4, <1>5 DEF IInv, Exclusive
<1>. QED
  BY <1>1, <1>2, <1>6

LEMMA OtherStepKeepsTx ==
    ASSUME IInv, Typed, NEW j \in Job, Age(j) \/ Outside(j) \/ Rollback(j)
    PROVE  (\A k \in Job : TxInv(k)') /\ Exclusive'
<1>1. pages' = pages
  BY OutsideEffect, RollbackEffect DEF Age, outVars
<1>2. \A k \in Job \ {j} : Untouched(k) /\ TxInv(k)'
  BY <1>1, StepTouchesOwn, TxOfOthers
     DEF IInv, Step, Progress, Environment, Outside, Rollback
<1>3. /\ TxInv(j)' /\ goneBlocks'[j] \subseteq goneBlocks[j]
      /\ newPages'[j] \subseteq newPages[j]
  BY TxClosed DEF IInv
<1>4. Exclusive'
  BY <1>2, <1>3 DEF IInv, Exclusive, Untouched
<1>. QED
  BY <1>2, <1>3, <1>4

-----------------------------------------------------------------------------
(* The commit.                                                             *)

LEMMA CommitEffect ==
    ASSUME Typed, NEW j \in Job, TxInv(j), CommitResult(j)
    PROVE  /\ pc[j] = "commit" /\ pc'[j] = "done" /\ UNCHANGED <<sweepVars, resultVars>>
           /\ gonePages[j] = goneBlocks[j] /\ newBlocks[j] = newPages[j]
           /\ newPages[j] = IF full[j] THEN FullRows(j) ELSE {}
           /\ pages' = (pages \ gonePages[j]) \cup newPages[j]
           /\ blocks' = (blocks \ gonePages[j]) \cup newPages[j]
           /\ gonePages'[j] = {} /\ goneBlocks'[j] = {} /\ newPages'[j] = {}
           /\ jobStatus' = SetTo(jobStatus, j, verdict[j]) /\ recovered' = recovered \ {j}
<1>1. /\ pc[j] = "commit" /\ pc'[j] = "done" /\ UNCHANGED <<sweepVars, resultVars>>
      /\ pages' = (pages \ gonePages[j]) \cup newPages[j]
      /\ blocks' = (blocks \ goneBlocks[j]) \cup newBlocks[j]
      /\ gonePages'[j] = {} /\ goneBlocks'[j] = {} /\ newPages'[j] = {}
      /\ jobStatus' = SetTo(jobStatus, j, verdict[j]) /\ recovered' = recovered \ {j}
  BY DEF CommitResult, WriteJob, EndTransaction, Jump, SetTo, Typed
<1>2. /\ gonePages[j] = goneBlocks[j] /\ newBlocks[j] = newPages[j]
      /\ newPages[j] = IF full[j] THEN FullRows(j) ELSE {}
  BY <1>1 DEF TxInv, Deleted
<1>. QED
  BY <1>1, <1>2

\* The pages of an artifact after a commit: the new output, what was there, or nothing.
LEMMA CommitRows ==
    ASSUME ProcessingAssumption, Typed, NEW j \in Job, TxInv(j), CommitResult(j), NEW k \in Job
    PROVE  LET before == OfArtifact(k, pages)  after == OfArtifact(k, pages')
           IN /\ ArtifactOf[k] # ArtifactOf[j] => after = before
              /\ ArtifactOf[k] = ArtifactOf[j] /\ full[j] => after = FullRows(j)
              /\ ArtifactOf[k] = ArtifactOf[j] /\ ~ full[j] =>
                    after = IF gonePages[j] = {} THEN before ELSE {}
<1>1. /\ pages' = (pages \ gonePages[j]) \cup newPages[j]
      /\ newPages[j] = IF full[j] THEN FullRows(j) ELSE {}
  BY CommitEffect
<1>2. /\ gonePages[j] \in {{}, OfArtifact(j, pages)}
      /\ newPages[j] # {} => OfArtifact(j, pages) \subseteq gonePages[j]
  BY DEF TxInv
<1>0. <<j, 1>> \in FullRows(j) /\ \A row \in FullRows(j) : row[1] = j
  BY RowsOfAttempt
<1>3. \A row \in newPages[j] : row[1] = j
  BY <1>0, <1>1
<1>4. CASE ArtifactOf[k] # ArtifactOf[j]
  BY <1>1, <1>2, <1>3, <1>4 DEF OfArtifact
<1>5. CASE ArtifactOf[k] = ArtifactOf[j] /\ full[j]
  <2>1. newPages[j] = FullRows(j) /\ newPages[j] # {}
    BY <1>0, <1>1, <1>5
  <2>. QED
    BY <1>1, <1>2, <1>3, <1>5, <2>1 DEF OfArtifact
<1>6. CASE ArtifactOf[k] = ArtifactOf[j] /\ ~ full[j]
  BY <1>1, <1>2, <1>6 DEF OfArtifact
<1>. QED
  BY <1>4, <1>5, <1>6

LEMMA CommitKeepsWhole ==
    ASSUME ProcessingAssumption, IInv, Typed, NEW j \in Job, CommitResult(j)
    PROVE  StoredWhole'
<1>. SUFFICES ASSUME NEW k \in Job
              PROVE  /\ WholeOf(k, OfArtifact(k, pages'))
                     /\ OfArtifact(k, blocks') = OfArtifact(k, pages')
  BY DEF StoredWhole, WholeOf, OfArtifact, FullRows
<1>1. TxInv(j) /\ StoredWhole
  BY DEF IInv
<1>2. WholeOf(k, OfArtifact(k, pages')) 
  BY <1>1, CommitRows DEF StoredWhole, WholeOf
<1>3. OfArtifact(k, blocks') = OfArtifact(k, pages')
  <2>1. OfArtifact(k, blocks) = OfArtifact(k, pages)
    BY <1>1 DEF StoredWhole
  <2>. QED
    BY <1>1, <2>1, CommitEffect DEF OfArtifact
<1>. QED
  BY <1>2, <1>3

\* A commit deletes nothing another open transaction has deleted, and inserts nothing where
\* another has inserted.
LEMMA CommitKeepsTx ==
    ASSUME ProcessingAssumption, IInv, Typed, NEW j \in Job, CommitResult(j)
    PROVE  (\A k \in Job : TxInv(k)') /\ Exclusive'
<1>1. TxInv(j)
  BY DEF IInv
<1>2. TxInv(j)' /\ goneBlocks'[j] = {} /\ newPages'[j] = {}
  BY <1>1, CommitEffect DEF TxInv, Replacing, Deleted
<1>3. \A k \in Job \ {j} : Untouched(k)
  BY StepTouchesOwn DEF Step, Progress
<1>4. ASSUME NEW k \in Job \ {j} PROVE TxInv(k)'
  <2>1. /\ TxInv(k) /\ Untouched(k) /\ goneBlocks[j] \cap goneBlocks[k] = {}
        /\ newPages[j] # {} /\ newPages[k] # {} => ArtifactOf[j] # ArtifactOf[k]
    BY <1>3 DEF IInv, Exclusive
  <2>2. goneBlocks[k] \subseteq OfArtifact(k, pages')
    BY <1>1, <2>1, CommitEffect DEF TxInv, OfArtifact
  <2>3. gonePages[k] \subseteq goneBlocks[k] /\ gonePages[j] = goneBlocks[j]
    BY <1>1, <2>1, CommitEffect DEF TxInv
  <2>4. gonePages[k] \in {{}, OfArtifact(k, pages')}
    <3>1. CASE ArtifactOf[k] # ArtifactOf[j]
      BY <1>1, <2>1, <3>1, CommitRows DEF TxInv
    <3>2. CASE ArtifactOf[k] = ArtifactOf[j] /\ gonePages[k] # {}
      <4>1. gonePages[k] = OfArtifact(k, pages) /\ OfArtifact(k, pages) = OfArtifact(j, pages)
        BY <2>1, <3>2 DEF TxInv, OfArtifact
      <4>2. gonePages[j] = {}
        BY <1>1, <2>1, <2>3, <3>2, <4>1 DEF TxInv
      <4>3. ~ full[j]
        <5>1. full[j] => newPages[j] # {}
          <6>1. <<j, 1>> \in FullRows(j)
            BY RowsOfAttempt
          <6>. QED
            BY <1>1, <6>1, CommitEffect
        <5>. QED
          BY <1>1, <3>2, <4>1, <4>2, <5>1 DEF TxInv
      <4>. QED
        BY <1>1, <3>2, <4>1, <4>2, <4>3, CommitRows
    <3>. QED
      BY <3>1, <3>2
  <2>5. newPages[k] # {} => OfArtifact(k, pages') \subseteq gonePages[k]
    BY <1>1, <2>1, CommitEffect, CommitRows DEF TxInv, OfArtifact
  <2>. QED
    BY <2>1, <2>2, <2>4, <2>5 DEF TxInv, Untouched, WholeOf, OfArtifact, FullRows
<1>5. Exclusive'
  BY <1>2, <1>3 DEF IInv, Exclusive, Untouched
<1>. QED
  BY <1>2, <1>4, <1>5

-----------------------------------------------------------------------------
(* Job rows, verdicts and the sweep.                                       *)

\* Who writes a job row, and what it may then say.
LEMMA JobWrites ==
    ASSUME Typed, NEW j \in Job, Step(j), NEW k \in Job
    PROVE  \/ jobStatus'[k] = jobStatus[k] /\ (k \in recovered => k \in recovered')
           \/ k \in marks[j] /\ jobStatus'[k] = "FAILED" /\ k \in recovered'
           \/ k = j /\ CommitResult(j)
           \/ k = j /\ CreateJob(j) /\ jobStatus'[k] = "PENDING"
           \/ k = j /\ MarkProcessing(j) /\ jobStatus'[k] = "PROCESSING"
           \/ k = j /\ MarkJobFailed(j) /\ jobStatus'[k] = "FAILED"
<1>1. CASE Age(j)
  BY <1>1 DEF Age
<1>2. CASE Rollback(j)
  BY <1>2, RollbackEffect DEF jobVars
<1>3. CASE Statement(j)
  BY <1>3, StatementEffect DEF jobVars
<1>4. CASE CreateJob(j)
  BY <1>4 DEF CreateJob, Jump, Typed, Stopped
<1>5. CASE MarkProcessing(j) \/ MarkJobFailed(j)
  BY <1>5 DEF MarkProcessing, MarkJobFailed, WriteJob, SetTo, Jump, Typed, Stopped
<1>6. CASE Outside(j) /\ ~ (CreateJob(j) \/ MarkProcessing(j) \/ MarkJobFailed(j))
  BY <1>6 DEF Outside, RefuseAttempt, SelectStale, CreateFails, Extract, MarkJobFailedFails, jobVars
<1>7. CASE CommitResult(j)
  BY <1>7 DEF CommitResult, WriteJob, SetTo, Typed
<1>. QED
  BY <1>1, <1>2, <1>3, <1>4, <1>5, <1>6, <1>7, StepKinds

\* The attempts that write their own rows have not stopped.
LEMMA WritersRun ==
    ASSUME NEW j \in Job, pc[j] \in Stopped
    PROVE  ~ CommitResult(j) /\ ~ CreateJob(j) /\ ~ MarkProcessing(j) /\ ~ MarkJobFailed(j)
BY DEF CommitResult, CreateJob, MarkProcessing, MarkJobFailed, Jump, Stopped

LEMMA StoppedStays ==
    ASSUME Typed, NEW j \in Job, Step(j), NEW k \in Job, pc[k] \in Stopped
    PROVE  pc'[k] = pc[k] /\ full'[k] = full[k] /\ overdue'[k] = overdue[k]
<1>1. CASE k # j
  BY <1>1, StepTouchesOwn DEF Untouched
<1>2. CASE k = j
  <2>1. Age(j)
    <3>1. ~ Statement(j)
      BY <1>2, StatementEffect DEF Stopped, Replacing
    <3>2. ~ CommitResult(j)
      BY <1>2 DEF CommitResult, Jump, Stopped
    <3>. QED
      BY <1>2, <3>1, <3>2, StepKinds, OutsideEffect, RollbackEffect
  <2>. QED
    BY <1>2, <2>1 DEF Age, sweepVars, resultVars
<1>. QED
  BY <1>1, <1>2

LEMMA OutputKept ==
    ASSUME Typed, NEW j \in Job, Step(j), ~ CommitResult(j)
    PROVE  pages' = pages /\ blocks' = blocks
BY StepKinds, OutsideEffect, RollbackEffect, StatementEffect DEF Age, outVars

LEMMA ResultsKept ==
    ASSUME ProcessingAssumption, Typed, ResultInv, NEW j \in Job, TxInv(j), Step(j)
    PROVE  ResultInv'
<1>1. ASSUME NEW k \in Job
      PROVE  /\ full'[k] => verdict'[k] \in {"PROCESSED", "NEEDS_REVIEW"}
             /\ verdict'[k] = "PROCESSED" => full'[k]
  <2>1. CASE k # j
    BY <2>1, StepTouchesOwn DEF ResultInv, Untouched
  <2>2. CASE UNCHANGED resultVars
    BY <2>2 DEF ResultInv, resultVars
  <2>3. ASSUME k = j, NEW result \in Result,
               verdict' = SetTo(verdict, j, result[1]), full' = SetTo(full, j, result[2])
        PROVE  /\ full'[k] => verdict'[k] \in {"PROCESSED", "NEEDS_REVIEW"}
               /\ verdict'[k] = "PROCESSED" => full'[k]
    BY <2>3, ResultParts DEF SetTo, Typed
  <2>. QED
    BY <2>1, <2>2, <2>3, StepKinds, OutsideEffect, RollbackEffect, StatementEffect, CommitEffect
       DEF Age
<1>2. ASSUME NEW row \in pages' PROVE pc'[row[1]] = "done"
  <2>1. CASE row \in pages
    <3>1. row[1] \in Job /\ pc[row[1]] = "done"
      BY <2>1 DEF ResultInv, Typed, Row
    <3>. QED
      BY <3>1, StoppedStays DEF Stopped
  <2>2. CASE row \notin pages
    <3>1. CommitResult(j)
      BY <2>2, <1>2, OutputKept
    <3>2. row \in FullRows(j)
      BY <1>2, <2>2, <3>1, CommitEffect
    <3>3. row[1] = j
      BY <3>2 DEF FullRows
    <3>. QED
      BY <3>1, <3>3, CommitEffect
  <2>. QED
    BY <2>1, <2>2
<1>. QED
  BY <1>1, <1>2 DEF ResultInv

LEMMA RecordKept ==
    ASSUME ProcessingAssumption, Typed, ResultInv, OutputOnRecord, NEW j \in Job, TxInv(j), Step(j)
    PROVE  OutputOnRecord'
<1>. SUFFICES ASSUME NEW row \in pages'
              PROVE  jobStatus'[row[1]] \in {"PROCESSED", "NEEDS_REVIEW"} \/ row[1] \in recovered'
  BY DEF OutputOnRecord
<1>1. CASE row \in pages
  <2>1. row[1] \in Job /\ pc[row[1]] = "done"
    BY <1>1 DEF ResultInv, Typed, Row
  <2>2. CommitResult(j) => row[1] # j
    BY <2>1 DEF CommitResult, Jump
  <2>3. /\ jobStatus'[row[1]] = jobStatus[row[1]] /\ (row[1] \in recovered => row[1] \in recovered')
        \/ row[1] \in recovered'
    BY <2>1, <2>2, JobWrites, WritersRun DEF Stopped
  <2>. QED
    BY <1>1, <2>3 DEF OutputOnRecord
<1>2. CASE row \notin pages
  <2>1. CommitResult(j)
    BY <1>2, OutputKept
  <2>2. full[j] /\ row \in FullRows(j)
    BY <1>2, <2>1, CommitEffect
  <2>3. row[1] = j
    BY <2>2 DEF FullRows
  <2>. QED
    BY <2>1, <2>2, <2>3, CommitEffect DEF ResultInv, SetTo, Typed
<1>. QED
  BY <1>1, <1>2

LEMMA PagesKept ==
    ASSUME ProcessingAssumption, Typed, ProcessedLeavesPages, NEW j \in Job, TxInv(j), Step(j)
    PROVE  ProcessedLeavesPages'
<1>. SUFFICES ASSUME NEW k \in Job, jobStatus'[k] = "PROCESSED"
              PROVE  \/ OfArtifact(k, pages') # {}
                     \/ \E m \in Job : ArtifactOf[m] = ArtifactOf[k] /\ pc'[m] = "done" /\ ~ full'[m]
  BY DEF ProcessedLeavesPages, OfArtifact
<1>1. CASE CommitResult(j) /\ ArtifactOf[k] = ArtifactOf[j] /\ full[j]
  <2>1. <<j, 1>> \in FullRows(j)
    BY RowsOfAttempt
  <2>. QED
    BY <1>1, <2>1, CommitRows
<1>2. CASE CommitResult(j) /\ ArtifactOf[k] = ArtifactOf[j] /\ ~ full[j]
  BY <1>2, CommitEffect DEF resultVars
<1>3. CASE ~ (CommitResult(j) /\ ArtifactOf[k] = ArtifactOf[j])
  <2>1. jobStatus[k] = "PROCESSED"
    BY <1>3, JobWrites
  <2>2. OfArtifact(k, pages') = OfArtifact(k, pages)
    BY <1>3, OutputKept, CommitRows
  <2>3. \A m \in Job : pc[m] = "done" => pc'[m] = "done" /\ full'[m] = full[m]
    BY StoppedStays DEF Stopped
  <2>. QED
    BY <2>1, <2>2, <2>3 DEF ProcessedLeavesPages
<1>. QED
  BY <1>1, <1>2, <1>3

LEMMA SweepKept ==
    ASSUME Typed, SweepInv, NEW j \in Job, Step(j)
    PROVE  SweepInv'
<1>. SUFFICES ASSUME NEW i \in Job, NEW k \in overdue'[i]
              PROVE  /\ Dead(k)'
                     /\ pc'[i] = "swept" /\ jobStatus'[k] = "PROCESSING" => k \in marks'[i]
                     /\ pc'[i] \in Working \cup {"done"} => jobStatus'[k] # "PROCESSING"
  BY DEF SweepInv
<1>1. CASE i = j /\ SelectStale(j)
  <2>1. /\ pc[j] = "idle" /\ pc'[j] = "swept" /\ jobStatus' = jobStatus
        /\ marks'[j] = {m \in Job : Stale(m)} /\ overdue'[j] = {m \in aged : Dead(m)}
        /\ pc' = [pc EXCEPT ![j] = "swept"]
    BY <1>1 DEF SelectStale, Jump, SetTo, Typed, jobVars
  <2>2. k \in Job /\ k \in aged /\ Dead(k)
    BY <1>1, <2>1 DEF Typed
  <2>3. pc'[k] = pc[k]
    BY <2>1, <2>2 DEF Dead, Typed
  <2>. QED
    BY <1>1, <2>1, <2>2, <2>3 DEF Dead, Stale, Working, Replacing
<1>2. CASE ~ (i = j /\ SelectStale(j))
  <2>1. /\ overdue'[i] = overdue[i]
        /\ pc'[i] = "swept" => pc[i] = "swept" /\ marks'[i] = marks[i]
        /\ pc'[i] \in Working \cup {"done"} => pc[i] \in Working \cup {"done"} \/ (i = j /\ CreateJob(j))
    <3>1. CASE i # j
      BY <3>1, StepTouchesOwn DEF Untouched
    <3>2. CASE i = j /\ Age(j)
      BY <3>2 DEF Age, sweepVars
    <3>3. CASE i = j /\ Outside(j)
      BY <1>2, <3>3 DEF Outside, RefuseAttempt, CreateFails, CreateJob, MarkProcessing, Extract,
           MarkJobFailed, MarkJobFailedFails, WriteJob, Jump, SetTo, Typed, sweepVars, Working, Replacing
    <3>4. CASE i = j /\ Rollback(j)
      BY <3>4, RollbackEffect DEF Working, Replacing
    <3>5. CASE i = j /\ Statement(j)
      BY <3>5, StatementEffect DEF Working, Replacing, sweepVars
    <3>6. CASE i = j /\ CommitResult(j)
      BY <3>6 DEF CommitResult, Jump, Typed, Working, Replacing, sweepVars
    <3>. QED
      BY <3>1, <3>2, <3>3, <3>4, <3>5, <3>6, StepKinds
  <2>2. k \in overdue[i] /\ k \in Job /\ Dead(k)
    BY <2>1 DEF SweepInv, Typed
  <2>3. Dead(k)'
    BY <2>2, StoppedStays DEF Dead, Stopped
  <2>4. jobStatus'[k] = jobStatus[k] \/ jobStatus'[k] = "FAILED"
    <3>1. pc[k] \in Stopped
      BY <2>2 DEF Dead, Stopped
    <3>. QED
      BY <2>2, <3>1, JobWrites, WritersRun
  <2>5. CASE i = j /\ CreateJob(j)
    <3>1. /\ pc[j] = "swept" /\ pc'[j] = "created"
          /\ jobStatus'[k] = IF k = j THEN "PENDING"
                             ELSE IF k \in marks[j] THEN "FAILED" ELSE jobStatus[k]
      BY <2>2, <2>5 DEF CreateJob, Jump, Typed
    <3>2. jobStatus[k] = "PROCESSING" => k \in marks[j]
      BY <2>2, <2>5, <3>1 DEF SweepInv
    <3>. QED
      BY <2>3, <2>5, <3>1, <3>2
  <2>6. CASE ~ (i = j /\ CreateJob(j))
    BY <2>1, <2>2, <2>3, <2>4, <2>6 DEF SweepInv
  <2>. QED
    BY <2>5, <2>6
<1>. QED
  BY <1>1, <1>2

-----------------------------------------------------------------------------
(* The theorems.                                                           *)

LEMMA InitInv ==
    ASSUME ProcessingAssumption, Init
    PROVE  IInv
<1>1. Typed
  BY DEF Init, Typed, Nothing, Terminal, Phases
<1>2. StoredWhole /\ Exclusive /\ SweepInv
  BY DEF Init, StoredWhole, WholeOf, OfArtifact, Exclusive, SweepInv, Nothing
<1>3. \A j \in Job : TxInv(j)
  BY DEF Init, TxInv, Nothing, Replacing, Deleted
<1>4. ResultInv /\ OutputOnRecord /\ ProcessedLeavesPages
  BY DEF Init, ResultInv, OutputOnRecord, ProcessedLeavesPages
<1>. QED
  BY <1>1, <1>2, <1>3, <1>4, TypedParts DEF IInv

LEMMA StepInv ==
    ASSUME ProcessingAssumption, IInv, NEW j \in Job, Step(j)
    PROVE  IInv'
<1>1. Typed /\ TxInv(j)
  BY TypedParts DEF IInv
<1>2. Typed'
  BY <1>1, TypesKept
<1>3. (\A k \in Job : TxInv(k)') /\ Exclusive'
  BY <1>1, StepKinds, StatementKeepsTx, OtherStepKeepsTx, CommitKeepsTx
<1>4. StoredWhole'
  <2>1. CASE CommitResult(j)
    BY <1>1, <2>1, CommitKeepsWhole
  <2>2. CASE ~ CommitResult(j)
    BY <1>1, <2>2, OutputKept DEF IInv, StoredWhole, WholeOf, OfArtifact, FullRows
  <2>. QED
    BY <2>1, <2>2
<1>5. ResultInv' /\ OutputOnRecord' /\ ProcessedLeavesPages' /\ SweepInv'
  BY <1>1, ResultsKept, RecordKept, PagesKept, SweepKept DEF IInv
<1>. QED
  BY <1>2, <1>3, <1>4, <1>5, TypedPartsNext DEF IInv

LEMMA StutterInv ==
    ASSUME IInv, UNCHANGED vars
    PROVE  IInv'
<1>. USE DEF vars, jobVars, outVars, txVars, resultVars, sweepVars
<1>1. TypeOK' /\ OutputOnRecord' /\ ProcessedLeavesPages' /\ SweepInv' /\ ResultInv'
  BY DEF IInv, TypeOK, OutputOnRecord, ProcessedLeavesPages, OfArtifact, SweepInv, Dead, ResultInv
<1>2. StoredWhole' /\ Exclusive'
  BY DEF IInv, StoredWhole, WholeOf, OfArtifact, FullRows, Exclusive
<1>3. ASSUME NEW k \in Job PROVE TxInv(k)'
  BY TxOfOthers DEF IInv, Untouched
<1>. QED
  BY <1>1, <1>2, <1>3 DEF IInv

\* The inductive invariant of process_document, for any number of attempts on any
\* artifacts, slow ones among them, and any set of faults.
THEOREM Inductive == Spec => []IInv
<1>1. Init => IInv
  BY InitInv, ProcessingAssumption
<1>2. IInv /\ [Next]_vars => IInv'
  BY StepInv, StutterInv, ProcessingAssumption DEF Next, Step, AllStopped
<1>. QED
  BY <1>1, <1>2, PTL DEF Spec

\* Every variable of process_document keeps its type.
THEOREM TypesHold == Spec => []TypeOK
<1>1. IInv => TypeOK
  BY DEF IInv
<1>. QED
  BY <1>1, Inductive, PTL

\* document_pages and document_blocks hold the complete output of one attempt per
\* artifact, or nothing, whichever attempts replace them concurrently.
THEOREM OutputIsWhole == Spec => []OutputWhole
<1>1. ASSUME IInv PROVE OutputWhole
  <2>. SUFFICES ASSUME NEW a \in Artifact
                PROVE  LET rows == {row \in pages : ArtifactOf[row[1]] = a}
                       IN /\ rows = {} \/ \E j \in Job : rows = FullRows(j)
                          /\ {row \in blocks : ArtifactOf[row[1]] = a} = rows
    BY DEF OutputWhole
  <2>1. CASE \E j \in Job : ArtifactOf[j] = a
    <3>1. PICK j \in Job : ArtifactOf[j] = a
      BY <2>1
    <3>2. WholeOf(j, OfArtifact(j, pages)) /\ OfArtifact(j, blocks) = OfArtifact(j, pages)
      BY <1>1 DEF IInv, StoredWhole
    <3>. QED
      BY <3>1, <3>2 DEF OfArtifact, WholeOf
  <2>2. CASE ~ \E j \in Job : ArtifactOf[j] = a
    <3>1. \A row \in pages \cup blocks : row[1] \in Job
      BY <1>1 DEF IInv, TypeOK, Row
    <3>. QED
      BY <2>2, <3>1
  <2>. QED
    BY <2>1, <2>2
<1>. QED
  BY <1>1, Inductive, PTL

\* Stored output belongs to an attempt whose verdict is on record, unless a sweep took the
\* attempt for dead.
THEOREM OutputIsOnRecord == Spec => []OutputOnRecord
<1>1. IInv => OutputOnRecord
  BY DEF IInv
<1>. QED
  BY <1>1, Inductive, PTL

\* A PROCESSED job leaves pages, unless another attempt at the artifact had none.
THEOREM PagesStay == Spec => []ProcessedLeavesPages
<1>1. IInv => ProcessedLeavesPages
  BY DEF IInv
<1>. QED
  BY <1>1, Inductive, PTL

\* mark_stale_processing_failed closes every job its attempt found overdue and dead.
THEOREM StaleIsRecovered == Spec => []StaleRecovered
<1>1. IInv => StaleRecovered
  BY DEF IInv, SweepInv, StaleRecovered
<1>. QED
  BY <1>1, Inductive, PTL

-----------------------------------------------------------------------------
(* Verdicts.                                                               *)

\* An attempt has a job row once it has created one, and until its verdict the row is open
\* or closed by a sweep; sweeps select only rows there are.
RowInv ==
    /\ \A j \in Job : pc[j] \in {"idle", "swept"} => jobStatus[j] = "none"
    /\ \A j \in Job : \A k \in marks[j] : pc[k] \notin {"idle", "swept"}
    /\ \A j \in Job : pc[j] \in Working \cup {"failing"} =>
          jobStatus[j] \in {"PENDING", "PROCESSING"} \/ j \in recovered

\* When no attempt outlives the limit: only the jobs of dead attempts age, are selected by a
\* sweep and closed by one, and none of them has a verdict.
LiveInv ==
    /\ \A j \in aged : Dead(j)
    /\ \A j \in Job : \A k \in marks[j] : Dead(k) /\ jobStatus[k] \in {"PROCESSING", "FAILED"}
    /\ \A j \in Job : pc[j] \in Working \cup {"failing"} => jobStatus[j] \in {"PENDING", "PROCESSING"}

\* How a step moves an attempt into the phases these invariants speak of.
LEMMA PhaseMoves ==
    ASSUME Typed, NEW j \in Job, Step(j)
    PROVE  /\ pc[j] = "idle" => pc'[j] \in {"idle", "swept", "raised"}
           /\ pc[j] # "idle" => pc'[j] # "idle"
           /\ pc'[j] = "swept" => (pc[j] = "idle" /\ SelectStale(j)) \/ pc[j] = "swept"
           /\ pc'[j] \in Working \cup {"failing"} =>
                 pc[j] \in Working \cup {"failing"} \/ CreateJob(j)
           /\ ~ SelectStale(j) => marks'[j] \subseteq marks[j]
<1>. USE DEF Stopped, Working, Replacing
<1>1. CASE Age(j)
  BY <1>1 DEF Age, sweepVars
<1>2. CASE Outside(j)
  BY <1>2 DEF Outside, RefuseAttempt, SelectStale, CreateFails, CreateJob, MarkProcessing, Extract,
       MarkJobFailed, MarkJobFailedFails, WriteJob, Jump, SetTo, Typed, sweepVars
<1>3. CASE Rollback(j)
  <2>1. pc[j] # "idle" /\ pc'[j] \in {"failing", "crashed"}
        /\ (pc'[j] = "failing" => pc[j] \in Working \cup {"failing"})
        /\ marks'[j] \subseteq marks[j]
    BY <1>3 DEF Rollback, ForeignKeyFails, UniqueKeyFails, AttemptFails, Crash, Jump, SetTo, Typed,
         sweepVars
  <2>. QED
    BY <2>1
<1>4. CASE Statement(j)
  BY <1>4, StatementEffect DEF sweepVars
<1>5. CASE CommitResult(j)
  BY <1>5 DEF CommitResult, Jump, Typed, sweepVars
<1>. QED
  BY <1>1, <1>2, <1>3, <1>4, <1>5, StepKinds

LEMMA RowKept ==
    ASSUME Typed, RowInv, NEW j \in Job, Step(j)
    PROVE  RowInv'
<1>1. ASSUME NEW k \in Job, k # j PROVE Untouched(k)
  BY <1>1, StepTouchesOwn
<1>2. ASSUME NEW k \in Job, pc'[k] \in {"idle", "swept"} PROVE jobStatus'[k] = "none"
  <2>1. pc[k] \in {"idle", "swept"} /\ (k = j => ~ CreateJob(j) /\ ~ CommitResult(j)
           /\ ~ MarkProcessing(j) /\ ~ MarkJobFailed(j))
    <3>1. CASE k = j
      BY <1>2, <3>1, PhaseMoves
         DEF CreateJob, CommitResult, MarkProcessing, MarkJobFailed, Jump, Typed
    <3>2. CASE k # j
      BY <1>1, <1>2, <3>2 DEF Untouched
    <3>. QED
      BY <3>1, <3>2
  <2>2. \A m \in Job : k \notin marks[m]
    BY <2>1 DEF RowInv
  <2>3. jobStatus'[k] = jobStatus[k]
    BY <2>1, <2>2, JobWrites
  <2>. QED
    BY <2>1, <2>3 DEF RowInv
<1>3. ASSUME NEW m \in Job, NEW k \in marks'[m] PROVE pc'[k] \notin {"idle", "swept"}
  <2>1. CASE m = j /\ SelectStale(j)
    <3>1. k \in Job /\ jobStatus[k] = "PROCESSING" /\ pc' = [pc EXCEPT ![j] = "swept"]
          /\ pc[j] = "idle"
      BY <1>3, <2>1 DEF SelectStale, Stale, Jump, SetTo, Typed
    <3>. QED
      BY <3>1 DEF RowInv, Typed
  <2>2. CASE ~ (m = j /\ SelectStale(j))
    <3>1. k \in marks[m] /\ k \in Job
      BY <1>1, <1>3, <2>2, PhaseMoves DEF Untouched, Typed
    <3>2. pc[k] \notin {"idle", "swept"}
      BY <3>1 DEF RowInv
    <3>. QED
      BY <1>1, <3>1, <3>2, PhaseMoves DEF Untouched
  <2>. QED
    BY <2>1, <2>2
<1>4. ASSUME NEW k \in Job, pc'[k] \in Working \cup {"failing"}
      PROVE  jobStatus'[k] \in {"PENDING", "PROCESSING"} \/ k \in recovered'
  <2>1. pc[k] \in Working \cup {"failing"} \/ (k = j /\ CreateJob(j))
    BY <1>1, <1>4, PhaseMoves DEF Untouched
  <2>2. k = j => ~ CommitResult(j) /\ ~ MarkJobFailed(j)
    BY <1>4 DEF CommitResult, MarkJobFailed, Jump, Typed, Working, Replacing
  <2>3. CreateJob(j) => jobStatus'[j] = "PENDING"
    BY DEF CreateJob, Typed
  <2>. QED
    BY <2>1, <2>2, <2>3, JobWrites DEF RowInv
<1>. QED
  BY <1>2, <1>3, <1>4 DEF RowInv

LEMMA LiveKept ==
    ASSUME Slow = FALSE, Typed, RowInv, LiveInv, NEW j \in Job, Step(j)
    PROVE  LiveInv'
<1>1. ASSUME NEW k \in Job, k # j PROVE Untouched(k)
  BY <1>1, StepTouchesOwn
<1>dead. ASSUME NEW k \in Job, Dead(k) PROVE Dead(k)'
  BY <1>dead, StoppedStays DEF Dead, Stopped
<1>2. ASSUME NEW k \in aged' PROVE Dead(k)'
  <2>1. k \in aged \/ (Age(j) /\ k = j)
    <3>1. CASE Age(j)
      BY <1>2, <3>1 DEF Age
    <3>2. CASE Outside(j)
      BY <1>2, <3>2 DEF Outside, RefuseAttempt, SelectStale, CreateFails, CreateJob, MarkProcessing,
           Extract, MarkJobFailed, MarkJobFailedFails, WriteJob, jobVars
    <3>3. CASE CommitResult(j)
      BY <1>2, <3>3 DEF CommitResult, WriteJob
    <3>. QED
      BY <1>2, <3>1, <3>2, <3>3, StepKinds, RollbackEffect, StatementEffect DEF jobVars
  <2>2. k \in Job /\ Dead(k)
    BY <2>1 DEF LiveInv, Age, Typed
  <2>. QED
    BY <2>2, <1>dead
<1>3. ASSUME NEW m \in Job, NEW k \in marks'[m]
      PROVE  Dead(k)' /\ jobStatus'[k] \in {"PROCESSING", "FAILED"}
  <2>1. k \in Job /\ Dead(k) /\ jobStatus[k] \in {"PROCESSING", "FAILED"}
    <3>1. CASE m = j /\ SelectStale(j)
      BY <1>3, <3>1 DEF SelectStale, Stale, SetTo, Typed, LiveInv
    <3>2. CASE ~ (m = j /\ SelectStale(j))
      <4>1. k \in marks[m]
        BY <1>1, <1>3, <3>2, PhaseMoves DEF Untouched
      <4>. QED
        BY <4>1 DEF LiveInv, Typed
    <3>. QED
      BY <3>1, <3>2
  <2>2. k = j => ~ CommitResult(j) /\ ~ CreateJob(j) /\ ~ MarkProcessing(j) /\ ~ MarkJobFailed(j)
    BY <2>1 DEF Dead, CommitResult, CreateJob, MarkProcessing, MarkJobFailed, Jump
  <2>. QED
    BY <2>1, <2>2, <1>dead, JobWrites
<1>4. ASSUME NEW k \in Job, pc'[k] \in Working \cup {"failing"}
      PROVE  jobStatus'[k] \in {"PENDING", "PROCESSING"}
  <2>1. pc[k] \in Working \cup {"failing"} \/ (k = j /\ CreateJob(j))
    BY <1>1, <1>4, PhaseMoves DEF Untouched
  <2>2. k = j => ~ CommitResult(j) /\ ~ MarkJobFailed(j)
    BY <1>4 DEF CommitResult, MarkJobFailed, Jump, Typed, Working, Replacing
  <2>3. k \notin marks[j] \/ (k = j /\ CreateJob(j))
    BY <2>1 DEF LiveInv, Dead, Working, Replacing
  <2>4. CreateJob(j) => jobStatus'[j] = "PENDING"
    BY DEF CreateJob, Typed
  <2>. QED
    BY <2>1, <2>2, <2>3, <2>4, JobWrites DEF LiveInv
<1>. QED
  BY <1>2, <1>3, <1>4 DEF LiveInv

LEMMA VerdictStays ==
    ASSUME Slow = FALSE, Typed, RowInv, LiveInv, NEW j \in Job, Step(j),
           NEW k \in Job, jobStatus[k] \in Terminal
    PROVE  jobStatus'[k] = jobStatus[k]
<1>1. k = j => ~ CommitResult(j) /\ ~ CreateJob(j) /\ ~ MarkProcessing(j) /\ ~ MarkJobFailed(j)
  BY DEF LiveInv, RowInv, CommitResult, CreateJob, MarkProcessing, MarkJobFailed, Jump, Working,
     Replacing, Terminal
<1>2. k \in marks[j] => jobStatus[k] = "FAILED"
  BY DEF LiveInv, Terminal
<1>. QED
  BY <1>1, <1>2, JobWrites

\* Job rows and attempts agree, for any attempts and faults.
THEOREM RowsAgree == Spec => []RowInv
<1>1. Init => RowInv
  BY DEF Init, RowInv, Nothing, Working, Replacing
<1>2. IInv /\ RowInv /\ [Next]_vars => RowInv'
  <2>1. ASSUME RowInv, UNCHANGED vars PROVE RowInv'
    BY <2>1 DEF RowInv, vars, jobVars, sweepVars
  <2>. QED
    BY <2>1, RowKept, TypedParts DEF IInv, Next, Step, AllStopped
<1>. QED
  BY <1>1, <1>2, Inductive, PTL DEF Spec

LEMMA LiveRows ==
    ASSUME Slow = FALSE
    PROVE  Spec => []LiveInv
<1>1. Init => LiveInv
  BY DEF Init, LiveInv, Nothing, Working, Replacing
<1>2. IInv /\ RowInv /\ LiveInv /\ [Next]_vars => LiveInv'
  <2>1. ASSUME LiveInv, UNCHANGED vars PROVE LiveInv'
    BY <2>1 DEF LiveInv, Dead, vars, jobVars, sweepVars
  <2>. QED
    BY <2>1, LiveKept, TypedParts DEF IInv, Next, Step, AllStopped
<1>. QED
  BY <1>1, <1>2, Inductive, RowsAgree, PTL DEF Spec

\* While no attempt outlives stale_job_after, a recorded verdict is final: no sweep, retry or
\* late commit overwrites it.
THEOREM VerdictsAreFinal ==
    ASSUME Slow = FALSE
    PROVE  Spec => VerdictFinal
<1>1. IInv /\ RowInv /\ LiveInv /\ [Next]_vars =>
        [\A j \in Job : jobStatus[j] \in Terminal => jobStatus'[j] = jobStatus[j]]_vars
  BY VerdictStays, TypedParts DEF IInv, Next, Step, AllStopped
<1>. QED
  BY <1>1, Inductive, RowsAgree, LiveRows, PTL DEF Spec, VerdictFinal

-----------------------------------------------------------------------------
(* The statements of a replacement take effect in one step.                *)

\* A job row that an attempt works under, or that a sweep has selected, is there.
MadeInv ==
    /\ \A j \in Job : pc[j] \in Working \cup {"failing"} => jobStatus[j] # "none"
    /\ \A j \in Job : \A k \in marks[j] : jobStatus[k] # "none"

\* Rows of jobs stay, a sweep selects rows there are, and an attempt works after it has one.
LEMMA MadeKept ==
    ASSUME Typed, MadeInv, NEW j \in Job, Step(j)
    PROVE  MadeInv'
<1>1. ASSUME NEW k \in Job, k # j PROVE Untouched(k)
  BY <1>1, StepTouchesOwn
<1>2. ASSUME NEW k \in Job, jobStatus[k] # "none" PROVE jobStatus'[k] # "none"
  BY <1>2, JobWrites DEF Typed, Terminal, CreateJob, MarkProcessing, MarkJobFailed,
     CommitResult, WriteJob, SetTo
<1>3. ASSUME NEW k \in Job, pc'[k] \in Working \cup {"failing"} PROVE jobStatus'[k] # "none"
  <2>1. pc[k] \in Working \cup {"failing"} \/ (k = j /\ CreateJob(j))
    BY <1>1, <1>3, PhaseMoves DEF Untouched
  <2>2. CreateJob(j) => jobStatus'[j] = "PENDING"
    BY DEF CreateJob
  <2>. QED
    BY <1>2, <2>1, <2>2 DEF MadeInv
<1>4. ASSUME NEW m \in Job, NEW k \in marks'[m] PROVE jobStatus'[k] # "none"
  <2>1. k \in Job /\ jobStatus[k] # "none"
    <3>1. CASE m = j /\ SelectStale(j)
      BY <1>4, <3>1 DEF SelectStale, Stale, SetTo, Typed
    <3>2. CASE ~ (m = j /\ SelectStale(j))
      <4>1. k \in marks[m]
        BY <1>1, <1>4, <3>2, PhaseMoves DEF Untouched
      <4>. QED
        BY <4>1 DEF MadeInv, Typed
    <3>. QED
      BY <3>1, <3>2
  <2>. QED
    BY <1>2, <2>1
<1>. QED
  BY <1>3, <1>4 DEF MadeInv

\* Sweeps and attempts find the rows they write.
LEMMA RowsMade == Spec => []MadeInv
<1>1. Init => MadeInv
  BY DEF Init, MadeInv, Nothing, Working, Replacing
<1>2. IInv /\ MadeInv /\ [Next]_vars => MadeInv'
  <2>1. ASSUME MadeInv, UNCHANGED vars PROVE MadeInv'
    BY <2>1 DEF MadeInv, vars, jobVars, sweepVars
  <2>. QED
    BY <2>1, MadeKept, TypedParts DEF IInv, Next, Step, AllStopped
<1>. QED
  BY <1>1, <1>2, Inductive, PTL DEF Spec

\* The attempts that have a job and will write nothing more.
Finished == {j \in Job : pc[j] \in Stopped /\ jobStatus[j] # "none"}

\* An attempt that has stopped, or goes on, stays so in the steps of others.
LEMMA FinishedBy ==
    ASSUME Typed, NEW j \in Job, Step(j),
           \A k \in Job \ {j} : jobStatus'[k] # "none" <=> jobStatus[k] # "none"
    PROVE  \A k \in Job \ {j} : k \in Finished' <=> k \in Finished
BY StepTouchesOwn DEF Untouched, Finished

\* A step that writes neither output nor job rows, and stops no attempt that has a job, is
\* not seen.
LEMMA AtomicStutter ==
    ASSUME Typed, NEW j \in Job, Step(j), UNCHANGED <<jobStatus, pages, blocks>>,
           pc'[j] \notin Stopped \/ pc[j] \in Stopped \/ jobStatus[j] = "none"
    PROVE  UNCHANGED <<jobStatus, pages, blocks>> /\ Finished' = Finished
<1>1. \A k \in Job \ {j} : k \in Finished' <=> k \in Finished
  BY FinishedBy
<1>2. pc[j] \in Stopped => pc'[j] \in Stopped
  BY StoppedStays
<1>3. j \in Finished' <=> j \in Finished
  BY <1>2 DEF Finished
<1>. QED
  BY <1>1, <1>3 DEF Finished

\* A step that ends an attempt without a commit gives it up.
LEMMA AtomicGiveUp ==
    ASSUME Typed, NEW j \in Job, Step(j), UNCHANGED <<pages, blocks>>,
           pc[j] \notin Stopped, pc'[j] \in Stopped, jobStatus[j] # "none",
           jobStatus' \in {jobStatus, [jobStatus EXCEPT ![j] = "FAILED"]}
    PROVE  Atomic!GiveUp(j)
<1>1. \A k \in Job \ {j} : k \in Finished' <=> k \in Finished
  BY FinishedBy DEF Typed
<1>2. j \notin Finished /\ j \in Finished'
  BY DEF Finished, Typed
<1>3. Finished' = Finished \cup {j}
  BY <1>1, <1>2 DEF Finished
<1>. QED
  BY <1>2, <1>3 DEF Atomic!GiveUp, Atomic!Open, Finished

\* A commit is the atomic replacement with its verdict.
LEMMA AtomicFinish ==
    ASSUME ProcessingAssumption, IInv, Typed, MadeInv, NEW j \in Job, CommitResult(j),
           NEW CONSTANT v, v = verdict[j]
    PROVE  Atomic!Finish(j, v)
<1>1. TxInv(j) /\ StoredWhole /\ ResultInv
  BY DEF IInv
<1>2. /\ pc[j] = "commit" /\ pc'[j] = "done"
      /\ newPages[j] = IF full[j] THEN FullRows(j) ELSE {}
      /\ pages' = (pages \ gonePages[j]) \cup newPages[j]
      /\ blocks' = (blocks \ gonePages[j]) \cup newPages[j]
      /\ jobStatus' = SetTo(jobStatus, j, verdict[j])
  BY <1>1, CommitEffect
<1>3. blocks = pages
  <2>1. \A row \in pages \cup blocks : row[1] \in Job
    BY DEF Typed, Row
  <2>2. \A k \in Job : OfArtifact(k, blocks) = OfArtifact(k, pages)
    BY <1>1 DEF StoredWhole
  <2>3. \A row : row \in pages <=> row \in blocks
    BY <2>1, <2>2 DEF OfArtifact
  <2>. QED
    BY <2>3
<1>4. blocks' = pages'
  BY <1>2, <1>3
<1>5. gonePages[j] \in {{}, OfArtifact(j, pages)}
      /\ (newPages[j] # {} => OfArtifact(j, pages) \subseteq gonePages[j])
  BY <1>1 DEF TxInv
<1>6. pages \ OfArtifact(j, pages) = Atomic!Elsewhere(j)
  BY DEF OfArtifact, Atomic!Elsewhere
<1>7. Atomic!Output(j) = FullRows(j) /\ FullRows(j) # {}
  BY RowsOfAttempt DEF Atomic!Output, FullRows
<1>8. \/ /\ verdict[j] \in {"PROCESSED", "NEEDS_REVIEW"}
         /\ pages' = Atomic!Elsewhere(j) \cup Atomic!Output(j)
      \/ /\ verdict[j] \in {"NEEDS_REVIEW", "FAILED"}
         /\ pages' \in {pages, Atomic!Elsewhere(j)}
  <2>1. CASE full[j]
    <3>1. newPages[j] = FullRows(j) /\ gonePages[j] = OfArtifact(j, pages)
      BY <1>2, <1>5, <1>7, <2>1
    <3>. QED
      BY <1>1, <1>2, <1>6, <1>7, <2>1, <3>1 DEF ResultInv
  <2>2. CASE ~ full[j]
    <3>1. pages' = pages \ gonePages[j]
      BY <1>2, <2>2
    <3>2. verdict[j] \in {"NEEDS_REVIEW", "FAILED"}
      BY <1>1, <2>2 DEF ResultInv, Typed, Terminal
    <3>. QED
      BY <1>5, <1>6, <3>1, <3>2
  <2>. QED
    BY <2>1, <2>2
<1>9. Step(j)
  BY DEF Step, Progress
<1>10. jobStatus[j] # "none" /\ j \notin Finished
  BY <1>2 DEF MadeInv, Working, Replacing, Finished, Stopped
<1>11. jobStatus' = [jobStatus EXCEPT ![j] = verdict[j]]
  BY <1>2 DEF SetTo
<1>12. Finished' = Finished \cup {j}
  <2>1. \A k \in Job \ {j} : k \in Finished' <=> k \in Finished
    BY <1>9, <1>11, FinishedBy DEF Typed
  <2>2. j \in Finished'
    BY <1>2, <1>11 DEF Finished, Stopped, Typed, Terminal
  <2>. QED
    BY <2>1, <2>2 DEF Finished
<1>. QED
  BY <1>4, <1>8, <1>10, <1>11, <1>12 DEF Atomic!Finish, Atomic!Open, Finished

\* Every step of an attempt is one of ProcessingAtomic, or none of its business.
LEMMA AtomicStep ==
    ASSUME ProcessingAssumption, IInv, Typed, RowInv, MadeInv, NEW j \in Job, Step(j)
    PROVE  Atomic!Next \/ (UNCHANGED <<jobStatus, pages, blocks>> /\ Finished' = Finished)
<1>1. CASE Age(j)
  BY <1>1, AtomicStutter DEF Age, outVars
<1>2. CASE RefuseAttempt(j) \/ CreateFails(j)
  <2>1. pc[j] \in {"idle", "swept"} /\ UNCHANGED <<jobStatus, pages, blocks>>
    BY <1>2 DEF RefuseAttempt, CreateFails, Jump, jobVars, outVars
  <2>2. jobStatus[j] = "none"
    BY <2>1 DEF RowInv
  <2>. QED
    BY <2>1, <2>2, AtomicStutter
<1>3. CASE SelectStale(j) \/ \E result \in Result : Extract(j, result)
  <2>1. pc'[j] \in {"swept", "selectPages"} /\ UNCHANGED <<jobStatus, pages, blocks>>
    BY <1>3 DEF SelectStale, Extract, Jump, Typed, jobVars, outVars
  <2>. QED
    BY <2>1, AtomicStutter DEF Stopped
<1>4. CASE CreateJob(j)
  <2>1. /\ pc[j] = "swept" /\ pc'[j] = "created" /\ UNCHANGED <<pages, blocks>>
        /\ jobStatus' = [k \in Job |-> IF k = j THEN "PENDING"
                                       ELSE IF k \in marks[j] THEN "FAILED" ELSE jobStatus[k]]
    BY <1>4 DEF CreateJob, Jump, Typed, outVars
  <2>2. jobStatus[j] = "none" /\ \A k \in marks[j] : jobStatus[k] # "none"
    BY <2>1 DEF RowInv, MadeInv
  <2>3. marks[j] \in SUBSET Job
    BY DEF Typed
  <2>4. \A k \in Job \ {j} : k \in Finished' <=> k \in Finished
    BY <2>1, <2>2, FinishedBy
  <2>5. j \notin Finished /\ j \notin Finished'
    BY <2>1 DEF Finished, Stopped
  <2>6. Finished' = Finished
    BY <2>4, <2>5 DEF Finished
  <2>7. Atomic!Begin(j, marks[j])
    BY <2>1, <2>2, <2>6 DEF Atomic!Begin, Finished
  <2>. QED
    BY <2>3, <2>7 DEF Atomic!Next
<1>5. CASE MarkProcessing(j)
  <2>1. /\ pc[j] = "created" /\ pc'[j] = "extract" /\ UNCHANGED <<pages, blocks>>
        /\ jobStatus' = [jobStatus EXCEPT ![j] = "PROCESSING"]
    BY <1>5 DEF MarkProcessing, WriteJob, SetTo, Jump, Typed, outVars
  <2>2. jobStatus[j] # "none" /\ j \notin Finished /\ j \notin Finished'
    BY <2>1 DEF MadeInv, Working, Finished, Stopped
  <2>3. \A k \in Job \ {j} : k \in Finished' <=> k \in Finished
    BY <2>1, FinishedBy DEF Typed
  <2>4. Finished' = Finished
    BY <2>2, <2>3 DEF Finished
  <2>5. Atomic!Work(j)
    BY <2>1, <2>2, <2>4 DEF Atomic!Work, Atomic!Open, Finished
  <2>. QED
    BY <2>5 DEF Atomic!Next
<1>6. CASE MarkJobFailed(j) \/ MarkJobFailedFails(j)
  <2>1. /\ pc[j] = "failing" /\ pc'[j] = "raised" /\ UNCHANGED <<pages, blocks>>
        /\ jobStatus' \in {jobStatus, [jobStatus EXCEPT ![j] = "FAILED"]}
    BY <1>6 DEF MarkJobFailed, MarkJobFailedFails, WriteJob, SetTo, Jump, Typed, jobVars, outVars
  <2>2. jobStatus[j] # "none" /\ pc[j] \notin Stopped /\ pc'[j] \in Stopped
    BY <2>1 DEF MadeInv, Stopped
  <2>3. Atomic!GiveUp(j)
    BY <2>1, <2>2, AtomicGiveUp
  <2>. QED
    BY <2>3 DEF Atomic!Next
<1>7. CASE Rollback(j)
  <2>1. UNCHANGED <<jobStatus, pages, blocks>> /\ pc[j] \notin Stopped
        /\ pc'[j] \in {"failing", "crashed"}
    BY <1>7, RollbackEffect DEF jobVars, outVars
  <2>2. CASE pc'[j] = "failing" \/ jobStatus[j] = "none"
    BY <2>1, <2>2, AtomicStutter DEF Stopped
  <2>3. CASE pc'[j] = "crashed" /\ jobStatus[j] # "none"
    <3>1. Atomic!GiveUp(j)
      BY <2>1, <2>3, AtomicGiveUp DEF Stopped
    <3>. QED
      BY <3>1 DEF Atomic!Next
  <2>. QED
    BY <2>1, <2>2, <2>3
<1>8. CASE Statement(j)
  <2>1. UNCHANGED <<jobStatus, pages, blocks>> /\ pc'[j] \in Replacing
    BY <1>8, StatementEffect DEF jobVars, outVars
  <2>. QED
    BY <2>1, AtomicStutter DEF Stopped, Replacing
<1>9. CASE CommitResult(j)
  <2>1. verdict[j] \in {"PROCESSED", "NEEDS_REVIEW", "FAILED"}
    BY DEF Typed, Terminal
  <2>2. PICK v \in {"PROCESSED", "NEEDS_REVIEW", "FAILED"} : v = verdict[j]
    BY <2>1
  <2>3. Atomic!Finish(j, v)
    BY <1>9, <2>2, AtomicFinish
  <2>. QED
    BY <2>3 DEF Atomic!Next
<1>. QED
  BY <1>1, <1>2, <1>3, <1>4, <1>5, <1>6, <1>7, <1>8, <1>9, StepKinds DEF Outside

\* The statements of any number of concurrent replacements under READ COMMITTED implement
\* ProcessingAtomic: each attempt stores its output and its verdict in one step, or neither.
THEOREM ReplacesAtomically == Spec => ReplacementsAreAtomic
<1>1. Init => Atomic!Init
  BY DEF Init, Atomic!Init, Stopped
<1>2. IInv /\ RowInv /\ MadeInv /\ [Next]_vars => [Atomic!Next]_(Atomic!vars)
  <2>1. ASSUME UNCHANGED vars
        PROVE  UNCHANGED <<jobStatus, pages, blocks>> /\ Finished' = Finished
    BY <2>1 DEF vars, jobVars, outVars, Finished
  <2>2. ASSUME UNCHANGED <<jobStatus, pages, blocks>>, Finished' = Finished
        PROVE  UNCHANGED Atomic!vars
    BY <2>2 DEF Atomic!vars, Finished
  <2>. QED
    BY <2>1, <2>2, AtomicStep, TypedParts, ProcessingAssumption
       DEF IInv, Next, Step, AllStopped
<1>. QED
  BY <1>1, <1>2, Inductive, RowsAgree, RowsMade, PTL DEF Spec, ReplacementsAreAtomic, Atomic!Spec
=============================================================================
