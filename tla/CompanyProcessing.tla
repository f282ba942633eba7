-------------------------- MODULE CompanyProcessing --------------------------
(***************************************************************************)
(* ProcessDocumentService.process_company: one call lists the artifacts of *)
(* a company and awaits process_document for each, one after the other.    *)
(* The attempts are those of ProcessingJobs; an exception of an attempt    *)
(* reaches the loop in the step that raises it.  Several calls, and        *)
(* attempts that no call makes, run over the same database.                *)
(***************************************************************************)
EXTENDS ProcessingJobs, Sequences, SequencesExt

CONSTANTS
    Call,   \* calls of process_company
    Listed  \* Listed[c]: the attempts c makes, in the order of the listed artifacts

ASSUME CompanyAssumption ==
    /\ Listed \in [Call -> Seq(Job)]
    /\ \A c \in Call : IsInjective(Listed[c])
    /\ \A c, d \in Call : c # d => ToSet(Listed[c]) \cap ToSet(Listed[d]) = {}

VARIABLES
    loop,    \* where each call is
    at,      \* position of the artifact at hand
    counts   \* what the call has counted

companyVars == <<loop, at, counts>>
allVars == <<vars, companyVars>>

Columns == {"processed", "needs_review", "failed", "skipped"}
CallEnded == {"returned", "raised", "crashed"}

CompanyTypeOK ==
    /\ TypeOK
    /\ loop \in [Call -> {"idle", "looping"} \cup CallEnded]
    /\ \A c \in Call : at[c] \in 1..(Len(Listed[c]) + 1)
    /\ counts \in [Call -> [Columns -> Nat]]

CompanyInit ==
    /\ Init
    /\ loop = [c \in Call |-> "idle"]
    /\ at = [c \in Call |-> 1]
    /\ counts = [c \in Call |-> [k \in Columns |-> 0]]

-----------------------------------------------------------------------------

More(c) == at[c] <= Len(Listed[c])
Current(c) == Listed[c][at[c]]
Called(j) == \E c \in Call : j \in ToSet(Listed[c])

EndCall(c, how) == loop' = SetTo(loop, c, how) /\ UNCHANGED <<at, counts>>

\* get_by_ticker finds the company, list_ids_for_company its artifacts.
ListArtifacts(c) ==
    /\ loop[c] = "idle"
    /\ EndCall(c, "looping")
    /\ UNCHANGED vars

\* Unknown ticker.
RefuseCall(c) ==
    /\ loop[c] = "idle"
    /\ EndCall(c, "raised")
    /\ UNCHANGED vars

\* The loop body ends and the next artifact is due.
Counted(c, column) ==
    /\ counts' = [counts EXCEPT ![c][column] = @ + 1]
    /\ at' = SetTo(at, c, at[c] + 1)
    /\ UNCHANGED loop

\* Mutant: a FAILED outcome that did not raise falls through to the last branch.
ColumnOfSkipping(status) ==
    CASE status = "PROCESSED" -> "processed"
      [] status = "NEEDS_REVIEW" -> "needs_review"
      [] OTHER -> "skipped"

\* outcome.job.status is the verdict that mark_finished has just written.
ColumnOf(status) ==
    CASE status = "PROCESSED" -> "processed"
      [] status = "NEEDS_REVIEW" -> "needs_review"
      [] status = "FAILED" -> "failed"
      [] OTHER -> "skipped"

\* process_document returns: outcome.job.status is the verdict just written.
OutcomeCounted(c) ==
    /\ CommitResult(Current(c))
    /\ Counted(c, ColumnOf(verdict[Current(c)]))

\* Mutant: the except clause does not continue.
FailureStops(c) ==
    /\ MarkJobFailed(Current(c))
    /\ EndCall(c, "raised")

\* A failure that has been recorded leaves as ProcessDocumentError.
FailureCounted(c) ==
    /\ MarkJobFailed(Current(c))
    /\ Counted(c, "failed")

\* So does a missing artifact or raw object.
RefusalCounted(c) ==
    /\ RefuseAttempt(Current(c))
    /\ Counted(c, "failed")

\* What creating the job or recording its failure raises is another exception.
FailureEscapes(c) ==
    /\ CreateFails(Current(c)) \/ MarkJobFailedFails(Current(c))
    /\ EndCall(c, "raised")

\* The attempt dies with the process that runs the call.
CallCrashes(c) ==
    /\ Crash(Current(c))
    /\ EndCall(c, "crashed")

LoopEnds(c) ==
    /\ loop[c] = "looping" /\ ~ More(c)
    /\ EndCall(c, "returned")
    /\ UNCHANGED vars

\* The steps of the loop and of the attempt it awaits that no fault causes.
LoopProgress(c) ==
    /\ loop[c] = "looping" /\ More(c)
    /\ LET j == Current(c) IN
       \/ /\ \/ SelectStale(j) \/ CreateJob(j) \/ MarkProcessing(j)
             \/ \E result \in Result : Extract(j, result)
             \/ SelectPages(j) \/ DeleteBlocks(j) \/ BeginDelete(j) \/ DeletePages(j)
             \/ InsertPage(j) \/ InsertBlocks(j)
             \/ ForeignKeyFails(j) \/ UniqueKeyFails(j)
          /\ UNCHANGED companyVars
       \/ OutcomeCounted(c)
       \/ FailureCounted(c)

LoopFault(c) ==
    /\ loop[c] = "looping" /\ More(c)
    /\ \/ AttemptFails(Current(c)) /\ UNCHANGED companyVars
       \/ RefusalCounted(c) \/ FailureEscapes(c) \/ CallCrashes(c)

\* Attempts that no call makes, and the age of every job.
Elsewhere(j) ==
    /\ Age(j) \/ (~ Called(j) /\ Environment(j))
    /\ UNCHANGED companyVars

ElsewhereProgress(j) ==
    /\ ~ Called(j) /\ Progress(j)
    /\ UNCHANGED companyVars

AllEnded ==
    /\ \A c \in Call : loop[c] \in CallEnded
    /\ \A j \in Job : Called(j) \/ pc[j] \in Stopped
    /\ UNCHANGED allVars

CompanyNext ==
    \/ \E c \in Call : \/ ListArtifacts(c) \/ RefuseCall(c)
                       \/ LoopProgress(c) \/ LoopFault(c) \/ LoopEnds(c)
    \/ \E j \in Job : Elsewhere(j) \/ ElsewhereProgress(j)
    \/ AllEnded

CompanySpec == CompanyInit /\ [][CompanyNext]_allVars

\* Each call, and each attempt elsewhere that has begun, is a coroutine the event loop
\* keeps scheduling.
CompanyFairSpec ==
    /\ CompanySpec
    /\ \A c \in Call : WF_allVars(LoopProgress(c)) /\ WF_allVars(LoopEnds(c))
    /\ \A j \in Job : WF_allVars(ElsewhereProgress(j))

-----------------------------------------------------------------------------
(* Properties.                                                             *)

\* The attempts of c whose job rows say status.
JobsWith(c, status) ==
    Cardinality({j \in ToSet(Listed[c]) : jobStatus[j] = status})

\* What a call reports when it returns is what the job rows say, then and ever after:
\* one outcome for each listed artifact, none of them lost to the failure of another.
SummaryMatchesJobs ==
    \A c \in Call : loop[c] = "returned" =>
        /\ counts[c]["processed"] = JobsWith(c, "PROCESSED")
        /\ counts[c]["needs_review"] = JobsWith(c, "NEEDS_REVIEW")
        /\ counts[c]["failed"] =
              Len(Listed[c]) - counts[c]["processed"] - counts[c]["needs_review"]

\* A failure that could be recorded never stops the company: where a call breaks off, the
\* attempt at hand has left no verdict of its own.
OnlyUnrecordedStops ==
    \A c \in Call : loop[c] = "raised" /\ More(c) /\ pc[Current(c)] # "idle" =>
        jobStatus[Current(c)] \notin Terminal \/ Current(c) \in recovered

\* Every call ends, and every attempt comes to a verdict or dies: the waits for the rows
\* of other attempts end.
CallsEnd ==
    /\ \A c \in Call : loop[c] = "looping" ~> loop[c] \in CallEnded
    /\ AttemptsEnd

=============================================================================
