----------------------------- MODULE CompanyProofs -----------------------------
(***************************************************************************)
(* process_company, for any calls over any artifacts beside any other      *)
(* attempts: it makes the steps of process_document and no others, it      *)
(* breaks off only where nothing could be recorded, and what it reports is *)
(* what the job rows say.                                                  *)
(***************************************************************************)
EXTENDS CompanyProcessing, ProcessingJobsProofs

CompanyTyped ==
    /\ loop \in [Call -> {"idle", "looping"} \cup CallEnded]
    /\ at \in [Call -> Nat \ {0}]
    /\ counts \in [Call -> [Columns -> Nat]]
    /\ \A c \in Call : at[c] <= Len(Listed[c]) + 1

\* What a step of the calls does to the attempts.
LEMMA CompanyStepIsStep ==
    ASSUME CompanyAssumption, CompanyTyped, CompanyNext
    PROVE  [Next]_vars
<1>1. ASSUME NEW c \in Call, loop[c] = "looping", More(c)
      PROVE  Current(c) \in Job
  BY <1>1 DEF CompanyAssumption, CompanyTyped, More, Current
<1>2. ASSUME NEW c \in Call, LoopProgress(c)
      PROVE  [Next]_vars
  BY <1>1, <1>2 DEF LoopProgress, OutcomeCounted, FailureCounted, Next, Progress, Environment
<1>3. ASSUME NEW c \in Call, LoopFault(c)
      PROVE  [Next]_vars
  BY <1>1, <1>3 DEF LoopFault, RefusalCounted, FailureEscapes, CallCrashes, Next, Environment
<1>4. ASSUME NEW c \in Call, ListArtifacts(c) \/ RefuseCall(c) \/ LoopEnds(c)
      PROVE  [Next]_vars
  BY <1>4 DEF ListArtifacts, RefuseCall, LoopEnds
<1>5. ASSUME NEW j \in Job, Elsewhere(j) \/ ElsewhereProgress(j)
      PROVE  [Next]_vars
  BY <1>5 DEF Elsewhere, ElsewhereProgress, Next, Environment
<1>6. CASE AllEnded
  BY <1>6 DEF AllEnded, allVars
<1>. QED
  BY <1>2, <1>3, <1>4, <1>5, <1>6 DEF CompanyNext

LEMMA CompanyTypesKept ==
    ASSUME CompanyAssumption, CompanyTyped, CompanyNext
    PROVE  CompanyTyped'
<1>. USE DEF CompanyTyped, EndCall, CallEnded, companyVars, SetTo
<1>0. \A c \in Call : Len(Listed[c]) \in Nat
  BY DEF CompanyAssumption
<1>1. ASSUME NEW c \in Call, NEW column \in Columns, Counted(c, column), More(c)
      PROVE  CompanyTyped'
  BY <1>0, <1>1 DEF Counted, More
<1>2. ASSUME NEW c \in Call, LoopProgress(c)
      PROVE  CompanyTyped'
  <2>1. \A status : ColumnOf(status) \in Columns
    BY DEF ColumnOf, Columns
  <2>2. "failed" \in Columns
    BY DEF Columns
  <2>. QED
    BY <1>1, <1>2, <2>1, <2>2 DEF LoopProgress, OutcomeCounted, FailureCounted
<1>3. ASSUME NEW c \in Call, LoopFault(c)
      PROVE  CompanyTyped'
  <2>2. "failed" \in Columns
    BY DEF Columns
  <2>. QED
    BY <1>1, <1>3, <2>2 DEF LoopFault, RefusalCounted, FailureEscapes, CallCrashes
<1>4. ASSUME NEW c \in Call, ListArtifacts(c) \/ RefuseCall(c) \/ LoopEnds(c)
      PROVE  CompanyTyped'
  BY <1>4 DEF ListArtifacts, RefuseCall, LoopEnds
<1>5. ASSUME NEW j \in Job, Elsewhere(j) \/ ElsewhereProgress(j)
      PROVE  CompanyTyped'
  BY <1>5 DEF Elsewhere, ElsewhereProgress
<1>6. CASE AllEnded
  BY <1>6 DEF AllEnded, allVars
<1>. QED
  BY <1>2, <1>3, <1>4, <1>5, <1>6 DEF CompanyNext

LEMMA CompanyTypesStart ==
    ASSUME CompanyAssumption, CompanyInit
    PROVE  CompanyTyped
<1>1. \A c \in Call : Len(Listed[c]) \in Nat
  BY DEF CompanyAssumption
<1>. QED
  BY <1>1 DEF CompanyInit, CompanyTyped

LEMMA CompanyTypes == CompanySpec => []CompanyTyped
<1>1. CompanyInit => CompanyTyped
  BY CompanyTypesStart, CompanyAssumption
<1>2. CompanyTyped /\ [CompanyNext]_allVars => CompanyTyped'
  <2>1. ASSUME CompanyTyped, UNCHANGED allVars PROVE CompanyTyped'
    BY <2>1 DEF CompanyTyped, allVars, companyVars
  <2>. QED
    BY <2>1, CompanyTypesKept, CompanyAssumption
<1>. QED
  BY <1>1, <1>2, PTL DEF CompanySpec

\* process_company adds no step of its own to the attempts: all that is proved of
\* process_document holds of the attempts it makes.
THEOREM CompanyImplementsJobs == CompanySpec => Spec
<1>1. CompanyInit => Init
  BY DEF CompanyInit
<1>2. CompanyTyped /\ [CompanyNext]_allVars => [Next]_vars
  <2>1. UNCHANGED allVars => UNCHANGED vars
    BY DEF allVars
  <2>. QED
    BY <2>1, CompanyStepIsStep, CompanyAssumption
<1>. QED
  BY <1>1, <1>2, CompanyTypes, PTL DEF CompanySpec, Spec

-----------------------------------------------------------------------------
(* What one step means for one call.                                       *)

At(c, i) == Listed[c][i]

\* A step of the call's own loop, with the attempt it awaits.
Awaits(c) == loop[c] = "looping" /\ More(c) /\ (LoopProgress(c) \/ LoopFault(c))

\* A step of an attempt that the call does not make, or a job that ages.
Beside(c) ==
    /\ loop'[c] = loop[c] /\ at'[c] = at[c] /\ counts'[c] = counts[c]
    /\ \E j \in Job : Step(j) /\ (Age(j) \/ j \notin ToSet(Listed[c]))

\* A step of the call that concerns no attempt, or no step at all.
Alone(c) ==
    /\ UNCHANGED vars /\ at'[c] = at[c] /\ counts'[c] = counts[c]
    /\ \/ loop'[c] = loop[c]
       \/ loop[c] = "idle" /\ loop'[c] \in {"looping", "raised"}
       \/ loop[c] = "looping" /\ ~ More(c) /\ loop'[c] = "returned"

LEMMA ListedJobs ==
    ASSUME CompanyAssumption, NEW c \in Call
    PROVE  /\ Len(Listed[c]) \in Nat
           /\ \A i \in 1..Len(Listed[c]) : At(c, i) \in Job /\ At(c, i) \in ToSet(Listed[c])
           /\ ToSet(Listed[c]) = {At(c, i) : i \in 1..Len(Listed[c])}
           /\ \A i, m \in 1..Len(Listed[c]) : At(c, i) = At(c, m) => i = m
<1>1. Listed[c] \in Seq(Job) /\ IsInjective(Listed[c])
  BY DEF CompanyAssumption
<1>. QED
  BY <1>1 DEF At, ToSet, IsInjective

LEMMA AwaitedJob ==
    ASSUME CompanyAssumption, CompanyTyped, NEW c \in Call, More(c)
    PROVE  /\ at[c] \in 1..Len(Listed[c]) /\ Current(c) = At(c, at[c])
           /\ Current(c) \in Job /\ Current(c) \in ToSet(Listed[c])
<1>1. at[c] \in 1..Len(Listed[c])
  BY ListedJobs DEF CompanyTyped, More
<1>. QED
  BY <1>1, ListedJobs DEF Current, At

LEMMA StepsOfCall ==
    ASSUME CompanyAssumption, CompanyTyped, CompanyNext, NEW c \in Call
    PROVE  Awaits(c) \/ Beside(c) \/ Alone(c)
<1>1. ASSUME NEW d \in Call, LoopProgress(d) \/ LoopFault(d)
      PROVE  Awaits(c) \/ Beside(c) \/ Alone(c)
  <2>1. CASE d = c
    BY <1>1, <2>1 DEF Awaits, LoopProgress, LoopFault
  <2>2. CASE d # c
    <3>1. loop'[c] = loop[c] /\ at'[c] = at[c] /\ counts'[c] = counts[c]
      BY <1>1, <2>2 DEF LoopProgress, LoopFault, OutcomeCounted, FailureCounted, RefusalCounted,
         FailureEscapes, CallCrashes, Counted, EndCall, SetTo, companyVars, CompanyTyped
    <3>2. More(d)
      BY <1>1 DEF LoopProgress, LoopFault
    <3>3. Current(d) \in Job /\ Current(d) \in ToSet(Listed[d])
      BY <3>2, AwaitedJob
    <3>4. Step(Current(d))
      BY <1>1 DEF LoopProgress, LoopFault, OutcomeCounted, FailureCounted, RefusalCounted,
         FailureEscapes, CallCrashes, Step, Progress, Environment
    <3>5. Current(d) \notin ToSet(Listed[c])
      BY <2>2, <3>3 DEF CompanyAssumption
    <3>. QED
      BY <3>1, <3>3, <3>4, <3>5 DEF Beside
  <2>. QED
    BY <2>1, <2>2
<1>2. ASSUME NEW d \in Call, ListArtifacts(d) \/ RefuseCall(d) \/ LoopEnds(d)
      PROVE  Alone(c)
  BY <1>2 DEF ListArtifacts, RefuseCall, LoopEnds, EndCall, SetTo, Alone, CompanyTyped
<1>3. ASSUME NEW j \in Job, Elsewhere(j) \/ ElsewhereProgress(j)
      PROVE  Beside(c)
  <2>1. Step(j) /\ (Age(j) \/ ~ Called(j))
    BY <1>3 DEF Elsewhere, ElsewhereProgress, Step, Environment
  <2>2. ~ Called(j) => j \notin ToSet(Listed[c])
    BY DEF Called
  <2>3. UNCHANGED companyVars
    BY <1>3 DEF Elsewhere, ElsewhereProgress
  <2>. QED
    BY <2>1, <2>2, <2>3 DEF Beside, companyVars
<1>4. CASE AllEnded
  BY <1>4 DEF AllEnded, allVars, companyVars, Alone
<1>. QED
  BY <1>1, <1>2, <1>3, <1>4 DEF CompanyNext

-----------------------------------------------------------------------------
(* Where a call breaks off.                                                *)

\* The attempts of a call begin one after the other; where it broke off, the attempt has
\* stopped or never begun, and its row holds no verdict of its own.
BrokenOff(c) ==
    /\ loop[c] = "idle" =>
          at[c] = 1 /\ \A i \in 1..Len(Listed[c]) : pc[At(c, i)] = "idle"
    /\ loop[c] = "looping" =>
          \A i \in 1..Len(Listed[c]) : i > at[c] => pc[At(c, i)] = "idle"
    /\ loop[c] = "raised" /\ More(c) =>
          \/ pc[Current(c)] = "idle"
          \/ /\ pc[Current(c)] \in Stopped
             /\ jobStatus[Current(c)] \notin Terminal \/ Current(c) \in recovered

LEMMA BesideLeavesPc ==
    ASSUME Typed, NEW c \in Call, Beside(c), NEW k \in Job, k \in ToSet(Listed[c])
    PROVE  /\ pc'[k] = pc[k]
           /\ \/ jobStatus'[k] = jobStatus[k] /\ (k \in recovered => k \in recovered')
              \/ jobStatus'[k] = "FAILED" /\ k \in recovered'
<1>1. PICK j \in Job : Step(j) /\ (Age(j) \/ j \notin ToSet(Listed[c]))
  BY DEF Beside
<1>2. CASE Age(j)
  BY <1>2 DEF Age
<1>3. CASE j \notin ToSet(Listed[c])
  <2>1. k # j
    BY <1>3
  <2>. QED
    BY <1>1, <2>1, StepTouchesOwn, JobWrites DEF Untouched
<1>. QED
  BY <1>1, <1>2, <1>3

\* What an awaited step does to the call and its attempt.
LEMMA AwaitedStep ==
    ASSUME CompanyAssumption, CompanyTyped, Typed, NEW c \in Call, Awaits(c)
    PROVE  /\ Step(Current(c))
           /\ \/ loop'[c] = "looping" /\ at'[c] = at[c] /\ counts'[c] = counts[c]
                 /\ ~ CommitResult(Current(c))
              \/ loop'[c] = "looping" /\ at'[c] = at[c] + 1
                 /\ \/ OutcomeCounted(c) \/ FailureCounted(c) \/ RefusalCounted(c)
              \/ loop'[c] \in {"raised", "crashed"} /\ at'[c] = at[c] /\ counts'[c] = counts[c]
                 /\ ~ CommitResult(Current(c)) /\ (loop'[c] = "raised" => FailureEscapes(c))
<1>1. Step(Current(c))
  BY DEF Awaits, LoopProgress, LoopFault, OutcomeCounted, FailureCounted, RefusalCounted,
     FailureEscapes, CallCrashes, Step, Progress, Environment
<1>2. CASE OutcomeCounted(c) \/ FailureCounted(c) \/ RefusalCounted(c)
  BY <1>1, <1>2 DEF Awaits, OutcomeCounted, FailureCounted, RefusalCounted, Counted, SetTo,
     CompanyTyped
<1>3. CASE FailureEscapes(c) \/ CallCrashes(c)
  <2>1. Current(c) \in Job
    BY AwaitedJob DEF Awaits
  <2>2. ~ CommitResult(Current(c))
    BY <1>3, <2>1 DEF FailureEscapes, CallCrashes, CreateFails, MarkJobFailedFails, Crash,
       CommitResult, Jump, Typed
  <2>. QED
    BY <1>1, <1>3, <2>2 DEF FailureEscapes, CallCrashes, EndCall, SetTo, CompanyTyped
<1>4. CASE ~ (OutcomeCounted(c) \/ FailureCounted(c) \/ RefusalCounted(c)
              \/ FailureEscapes(c) \/ CallCrashes(c))
  <2>0. More(c) /\ loop[c] = "looping" /\ Current(c) \in Job
    BY AwaitedJob DEF Awaits
  <2>1. CASE AttemptFails(Current(c)) /\ UNCHANGED companyVars
    <3>1. pc'[Current(c)] # "done"
      BY <2>0, <2>1 DEF AttemptFails, Typed
    <3>. QED
      BY <1>1, <2>0, <2>1, <3>1 DEF companyVars, CommitResult, Jump, Typed
  <2>2. CASE ~ (AttemptFails(Current(c)) /\ UNCHANGED companyVars)
    <3>1. UNCHANGED companyVars
      BY <1>4, <2>2 DEF Awaits, LoopProgress, LoopFault
    <3>2. pc'[Current(c)] # "done"
      BY <1>4, <2>0, <2>2 DEF Awaits, LoopProgress, LoopFault, SelectStale, CreateJob, MarkProcessing,
         Extract, SelectPages, DeleteBlocks, BeginDelete, DeletePages, InsertPage, InsertBlocks,
         ForeignKeyFails, UniqueKeyFails, Jump, Typed
    <3>. QED
      BY <1>1, <2>0, <3>1, <3>2 DEF companyVars, CommitResult, Jump, Typed
  <2>. QED
    BY <2>1, <2>2
<1>. QED
  BY <1>2, <1>3, <1>4

LEMMA FailuresStop ==
    ASSUME NEW j \in Job, Typed,
           CommitResult(j) \/ MarkJobFailed(j) \/ RefuseAttempt(j) \/ CreateFails(j) \/ MarkJobFailedFails(j)
    PROVE  pc'[j] \in Stopped /\ pc'[j] \in {"done", "raised"}
BY DEF CommitResult, MarkJobFailed, RefuseAttempt, CreateFails, MarkJobFailedFails, Jump, Typed,
       Stopped

LEMMA BrokenOffKept ==
    ASSUME CompanyAssumption, CompanyTyped, Typed, RowInv, CompanyNext, NEW c \in Call, BrokenOff(c)
    PROVE  BrokenOff(c)'
<1>1. \A i \in 1..Len(Listed[c]) : At(c, i) \in Job /\ At(c, i) \in ToSet(Listed[c])
  BY ListedJobs
<1>2. CASE Alone(c)
  BY <1>1, <1>2, AwaitedJob DEF Alone, BrokenOff, At, Current, More, Stopped, vars, jobVars
<1>3. CASE Beside(c)
  <2>1. \A i \in 1..Len(Listed[c]) : pc'[At(c, i)] = pc[At(c, i)]
    BY <1>1, <1>3, BesideLeavesPc
  <2>2. loop'[c] = loop[c] /\ at'[c] = at[c] /\ Current(c)' = Current(c) /\ More(c)' = More(c)
    BY <1>3 DEF Beside, Current, More
  <2>3. ASSUME loop[c] = "raised", More(c)
        PROVE  \/ pc'[Current(c)] = "idle"
               \/ /\ pc'[Current(c)] \in Stopped
                  /\ jobStatus'[Current(c)] \notin Terminal \/ Current(c) \in recovered'
    BY <1>3, <2>3, AwaitedJob, BesideLeavesPc DEF BrokenOff
  <2>. QED
    BY <2>1, <2>2, <2>3 DEF BrokenOff, At
<1>4. CASE Awaits(c)
  <2>0. More(c) /\ loop[c] = "looping"
    BY <1>4 DEF Awaits
  <2>1. /\ at[c] \in 1..Len(Listed[c]) /\ Current(c) = At(c, at[c]) /\ Current(c) \in Job
        /\ Step(Current(c))
    BY <1>4, <2>0, AwaitedJob, AwaitedStep
  <2>2. loop'[c] \in {"looping", "raised", "crashed"} /\ at'[c] \in {at[c], at[c] + 1}
    BY <1>4, AwaitedStep
  <2>3. ASSUME loop'[c] = "looping", NEW i \in 1..Len(Listed[c]), i > at'[c]
        PROVE  pc'[At(c, i)] = "idle"
    <3>1. i > at[c] /\ i # at[c]
      BY <2>1, <2>2, <2>3
    <3>2. At(c, i) # Current(c) /\ At(c, i) \in Job
      BY <2>1, <3>1, ListedJobs
    <3>3. pc[At(c, i)] = "idle"
      BY <2>0, <3>1 DEF BrokenOff
    <3>. QED
      BY <2>1, <3>2, <3>3, StepTouchesOwn DEF Untouched
  <2>4. ASSUME loop'[c] = "raised"
        PROVE  /\ Current(c)' = Current(c) /\ pc'[Current(c)] \in Stopped
               /\ jobStatus'[Current(c)] \notin Terminal \/ Current(c) \in recovered'
    <3>1. FailureEscapes(c) /\ at'[c] = at[c]
      BY <1>4, <2>4, AwaitedStep
    <3>2. CreateFails(Current(c)) \/ MarkJobFailedFails(Current(c))
      BY <3>1 DEF FailureEscapes
    <3>3. /\ jobStatus' = jobStatus /\ recovered' = recovered
          /\ pc[Current(c)] = "swept" \/ pc[Current(c)] = "failing"
      BY <3>2 DEF CreateFails, MarkJobFailedFails, Jump, jobVars
    <3>4. jobStatus[Current(c)] \notin Terminal \/ Current(c) \in recovered
      BY <2>1, <3>3 DEF RowInv, Terminal
    <3>. QED
      BY <2>1, <3>1, <3>2, <3>3, <3>4, FailuresStop DEF Current
  <2>. QED
    BY <2>2, <2>3, <2>4 DEF BrokenOff, At
<1>. QED
  BY <1>2, <1>3, <1>4, StepsOfCall

LEMMA BrokenOffStart ==
    ASSUME CompanyAssumption, CompanyInit
    PROVE  \A c \in Call : BrokenOff(c)
BY ListedJobs DEF CompanyInit, Init, BrokenOff

LEMMA CallsBreakOff == CompanySpec => [](\A c \in Call : BrokenOff(c))
<1>1. CompanyInit => \A c \in Call : BrokenOff(c)
  BY BrokenOffStart, CompanyAssumption
<1>2. /\ IInv /\ RowInv /\ CompanyTyped /\ (\A c \in Call : BrokenOff(c)) /\ [CompanyNext]_allVars
      => (\A c \in Call : BrokenOff(c))'
  <2>1. ASSUME \A c \in Call : BrokenOff(c), UNCHANGED allVars
        PROVE  (\A c \in Call : BrokenOff(c))'
    BY <2>1 DEF BrokenOff, At, Current, More, allVars, companyVars, vars, jobVars
  <2>. QED
    BY <2>1, BrokenOffKept, TypedParts, CompanyAssumption DEF IInv
<1>. QED
  BY <1>1, <1>2, CompanyTypes, CompanyImplementsJobs, Inductive, RowsAgree, PTL DEF CompanySpec

\* A failure that could be recorded never stops the company.
THEOREM OnlyUnrecordedBreaksOff == CompanySpec => []OnlyUnrecordedStops
<1>1. (\A c \in Call : BrokenOff(c)) => OnlyUnrecordedStops
  BY DEF BrokenOff, OnlyUnrecordedStops
<1>. QED
  BY <1>1, CallsBreakOff, PTL

-----------------------------------------------------------------------------
(* What a call reports.                                                    *)

Having(c, status) == {j \in ToSet(Listed[c]) : jobStatus[j] = status}

\* While a call has not broken off, its columns are the rows of its attempts.
Tallied(c) ==
    /\ loop[c] \in {"idle", "looping", "returned"} =>
          /\ counts[c]["processed"] = JobsWith(c, "PROCESSED")
          /\ counts[c]["needs_review"] = JobsWith(c, "NEEDS_REVIEW")
          /\ counts[c]["failed"] = at[c] - 1 - counts[c]["processed"] - counts[c]["needs_review"]
    /\ loop[c] = "returned" => at[c] = Len(Listed[c]) + 1

LEMMA HavingFinite ==
    ASSUME CompanyAssumption, NEW c \in Call, NEW status
    PROVE  IsFiniteSet(Having(c, status)) /\ Having(c, status) \subseteq ToSet(Listed[c])
<1>1. ToSet(Listed[c]) = {At(c, i) : i \in 1..Len(Listed[c])}
  BY ListedJobs
<1>2. IsFiniteSet(1..Len(Listed[c]))
  <2>1. 1 \in Int /\ Len(Listed[c]) \in Int
    BY ListedJobs
  <2>. QED
    BY <2>1, FS_Interval
<1>3. [i \in 1..Len(Listed[c]) |-> At(c, i)] \in Surjection(1..Len(Listed[c]), ToSet(Listed[c]))
  BY <1>1 DEF Surjection
<1>4. IsFiniteSet(ToSet(Listed[c]))
  BY <1>2, <1>3, FS_Surjection
<1>. QED
  BY <1>4, FS_Subset DEF Having

\* Only the commit of an attempt adds a verdict with pages or for review, and nothing takes
\* one back.
LEMMA HavingKept ==
    ASSUME CompanyAssumption, Slow = FALSE, Typed, RowInv, LiveInv, NEW c \in Call,
           NEW j \in Job, Step(j), j \in ToSet(Listed[c]) => ~ CommitResult(j),
           NEW status \in {"PROCESSED", "NEEDS_REVIEW"}
    PROVE  Having(c, status)' = Having(c, status)
<1>1. ASSUME NEW k \in Job, k \in ToSet(Listed[c])
      PROVE  jobStatus'[k] = status <=> jobStatus[k] = status
  <2>1. jobStatus[k] = status => jobStatus'[k] = status
    BY VerdictStays DEF Terminal
  <2>2. jobStatus'[k] = jobStatus[k] \/ jobStatus'[k] \in {"FAILED", "PENDING", "PROCESSING"}
    BY <1>1, JobWrites
  <2>. QED
    BY <2>1, <2>2
<1>2. ToSet(Listed[c]) \subseteq Job
  BY ListedJobs
<1>. QED
  BY <1>1, <1>2 DEF Having

LEMMA HavingGrows ==
    ASSUME CompanyAssumption, Slow = FALSE, Typed, RowInv, LiveInv, NEW c \in Call,
           NEW j \in Job, TxInv(j), CommitResult(j), j \in ToSet(Listed[c]),
           NEW status \in {"PROCESSED", "NEEDS_REVIEW"}
    PROVE  /\ j \notin Having(c, status)
           /\ Having(c, status)' = IF verdict[j] = status THEN Having(c, status) \cup {j}
                                   ELSE Having(c, status)
<1>1. /\ pc[j] = "commit" /\ jobStatus' = SetTo(jobStatus, j, verdict[j])
      /\ jobStatus[j] \in {"PENDING", "PROCESSING"}
  BY CommitEffect DEF LiveInv, Working, Replacing
<1>2. ToSet(Listed[c]) \subseteq Job
  BY ListedJobs
<1>3. j \notin Having(c, status)
  BY <1>1 DEF Having
<1>4. \A k \in ToSet(Listed[c]) :
          jobStatus'[k] = IF k = j THEN verdict[j] ELSE jobStatus[k]
  BY <1>1, <1>2 DEF SetTo, Typed
<1>. QED
  BY <1>3, <1>4 DEF Having

LEMMA TalliedKept ==
    ASSUME CompanyAssumption, CompanyTyped, Slow = FALSE, IInv, Typed, RowInv, LiveInv, CompanyNext,
           NEW c \in Call, Tallied(c)
    PROVE  Tallied(c)'
<1>. DEFINE P == Having(c, "PROCESSED")  N == Having(c, "NEEDS_REVIEW")
<1>0. /\ JobsWith(c, "PROCESSED") = Cardinality(P) /\ JobsWith(c, "NEEDS_REVIEW") = Cardinality(N)
      /\ JobsWith(c, "PROCESSED")' = Cardinality(P') /\ JobsWith(c, "NEEDS_REVIEW")' = Cardinality(N')
  BY DEF JobsWith, Having
<1>num. /\ Cardinality(P) \in Nat /\ Cardinality(N) \in Nat /\ IsFiniteSet(P) /\ IsFiniteSet(N)
        /\ at[c] \in Nat /\ Len(Listed[c]) \in Nat
        /\ counts[c]["processed"] \in Nat /\ counts[c]["needs_review"] \in Nat
        /\ counts[c]["failed"] \in Nat
  BY HavingFinite, FS_CardinalityType, ListedJobs DEF CompanyTyped, Columns
<1>1. ASSUME P' = P, N' = N, counts'[c] = counts[c], at'[c] = at[c],
             \/ loop'[c] = loop[c]
             \/ loop[c] = "idle" /\ loop'[c] \in {"looping", "raised"}
             \/ loop[c] = "looping" /\ loop'[c] \in {"raised", "crashed"}
             \/ loop[c] = "looping" /\ ~ More(c) /\ loop'[c] = "returned"
      PROVE  Tallied(c)'
  BY <1>0, <1>num, <1>1 DEF Tallied, More, CompanyTyped
<1>2. CASE Alone(c)
  BY <1>1, <1>2 DEF Alone, Having, vars, jobVars
<1>3. CASE Beside(c)
  <2>1. PICK j \in Job : Step(j) /\ (Age(j) \/ j \notin ToSet(Listed[c]))
    BY <1>3 DEF Beside
  <2>2. P' = P /\ N' = N
    <3>1. CASE Age(j)
      BY <3>1 DEF Age, Having
    <3>2. CASE j \notin ToSet(Listed[c])
      BY <2>1, <3>2, HavingKept
    <3>. QED
      BY <2>1, <3>1, <3>2
  <2>. QED
    BY <1>1, <1>3, <2>2 DEF Beside
<1>4. CASE Awaits(c)
  <2>. DEFINE j == Current(c)
  <2>1. /\ loop[c] = "looping" /\ More(c) /\ j \in Job /\ j \in ToSet(Listed[c])
        /\ Step(j) /\ TxInv(j)
    BY <1>4, AwaitedJob, AwaitedStep DEF Awaits, IInv
  <2>2. CASE /\ ~ CommitResult(j) /\ at'[c] = at[c] /\ counts'[c] = counts[c]
             /\ loop'[c] \in {"looping", "raised", "crashed"}
    <3>1. P' = P /\ N' = N
      BY <2>1, <2>2, HavingKept
    <3>. QED
      BY <1>1, <2>1, <2>2, <3>1
  <2>3. CASE FailureCounted(c) \/ RefusalCounted(c)
    <3>1. ~ CommitResult(j)
      BY <2>3 DEF FailureCounted, RefusalCounted, MarkJobFailed, RefuseAttempt, CommitResult, Jump
    <3>2. P' = P /\ N' = N
      BY <2>1, <3>1, HavingKept
    <3>3. /\ loop' = loop /\ at'[c] = at[c] + 1
          /\ counts'[c]["processed"] = counts[c]["processed"]
          /\ counts'[c]["needs_review"] = counts[c]["needs_review"]
          /\ counts'[c]["failed"] = counts[c]["failed"] + 1
      BY <2>3 DEF FailureCounted, RefusalCounted, Counted, SetTo, CompanyTyped, Columns
    <3>4. /\ counts[c]["processed"] = Cardinality(P) /\ counts[c]["needs_review"] = Cardinality(N)
          /\ counts[c]["failed"] = at[c] - 1 - counts[c]["processed"] - counts[c]["needs_review"]
      BY <1>0, <2>1 DEF Tallied
    <3>5. at'[c] - 1 - counts'[c]["processed"] - counts'[c]["needs_review"] = counts'[c]["failed"]
      BY <1>num, <3>3, <3>4
    <3>6. Cardinality(P') = Cardinality(P) /\ Cardinality(N') = Cardinality(N)
      BY <3>2
    <3>. QED
      BY <1>0, <2>1, <3>3, <3>4, <3>5, <3>6 DEF Tallied
  <2>4. CASE OutcomeCounted(c)
    <3>1. CommitResult(j) /\ Counted(c, ColumnOf(verdict[j])) /\ verdict[j] \in Terminal
      BY <2>1, <2>4 DEF OutcomeCounted, Typed
    <3>2. /\ j \notin P /\ P' = IF verdict[j] = "PROCESSED" THEN P \cup {j} ELSE P
          /\ j \notin N /\ N' = IF verdict[j] = "NEEDS_REVIEW" THEN N \cup {j} ELSE N
      BY <2>1, <3>1, HavingGrows
    <3>3. /\ Cardinality(P') = Cardinality(P) + IF verdict[j] = "PROCESSED" THEN 1 ELSE 0
          /\ Cardinality(N') = Cardinality(N) + IF verdict[j] = "NEEDS_REVIEW" THEN 1 ELSE 0
      <4>1. /\ Cardinality(P \cup {j}) = Cardinality(P) + 1
            /\ Cardinality(N \cup {j}) = Cardinality(N) + 1
        BY <1>num, <3>2, FS_AddElement
      <4>2. Cardinality(P') = Cardinality(P) + IF verdict[j] = "PROCESSED" THEN 1 ELSE 0
        <5>1. CASE verdict[j] = "PROCESSED"
          <6>1. P' = P \cup {j}
            BY <3>2, <5>1
          <6>. QED
            BY <4>1, <5>1, <6>1
        <5>2. CASE verdict[j] # "PROCESSED"
          <6>1. P' = P
            BY <3>2, <5>2
          <6>. QED
            BY <1>num, <5>2, <6>1
        <5>. QED
          BY <5>1, <5>2
      <4>3. Cardinality(N') = Cardinality(N) + IF verdict[j] = "NEEDS_REVIEW" THEN 1 ELSE 0
        <5>1. CASE verdict[j] = "NEEDS_REVIEW"
          <6>1. N' = N \cup {j}
            BY <3>2, <5>1
          <6>. QED
            BY <4>1, <5>1, <6>1
        <5>2. CASE verdict[j] # "NEEDS_REVIEW"
          <6>1. N' = N
            BY <3>2, <5>2
          <6>. QED
            BY <1>num, <5>2, <6>1
        <5>. QED
          BY <5>1, <5>2
      <4>. QED
        BY <4>2, <4>3
    <3>4. /\ loop' = loop /\ at'[c] = at[c] + 1
          /\ counts'[c]["processed"] =
                counts[c]["processed"] + IF verdict[j] = "PROCESSED" THEN 1 ELSE 0
          /\ counts'[c]["needs_review"] =
                counts[c]["needs_review"] + IF verdict[j] = "NEEDS_REVIEW" THEN 1 ELSE 0
          /\ counts'[c]["failed"] =
                counts[c]["failed"] + IF verdict[j] = "FAILED" THEN 1 ELSE 0
      BY <3>1 DEF ColumnOf, Counted, SetTo, CompanyTyped, Columns, Terminal
    <3>5. /\ counts[c]["processed"] = Cardinality(P) /\ counts[c]["needs_review"] = Cardinality(N)
          /\ counts[c]["failed"] = at[c] - 1 - counts[c]["processed"] - counts[c]["needs_review"]
      BY <1>0, <2>1 DEF Tallied
    <3>6. at'[c] - 1 - counts'[c]["processed"] - counts'[c]["needs_review"] = counts'[c]["failed"]
      BY <1>num, <3>1, <3>4, <3>5 DEF Terminal
    <3>. QED
      BY <1>0, <2>1, <3>3, <3>4, <3>5, <3>6 DEF Tallied
  <2>. QED
    BY <1>4, <2>2, <2>3, <2>4, AwaitedStep
<1>. QED
  BY <1>2, <1>3, <1>4, StepsOfCall

LEMMA TalliedStart ==
    ASSUME CompanyAssumption, CompanyInit, NEW c \in Call
    PROVE  Tallied(c)
<1>1. \A k \in ToSet(Listed[c]) : jobStatus[k] = "none"
  BY ListedJobs DEF CompanyInit, Init
<1>2. \A status \in {"PROCESSED", "NEEDS_REVIEW"} :
        {j \in ToSet(Listed[c]) : jobStatus[j] = status} = {}
  BY <1>1
<1>3. JobsWith(c, "PROCESSED") = 0 /\ JobsWith(c, "NEEDS_REVIEW") = 0
  BY <1>2, FS_EmptySet DEF JobsWith
<1>4. /\ loop[c] = "idle" /\ at[c] = 1 /\ counts[c]["processed"] = 0
      /\ counts[c]["needs_review"] = 0 /\ counts[c]["failed"] = 0
  BY DEF CompanyInit, Columns
<1>. QED
  BY <1>3, <1>4 DEF Tallied

\* While no attempt outlives stale_job_after, what process_company reports is what the job
\* rows of its attempts say, then and ever after.
THEOREM SummaryIsTrue ==
    ASSUME Slow = FALSE
    PROVE  CompanySpec => []SummaryMatchesJobs
<1>1. CompanyInit => \A c \in Call : Tallied(c)
  BY TalliedStart, CompanyAssumption
<1>2. /\ IInv /\ RowInv /\ LiveInv /\ CompanyTyped /\ (\A c \in Call : Tallied(c))
      /\ [CompanyNext]_allVars
      => (\A c \in Call : Tallied(c))'
  <2>1. ASSUME \A c \in Call : Tallied(c), UNCHANGED allVars
        PROVE  (\A c \in Call : Tallied(c))'
    BY <2>1 DEF Tallied, JobsWith, allVars, companyVars, vars, jobVars
  <2>. QED
    BY <2>1, TalliedKept, TypedParts, CompanyAssumption DEF IInv
<1>3. CompanyTyped /\ (\A c \in Call : Tallied(c)) => SummaryMatchesJobs
  <2>1. ASSUME CompanyTyped, NEW c \in Call, Tallied(c), loop[c] = "returned"
        PROVE  /\ counts[c]["processed"] = JobsWith(c, "PROCESSED")
               /\ counts[c]["needs_review"] = JobsWith(c, "NEEDS_REVIEW")
               /\ counts[c]["failed"] =
                     Len(Listed[c]) - counts[c]["processed"] - counts[c]["needs_review"]
    <3>1. Len(Listed[c]) \in Nat
      BY ListedJobs, CompanyAssumption
    <3>2. counts[c]["processed"] \in Nat /\ counts[c]["needs_review"] \in Nat
      BY <2>1 DEF CompanyTyped, Columns
    <3>. QED
      BY <2>1, <3>1, <3>2 DEF Tallied
  <2>. QED
    BY <2>1 DEF SummaryMatchesJobs
<1>. QED
  BY <1>1, <1>2, <1>3, CompanyTypes, CompanyImplementsJobs, Inductive, RowsAgree, LiveRows, PTL
     DEF CompanySpec
================================================================================
