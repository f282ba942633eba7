---------------------------- MODULE IngestionRuns ----------------------------
(***************************************************************************)
(* IngestCompanyService.ingest: runs that discover publications at a       *)
(* source, upsert and link them in PostgreSQL, and download their          *)
(* attachments into object storage.  Runs are separate processes over one  *)
(* database and one bucket; every action is one transaction, one storage   *)
(* call or one network call of one run, so runs interleave between them    *)
(* and a run may stop between any two.                                     *)
(***************************************************************************)
EXTENDS Lineage, Sequences, FiniteSets

CONSTANTS
    Run,       \* attempted calls of ingest
    Att,       \* attachment download references
    Sha,       \* SHA-256 digests, standing for the bytes they identify
    NoSha,     \* no digest
    Feeds,     \* the document lists a connector may return
    Content,   \* Content[a]: the digests the source may serve for a
    Faults     \* the kinds of fault a behaviour may contain

Doc == [id : Pub, supersedes : Pub \cup {NoPub}, correction : BOOLEAN, atts : Seq(Att)]

FaultKinds == {"crash", "escape", "source", "storage", "db", "download"}

\* p names q as the version it supersedes in some document list.
Declares(p, q) ==
    \E f \in Feeds : \E i \in DOMAIN f : f[i].id = p /\ f[i].supersedes = q

(***************************************************************************)
(* The versions a source declares have no cycle: _find_root and the        *)
(* recursive CTE do not end on one.  For finitely many publications both   *)
(* conjuncts of the last clause say the same.                              *)
(***************************************************************************)
ASSUME IngestionAssumption ==
    /\ Feeds \subseteq Seq(Doc)
    /\ NoSha \notin Sha
    /\ Content \in [Att -> SUBSET Sha]
    /\ Faults \subseteq FaultKinds
    /\ \A S \in SUBSET Pub : S # {} =>
          /\ \E p \in S : \A q \in S : ~ Declares(p, q)
          /\ \E p \in S : \A q \in S : ~ Declares(q, p)

VARIABLES
    \* PostgreSQL
    pubs,        \* rows of source_publications
    parent,      \* source_publications.parent_publication_id
    latest,      \* rows with is_latest_version
    review,      \* rows with processing_status NEEDS_REVIEW
    rawObjects,  \* digests with a row in raw_objects
    artifact,    \* document_artifacts: (publication, attachment) -> digest of its raw object
    runRow,      \* rows of ingestion_runs
    \* object storage
    blobs,       \* digests whose object is in the bucket
    \* the local state of each run
    pc, dry, feed, doc, att, sha, tally, verdict, raises

dbVars == <<pubs, parent, latest, review, rawObjects, artifact, runRow>>
lineageVars == <<pubs, parent, latest, review>>
fileVars == <<rawObjects, artifact, blobs>>
localVars == <<dry, feed, doc, att, sha, tally, verdict, raises>>
vars == <<dbVars, blobs, pc, localVars>>

Terminal == {"COMPLETED", "PARTIAL", "FAILED"}
Stopped == {"done", "raised", "crashed"}
Attaching == {"check", "download", "raw", "put", "insertRaw", "bind"}
Phases == {"idle", "ready", "discover", "upsert", "link", "unresolved", "finish"}
              \cup Attaching \cup Stopped

Tally == [downloaded : Nat, skipped : Nat, failed : Nat]
NoTally == [downloaded |-> 0, skipped |-> 0, failed |-> 0]

NoRow == [status |-> "none", discovered |-> 0, tally |-> NoTally]
RunRow == [status : {"none", "RUNNING"} \cup Terminal, discovered : Nat, tally : Tally]

TypeOK ==
    /\ pubs \subseteq Pub
    /\ parent \in ParentMap
    /\ latest \subseteq Pub
    /\ review \subseteq Pub
    /\ rawObjects \subseteq Sha
    /\ artifact \in [Pub \X Att -> Sha \cup {NoSha}]
    /\ runRow \in [Run -> RunRow]
    /\ blobs \subseteq Sha
    /\ pc \in [Run -> Phases]
    /\ dry \in [Run -> BOOLEAN]
    /\ feed \in [Run -> Seq(Doc)]
    /\ doc \in [Run -> Nat \ {0}]
    /\ att \in [Run -> Nat \ {0}]
    /\ sha \in [Run -> Sha \cup {NoSha}]
    /\ tally \in [Run -> Tally]
    /\ verdict \in [Run -> Terminal]
    /\ raises \in [Run -> BOOLEAN]

Init ==
    /\ pubs = {} /\ latest = {} /\ review = {}
    /\ parent = [p \in Pub |-> NoPub]
    /\ rawObjects = {} /\ blobs = {}
    /\ artifact = [x \in Pub \X Att |-> NoSha]
    /\ runRow = [r \in Run |-> NoRow]
    /\ pc = [r \in Run |-> "idle"]
    /\ dry = [r \in Run |-> FALSE]
    /\ feed = [r \in Run |-> << >>]
    /\ doc = [r \in Run |-> 1]
    /\ att = [r \in Run |-> 1]
    /\ sha = [r \in Run |-> NoSha]
    /\ tally = [r \in Run |-> NoTally]
    /\ verdict = [r \in Run |-> "FAILED"]
    /\ raises = [r \in Run |-> FALSE]

-----------------------------------------------------------------------------
(* Moving a run through its phases.                                        *)

Goto(r, to) == pc' = [pc EXCEPT ![r] = to]
Jump(r, from, to) == pc[r] = from /\ Goto(r, to)

Current(r) == feed[r][doc[r]]
CurrentAtt(r) == Current(r).atts[att[r]]
MoreDocs(r) == doc[r] <= Len(feed[r])
MoreAtts(r) == MoreDocs(r) /\ att[r] <= Len(Current(r).atts)

\* The publications of this run's batch, the keys of publication_ids.
Batch(r) == {feed[r][i].id : i \in DOMAIN feed[r]}

Count(r, column) == [tally EXCEPT ![r][column] = @ + 1]

\* Seeded faults: any success counts as completion; no PARTIAL.
OutcomeAnySuccess(t) ==
    IF t.failed > 0 /\ t.downloaded + t.skipped = 0 THEN "FAILED" ELSE "COMPLETED"
OutcomeNoPartial(t) == IF t.failed > 0 THEN "FAILED" ELSE "COMPLETED"

\* The status a run earns from its counters once the attachments are done.
Outcome(t) ==
    CASE t.failed > 0 /\ t.downloaded + t.skipped > 0 -> "PARTIAL"
      [] t.failed > 0 /\ t.downloaded + t.skipped = 0 -> "FAILED"
      [] OTHER -> "COMPLETED"

-----------------------------------------------------------------------------
(* Start of a run.                                                         *)

\* _get_company finds the ticker; _start_run commits the RUNNING row.
StartRun(r, isDry) ==
    /\ Jump(r, "idle", IF isDry THEN "discover" ELSE "ready")
    /\ dry' = [dry EXCEPT ![r] = isDry]
    /\ runRow' = [runRow EXCEPT ![r] = [NoRow EXCEPT !.status = "RUNNING"]]
    /\ UNCHANGED <<lineageVars, fileVars, feed, doc, att, sha, tally, verdict, raises>>

\* Unknown ticker, or no connection: ingest raises before a row exists.
RefuseRun(r) ==
    /\ Jump(r, "idle", "raised")
    /\ UNCHANGED <<dbVars, blobs, localVars>>

EnsureReady(r) ==
    /\ Jump(r, "ready", "discover")
    /\ UNCHANGED <<dbVars, blobs, localVars>>

StorageNotReady(r) ==
    /\ "storage" \in Faults
    /\ Jump(r, "ready", "finish")
    /\ verdict' = [verdict EXCEPT ![r] = "FAILED"]
    /\ UNCHANGED <<dbVars, blobs, dry, feed, doc, att, sha, tally, raises>>

Discover(r, docs) ==
    /\ Jump(r, "discover", "upsert")
    /\ feed' = [feed EXCEPT ![r] = docs]
    /\ UNCHANGED <<dbVars, blobs, dry, doc, att, sha, tally, verdict, raises>>

\* A SourceError is recorded on the run and raised again.
SourceFails(r) ==
    /\ "source" \in Faults
    /\ Jump(r, "discover", "finish")
    /\ verdict' = [verdict EXCEPT ![r] = "FAILED"]
    /\ raises' = [raises EXCEPT ![r] = TRUE]
    /\ UNCHANGED <<dbVars, blobs, dry, feed, doc, att, sha, tally>>

-----------------------------------------------------------------------------
(* Publications: one upsert transaction per document.                      *)

NeedsReview(d) == d.correction /\ d.supersedes = NoPub

\* Seeded faults: latest at insert although a successor, or although under review.
LatestUnlessReview(d) == ~ NeedsReview(d)
LatestUnlessSuccessor(d) == d.supersedes = NoPub

LatestOnInsert(d) == ~ NeedsReview(d) /\ d.supersedes = NoPub

\* Seeded fault: the conflict update resets the parent column too.
EnsurePublicationReset(r) ==
    LET d == Current(r) IN
    /\ pc[r] = "upsert" /\ MoreDocs(r)
    /\ pubs' = pubs \cup {d.id}
    /\ parent' = [parent EXCEPT ![d.id] = NoPub]
    /\ latest' = IF d.id \notin pubs /\ LatestOnInsert(d) THEN latest \cup {d.id} ELSE latest
    /\ review' = IF d.id \notin pubs /\ NeedsReview(d) THEN review \cup {d.id} ELSE review
    /\ doc' = [doc EXCEPT ![r] = @ + 1]
    /\ UNCHANGED <<rawObjects, artifact, runRow, blobs, pc,
                   dry, feed, att, sha, tally, verdict, raises>>

EnsurePublication(r) ==
    LET d == Current(r) IN
    /\ pc[r] = "upsert" /\ MoreDocs(r)
    /\ pubs' = pubs \cup {d.id}
    /\ latest' = IF d.id \notin pubs /\ LatestOnInsert(d) THEN latest \cup {d.id} ELSE latest
    /\ review' = IF d.id \notin pubs /\ NeedsReview(d) THEN review \cup {d.id} ELSE review
    /\ doc' = [doc EXCEPT ![r] = @ + 1]
    /\ UNCHANGED <<parent, rawObjects, artifact, runRow, blobs, pc,
                   dry, feed, att, sha, tally, verdict, raises>>

\* Seeded fault: the link loop starts before the first document.
UpsertsDoneAtZero(r) ==
    /\ ~ MoreDocs(r)
    /\ Jump(r, "upsert", "link")
    /\ doc' = [doc EXCEPT ![r] = 0]
    /\ UNCHANGED <<dbVars, blobs, dry, feed, att, sha, tally, verdict, raises>>

UpsertsDone(r) ==
    /\ ~ MoreDocs(r)
    /\ Jump(r, "upsert", "link")
    /\ doc' = [doc EXCEPT ![r] = 1]
    /\ UNCHANGED <<dbVars, blobs, dry, feed, att, sha, tally, verdict, raises>>

-----------------------------------------------------------------------------
(* Lineage: one link transaction per document that supersedes another.     *)

LinkUnder(child, par) ==
    /\ parent' = Linked(parent, child, par)
    /\ latest' = LatestAfterLink(parent, latest, child, par)
    /\ UNCHANGED review

MarkNeedsReview(p) ==
    /\ review' = review \cup {p}
    /\ latest' = latest \ {p}
    /\ UNCHANGED parent

NextDocOf(r) ==
    /\ doc' = [doc EXCEPT ![r] = @ + 1]
    /\ UNCHANGED <<pubs, rawObjects, artifact, runRow, blobs,
                   dry, feed, att, sha, tally, verdict, raises>>

\* A document without a predecessor: only a correction is touched.
LinkNothing(r) ==
    LET d == Current(r) IN
    /\ pc[r] = "link" /\ MoreDocs(r) /\ d.supersedes = NoPub
    /\ IF d.correction THEN MarkNeedsReview(d.id) ELSE UNCHANGED <<parent, latest, review>>
    /\ NextDocOf(r)
    /\ UNCHANGED pc

\* The predecessor is in the batch, or the lookup finds its row.
LinkPredecessor(r) ==
    LET d == Current(r) IN
    /\ pc[r] = "link" /\ MoreDocs(r)
    /\ d.supersedes \in Batch(r) \cup pubs
    /\ LinkUnder(d.id, d.supersedes)
    /\ NextDocOf(r)
    /\ UNCHANGED pc

\* get_id_by_natural_key returns nothing; the transaction stays open.
PredecessorMissing(r) ==
    LET d == Current(r) IN
    /\ MoreDocs(r)
    /\ d.supersedes # NoPub /\ d.supersedes \notin Batch(r) \cup pubs
    /\ Jump(r, "link", "unresolved")
    /\ UNCHANGED <<dbVars, blobs, localVars>>

\* The same transaction marks the child and commits.
MarkUnresolved(r) ==
    /\ Jump(r, "unresolved", "link")
    /\ MarkNeedsReview(Current(r).id)
    /\ NextDocOf(r)

LinksDone(r) ==
    /\ ~ MoreDocs(r)
    /\ Jump(r, "link", "check")
    /\ doc' = [doc EXCEPT ![r] = 1]
    /\ UNCHANGED <<dbVars, blobs, dry, feed, att, sha, tally, verdict, raises>>

\* A SQLAlchemyError of the upsert or link loop, a deadlock victim included.
DatabaseFails(r) ==
    LET t == tally[r] IN
    /\ "db" \in Faults
    /\ pc[r] \in {"upsert", "link", "unresolved"} /\ MoreDocs(r)
    /\ Goto(r, "finish")
    /\ tally' = Count(r, "failed")
    /\ verdict' = [verdict EXCEPT ![r] =
                      IF pc[r] # "upsert" /\ t.downloaded + t.skipped > 0
                      THEN "PARTIAL" ELSE "FAILED"]
    /\ UNCHANGED <<dbVars, blobs, dry, feed, doc, att, sha, raises>>

-----------------------------------------------------------------------------
(* Attachments: download outside any transaction, store, then record.      *)

\* The loop body ends: its counter moves and the next attachment is due.
AttachmentEnds(r, column) ==
    /\ Goto(r, "check")
    /\ tally' = Count(r, column)
    /\ att' = [att EXCEPT ![r] = @ + 1]
    /\ sha' = [sha EXCEPT ![r] = NoSha]
    /\ UNCHANGED <<lineageVars, runRow, dry, feed, doc, verdict, raises>>

ArtifactOf(r) == artifact[<<Current(r).id, CurrentAtt(r)>>]

\* A dry run, or an artifact row that exists already.
SkipAttachment(r) ==
    /\ pc[r] = "check" /\ MoreAtts(r)
    /\ dry[r] \/ ArtifactOf(r) # NoSha
    /\ AttachmentEnds(r, "skipped")
    /\ UNCHANGED fileVars

NeedAttachment(r) ==
    /\ MoreAtts(r)
    /\ ~ dry[r] /\ ArtifactOf(r) = NoSha
    /\ Jump(r, "check", "download")
    /\ UNCHANGED <<dbVars, blobs, localVars>>

Download(r, s) ==
    /\ Jump(r, "download", "raw")
    /\ s \in Content[CurrentAtt(r)]
    /\ sha' = [sha EXCEPT ![r] = s]
    /\ UNCHANGED <<dbVars, blobs, dry, feed, doc, att, tally, verdict, raises>>

\* Seeded fault: an object in the bucket is taken for a raw_objects row.
FindBlob(r) ==
    /\ Jump(r, "raw", IF sha[r] \in blobs THEN "bind" ELSE "put")
    /\ UNCHANGED <<dbVars, blobs, localVars>>

\* _ensure_raw_object reads the row first and uploads only when it is absent.
FindRawObject(r) ==
    /\ Jump(r, "raw", IF sha[r] \in rawObjects THEN "bind" ELSE "put")
    /\ UNCHANGED <<dbVars, blobs, localVars>>

PutBlob(r) ==
    /\ Jump(r, "put", "insertRaw")
    /\ blobs' = blobs \cup {sha[r]}
    /\ UNCHANGED <<dbVars, localVars>>

InsertRawObject(r) ==
    /\ Jump(r, "insertRaw", "bind")
    /\ rawObjects' = rawObjects \cup {sha[r]}
    /\ UNCHANGED <<lineageVars, artifact, runRow, blobs, localVars>>

\* Seeded fault: ON CONFLICT DO UPDATE.
BindArtifactOver(r) ==
    /\ pc[r] = "bind"
    /\ artifact' = [artifact EXCEPT ![<<Current(r).id, CurrentAtt(r)>>] = sha[r]]
    /\ AttachmentEnds(r, "downloaded")
    /\ UNCHANGED <<rawObjects, blobs>>

\* INSERT ... ON CONFLICT DO NOTHING; the run counts a download either way.
BindArtifact(r) ==
    /\ pc[r] = "bind"
    /\ artifact' = [artifact EXCEPT ![<<Current(r).id, CurrentAtt(r)>>] =
                       IF @ = NoSha THEN sha[r] ELSE @]
    /\ AttachmentEnds(r, "downloaded")
    /\ UNCHANGED <<rawObjects, blobs>>

\* The kind of fault that ends the loop body in each of its phases.
FaultOf(phase) ==
    CASE phase = "download" -> "download"
      [] phase = "put" -> "storage"
      [] OTHER -> "db"

\* An upload that reports an error may have stored the object.
AttachmentFails(r, stored) ==
    /\ pc[r] \in Attaching /\ MoreAtts(r)
    /\ FaultOf(pc[r]) \in Faults
    /\ pc[r] = "check" => ~ dry[r]
    /\ stored => pc[r] = "put"
    /\ blobs' = IF stored THEN blobs \cup {sha[r]} ELSE blobs
    /\ AttachmentEnds(r, "failed")
    /\ UNCHANGED <<rawObjects, artifact>>

\* Seeded fault: the loop does not leave its last document.
NextDocumentShort(r) ==
    /\ pc[r] = "check" /\ doc[r] < Len(feed[r]) /\ ~ MoreAtts(r)
    /\ doc' = [doc EXCEPT ![r] = @ + 1]
    /\ att' = [att EXCEPT ![r] = 1]
    /\ UNCHANGED <<dbVars, blobs, pc, dry, feed, sha, tally, verdict, raises>>

NextDocument(r) ==
    /\ pc[r] = "check" /\ MoreDocs(r) /\ ~ MoreAtts(r)
    /\ doc' = [doc EXCEPT ![r] = @ + 1]
    /\ att' = [att EXCEPT ![r] = 1]
    /\ UNCHANGED <<dbVars, blobs, pc, dry, feed, sha, tally, verdict, raises>>

AttachmentsDone(r) ==
    /\ ~ MoreDocs(r)
    /\ Jump(r, "check", "finish")
    /\ verdict' = [verdict EXCEPT ![r] = Outcome(tally[r])]
    /\ UNCHANGED <<dbVars, blobs, dry, feed, doc, att, sha, tally, raises>>

-----------------------------------------------------------------------------
(* End of a run.                                                           *)

\* _finish_run commits the status and the counters, then ingest returns or re-raises.
FinishRun(r) ==
    /\ Jump(r, "finish", IF raises[r] THEN "raised" ELSE "done")
    /\ runRow' = [runRow EXCEPT ![r] = [status |-> verdict[r],
                                        discovered |-> Len(feed[r]),
                                        tally |-> tally[r]]]
    /\ UNCHANGED <<lineageVars, fileVars, localVars>>

\* An exception no handler of ingest names: an httpx.HTTPError of the connector, an
\* OSError of a refused connection, a SQLAlchemyError of _finish_run itself.
Escape(r) ==
    /\ "escape" \in Faults
    /\ pc[r] \notin Stopped \cup {"idle"}
    /\ Goto(r, "raised")
    /\ UNCHANGED <<dbVars, blobs, localVars>>

\* The process stops; an open transaction is rolled back.
Crash(r) ==
    /\ "crash" \in Faults
    /\ pc[r] \notin Stopped \cup {"idle"}
    /\ Goto(r, "crashed")
    /\ UNCHANGED <<dbVars, blobs, localVars>>

-----------------------------------------------------------------------------
(* The steps of a run that no fault causes, once it has started.           *)
Progress(r) ==
    \/ EnsureReady(r)
    \/ \E f \in Feeds : Discover(r, f)
    \/ EnsurePublication(r) \/ UpsertsDone(r)
    \/ LinkNothing(r) \/ LinkPredecessor(r)
    \/ PredecessorMissing(r) \/ MarkUnresolved(r) \/ LinksDone(r)
    \/ SkipAttachment(r) \/ NeedAttachment(r)
    \/ \E s \in Sha : Download(r, s)
    \/ FindRawObject(r) \/ PutBlob(r) \/ InsertRawObject(r) \/ BindArtifact(r)
    \/ NextDocument(r) \/ AttachmentsDone(r)
    \/ FinishRun(r)

Fault(r) ==
    \/ RefuseRun(r)
    \/ StorageNotReady(r) \/ SourceFails(r) \/ DatabaseFails(r)
    \/ \E stored \in BOOLEAN : AttachmentFails(r, stored)
    \/ Escape(r) \/ Crash(r)

Start(r) == \E isDry \in BOOLEAN : StartRun(r, isDry)

\* Every run has returned, raised or died.
AllStopped == (\A r \in Run : pc[r] \in Stopped) /\ UNCHANGED vars

Next == (\E r \in Run : Start(r) \/ Progress(r) \/ Fault(r)) \/ AllStopped

Spec == Init /\ [][Next]_vars

\* Each run is a coroutine the event loop keeps scheduling; its network calls time out.
FairSpec == Spec /\ \A r \in Run : WF_vars(Progress(r))
-----------------------------------------------------------------------------
(* Properties.                                                             *)

Docs(r) == {feed[r][i] : i \in DOMAIN feed[r]}
Completed(r) == runRow[r].status = "COMPLETED"

\* Every attachment row leads to its bytes: its publication exists, its digest has a
\* raw_objects row, and the object of every such row is in the bucket, whichever
\* step a run stopped at (storage is written before the row that names it).
ArtifactsResolve ==
    /\ rawObjects \subseteq blobs
    /\ \A p \in Pub, a \in Att :
          artifact[<<p, a>>] # NoSha => p \in pubs /\ artifact[<<p, a>>] \in rawObjects

\* A run recorded COMPLETED that was not a dry run has left every attachment it
\* discovered bound to stored bytes, by itself or by the run that was faster.
CompletedMeansStored ==
    \A r \in Run : Completed(r) /\ ~ dry[r] =>
        \A d \in Docs(r) : \A k \in DOMAIN d.atts : artifact[<<d.id, d.atts[k]>>] \in blobs

\* The attachments of a document list, by position.
Attachments(docs) == UNION {{i} \X DOMAIN docs[i].atts : i \in DOMAIN docs}

\* The status a reader of ingestion_runs sees agrees with its counters: COMPLETED
\* accounts for every attachment without a failure, PARTIAL for every attachment with
\* failures and successes, and FAILED never hides a file that was stored or skipped.
StatusMatchesCounts ==
    \A r \in Run :
        LET t == runRow[r].tally
            total == t.downloaded + t.skipped + t.failed
            all == Cardinality(Attachments(feed[r]))
        IN /\ Completed(r) => t.failed = 0 /\ total = all
           /\ runRow[r].status = "PARTIAL" => t.failed \in 1..(all - 1) /\ total = all
           /\ runRow[r].status = "FAILED" => t.downloaded + t.skipped = 0

\* The rows linked into one lineage never have two latest versions among them,
\* whatever runs interleave, fail or are killed, and however a source re-declares
\* what supersedes what.
OneLatestPerLineage == OneLatest(parent, latest)

\* Once two versions are linked, a latest version exists and it is the newest leaf.
NewestLeafLatest ==
    \A p \in Pub : parent[p] # NoPub => LatestLeaf(parent, Root(parent, p)) \in latest

\* A document every list gives as a successor or as a correction.
Unresolved(p) ==
    /\ parent[p] = NoPub
    /\ \A f \in Feeds : \A i \in DOMAIN f :
          f[i].id = p => f[i].supersedes # NoPub \/ f[i].correction

\* A successor or a correction that is not linked to a predecessor is never latest,
\* at no point between the upsert and the link of any run.
UnresolvedNeverLatest == \A p \in pubs : Unresolved(p) => p \notin latest

\* The lists that runs were given so far name q as the version p supersedes.
Named(p, q) ==
    q # NoPub /\ \E r \in Run : \E d \in Docs(r) : d.id = p /\ d.supersedes = q

NamedParent ==
    [p \in Pub |-> IF \E q \in Pub : Named(p, q)
                   THEN CHOOSE q \in Pub : Named(p, q) ELSE NoPub]

\* Of a version and one it supersedes, directly or through others, only one is ever
\* latest, the links still to be made included.
NoTwoDeclaredLatest ==
    \A p, q \in latest : q \in Subtree(NamedParent, p) => p = q

\* Every version that a list names as superseded stands in the list, before its
\* successor.
OldestFirst(docs) ==
    \A i \in DOMAIN docs : docs[i].supersedes # NoPub =>
        \E j \in 1..(i - 1) : docs[j].id = docs[i].supersedes

\* Every list gives a version the same predecessor, or none.
SamePredecessors ==
    \A r, s \in Run : \A d \in Docs(r), e \in Docs(s) : d.id = e.id => d.supersedes = e.supersedes

\* While every list is oldest first, and none gives a version another predecessor than
\* the rest, no interruption exposes a version and one it supersedes as latest together,
\* the comment's promise at _ensure_publication.
OldestFirstOneDeclared ==
    (\A r \in Run : OldestFirst(feed[r])) /\ SamePredecessors => NoTwoDeclaredLatest

\* No two lists disagree on what a version supersedes.
ListsAgree == \A p, q1, q2 \in Pub : Named(p, q1) /\ Named(p, q2) => q1 = q2

\* A list that no date window cuts: predecessors are in it, and each correction names one.
Whole(docs) ==
    \A d \in {docs[i] : i \in DOMAIN docs} :
        IF d.supersedes = NoPub THEN ~ d.correction
        ELSE d.supersedes \in {docs[i].id : i \in DOMAIN docs}

\* While every list is whole, in whatever order, and none moves a version that another
\* one placed, a lineage with links always has its newest leaf as latest version:
\* link_child_to_parent_and_update_latest loses no election to an interrupted, repeated
\* or concurrent run. (A version that moves leaves a cleared lineage behind, in which
\* nothing is elected.)
WholeListsNewestLatest ==
    (\A r \in Run : Whole(feed[r])) /\ ListsAgree => NewestLeafLatest

\* A run recorded COMPLETED has resolved the versions it was given: each document is
\* linked to the predecessor it names, when that is in its list, and stays linked,
\* unless another list moves it.
CompletedLinksVersions ==
    ListsAgree =>
        \A r \in Run : Completed(r) =>
            \A d \in Docs(r) :
                d.supersedes \in Batch(r) => parent[d.id] = d.supersedes

\* A stored artifact is never bound to other bytes, though the source may serve new
\* bytes under the same reference and several runs may race to bind it.
ArtifactsImmutable ==
    [][\A x \in Pub \X Att : artifact[x] # NoSha => artifact'[x] = artifact[x]]_vars

\* An exception that leaves ingest is recorded on the run it ends.
FailureRecorded == \A r \in Run : pc[r] = "raised" => runRow[r].status # "RUNNING"

\* A run that was started is recorded as finished, unless its process was killed or
\* its exception escaped.
RunsSettle ==
    \A r \in Run : runRow[r].status = "RUNNING" ~>
        runRow[r].status \in Terminal \/ pc[r] \in {"raised", "crashed"}

-----------------------------------------------------------------------------
(* The inductive invariant behind the safety theorems.                     *)

\* What a run has done by each phase: its batch is upserted before it links, and
\* bytes and rows exist before the step that relies on them.
RunInv(r) ==
    /\ feed[r] \in Feeds \cup {<< >>}
    /\ pc[r] \in {"idle", "ready", "discover"} => doc[r] = 1
    /\ pc[r] = "upsert" => \A i \in DOMAIN feed[r] : i < doc[r] => feed[r][i].id \in pubs
    /\ pc[r] \in {"link", "unresolved"} \cup Attaching => Batch(r) \subseteq pubs
    /\ pc[r] = "unresolved" => MoreDocs(r)
    /\ pc[r] \in Attaching \ {"check"} => MoreAtts(r)
    /\ pc[r] \in {"raw", "put", "insertRaw", "bind"} => sha[r] \in Sha
    /\ pc[r] = "insertRaw" => sha[r] \in blobs
    /\ pc[r] = "bind" => sha[r] \in rawObjects

\* Links join stored rows and follow what a source declared, hence have no cycle.
LinksInv ==
    /\ latest \subseteq pubs
    /\ \A p \in Pub : parent[p] # NoPub =>
          p \in pubs /\ parent[p] \in pubs /\ Declares(p, parent[p])

IInv ==
    /\ TypeOK
    /\ \A r \in Run : RunInv(r)
    /\ ArtifactsResolve
    /\ LinksInv
    /\ OneLatestPerLineage
=============================================================================
