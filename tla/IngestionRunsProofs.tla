------------------------ MODULE IngestionRunsProofs ------------------------
(***************************************************************************)
(* Safety of ingestion for any number of runs, publications, attachments   *)
(* and digests, any document lists whose declared versions have no cycle,  *)
(* and any set of faults.                                                  *)
(***************************************************************************)
EXTENDS IngestionRuns, LineageProofs, FiniteSetTheorems

-----------------------------------------------------------------------------
(* Reading the current document and attachment.                            *)

LEMMA CurrentDoc ==
    ASSUME TypeOK, NEW r \in Run, MoreDocs(r)
    PROVE  /\ doc[r] \in DOMAIN feed[r]
           /\ Current(r) \in Doc
           /\ Current(r).id \in Batch(r)
<1>1. feed[r] \in Seq(Doc) /\ doc[r] \in Nat \ {0} /\ doc[r] <= Len(feed[r])
  BY DEF TypeOK, MoreDocs
<1>2. doc[r] \in DOMAIN feed[r] /\ feed[r][doc[r]] \in Doc
  BY <1>1
<1>3. QED
  BY <1>2 DEF Current, Batch

LEMMA CurrentAttachment ==
    ASSUME TypeOK, NEW r \in Run, MoreAtts(r)
    PROVE  CurrentAtt(r) \in Att /\ Current(r) \in Doc
<1>1. Current(r) \in Doc /\ att[r] \in Nat \ {0} /\ att[r] <= Len(Current(r).atts)
  BY CurrentDoc DEF TypeOK, MoreAtts
<1>2. Current(r).atts \in Seq(Att)
  BY <1>1 DEF Doc
<1>3. QED
  BY <1>1, <1>2 DEF CurrentAtt

-----------------------------------------------------------------------------
(* Links follow declarations, and declarations have no cycle.              *)

LEMMA DeclaredAcyclic ==
    ASSUME NEW par \in ParentMap,
           \A p \in Pub : par[p] # NoPub => Declares(p, par[p])
    PROVE  Acyclic(par)
<1> SUFFICES ASSUME NEW S \in SUBSET Pub, S # {}
             PROVE  /\ \E p \in S : par[p] \notin S
                    /\ \E p \in S : \A c \in S : par[c] # p
  BY DEF Acyclic
<1>1. \A p \in S : par[p] \in S => Declares(p, par[p])
  BY LineageAssumption
<1>2. \E p \in S : \A q \in S : ~ Declares(p, q)
  BY IngestionAssumption
<1>3. \E p \in S : \A q \in S : ~ Declares(q, p)
  BY IngestionAssumption
<1>4. QED
  BY <1>1, <1>2, <1>3

LEMMA LinkStep ==
    ASSUME IInv, NEW r \in Run, LinkPredecessor(r)
    PROVE  LET child == Current(r).id
               pred == Current(r).supersedes
           IN /\ child \in pubs /\ pred \in pubs /\ pubs \subseteq Pub
              /\ parent' = Linked(parent, child, pred)
              /\ latest' = LatestAfterLink(parent, latest, child, pred)
              /\ parent'[child] = pred /\ Declares(child, pred)
              /\ \A p \in Pub \ {child} : parent'[p] = parent[p]
              /\ parent' \in ParentMap
              /\ latest' \in SUBSET Pub
              /\ OneLatest(parent', latest')
<1> DEFINE child == Current(r).id
           pred == Current(r).supersedes
<1>1. /\ pc[r] = "link" /\ MoreDocs(r) /\ pred \in Batch(r) \cup pubs
      /\ parent' = Linked(parent, child, pred)
      /\ latest' = LatestAfterLink(parent, latest, child, pred)
  BY DEF LinkPredecessor, LinkUnder
<1>2. TypeOK /\ RunInv(r) /\ LinksInv
  BY DEF IInv
<1>3. Batch(r) \subseteq pubs /\ pubs \subseteq Pub
  BY <1>1, <1>2 DEF RunInv, TypeOK
<1>4. child \in pubs /\ pred \in pubs
  BY <1>1, <1>2, <1>3, CurrentDoc
<1>5. Declares(child, pred)
  <2>1. doc[r] \in DOMAIN feed[r]
    BY <1>1, <1>2, CurrentDoc
  <2>2. feed[r] \in Feeds
    BY <1>2, <2>1 DEF RunInv
  <2>3. QED
    BY <2>1, <2>2 DEF Declares, Current
<1>6. parent \in ParentMap
  BY <1>2 DEF TypeOK
<1>7. parent' \in ParentMap /\ \A p \in Pub : parent'[p] = IF p = child THEN pred ELSE parent[p]
  BY <1>1, <1>3, <1>4, <1>6 DEF Linked, ParentMap
<1>8. Acyclic(parent)
  BY <1>2, <1>6, DeclaredAcyclic DEF LinksInv
<1>9. \A p \in Pub : parent'[p] # NoPub => Declares(p, parent'[p])
  BY <1>2, <1>5, <1>7 DEF LinksInv
<1>10. Acyclic(parent')
  BY <1>7, <1>9, DeclaredAcyclic
<1>11. latest' \in SUBSET Pub /\ OneLatest(parent', latest')
  <2>1. latest \in SUBSET Pub /\ OneLatest(parent, latest)
    BY DEF IInv, TypeOK, OneLatestPerLineage
  <2>2. Acyclic(Linked(parent, child, pred))
    BY <1>1, <1>10
  <2> HIDE DEF child, pred
  <2>3. /\ LatestAfterLink(parent, latest, child, pred) \in SUBSET Pub
        /\ OneLatest(Linked(parent, child, pred), LatestAfterLink(parent, latest, child, pred))
    BY <1>3, <1>4, <1>6, <1>8, <2>1, <2>2, LinkKeepsOneLatest
  <2>4. QED
    BY <2>3, <1>1
<1>12. QED
  BY <1>1, <1>3, <1>4, <1>5, <1>7, <1>11

-----------------------------------------------------------------------------
(* Type correctness.                                                       *)

LEMMA StepTypes ==
    ASSUME TypeOK, NEW r \in Run
    PROVE  /\ [doc EXCEPT ![r] = @ + 1] \in [Run -> Nat \ {0}]
           /\ [doc EXCEPT ![r] = 1] \in [Run -> Nat \ {0}]
           /\ [att EXCEPT ![r] = @ + 1] \in [Run -> Nat \ {0}]
           /\ [att EXCEPT ![r] = 1] \in [Run -> Nat \ {0}]
           /\ [sha EXCEPT ![r] = NoSha] \in [Run -> Sha \cup {NoSha}]
           /\ \A column \in {"downloaded", "skipped", "failed"} : Count(r, column) \in [Run -> Tally]
<1>1. \A n \in Nat \ {0} : n + 1 \in Nat \ {0}
  OBVIOUS
<1>2. \A column \in {"downloaded", "skipped", "failed"} : Count(r, column) \in [Run -> Tally]
  <2>1. tally \in [Run -> Tally]
    BY DEF TypeOK
  <2>2. [tally[r] EXCEPT !.downloaded = @ + 1] \in Tally
    BY <2>1 DEF Tally
  <2>3. [tally[r] EXCEPT !.skipped = @ + 1] \in Tally
    BY <2>1 DEF Tally
  <2>4. [tally[r] EXCEPT !.failed = @ + 1] \in Tally
    BY <2>1 DEF Tally
  <2>5. QED
    BY <2>1, <2>2, <2>3, <2>4 DEF Count
<1>3. doc[r] + 1 \in Nat \ {0} /\ att[r] + 1 \in Nat \ {0} /\ 1 \in Nat \ {0}
  BY <1>1 DEF TypeOK
<1>4. QED
  BY <1>2, <1>3 DEF TypeOK

LEMMA TypeStep ==
    ASSUME IInv, [Next]_vars
    PROVE  TypeOK'
<1> USE DEF TypeOK, vars, dbVars, lineageVars, fileVars, localVars, Jump, Goto, Phases,
            Stopped, Attaching, Terminal, RunRow, NoRow, Tally, NoTally
<1>0. TypeOK
  BY DEF IInv
<1>1. CASE UNCHANGED vars
  BY <1>0, <1>1
<1>2. ASSUME NEW r \in Run, Start(r)
      PROVE  TypeOK'
  <2>1. PICK isDry \in BOOLEAN : StartRun(r, isDry)
    BY <1>2 DEF Start
  <2>2. runRow' \in [Run -> RunRow]
    BY <1>0, <2>1 DEF StartRun
  <2>3. QED
    BY <1>0, <2>1, <2>2 DEF StartRun
<1>3. ASSUME NEW r \in Run, Progress(r)
      PROVE  TypeOK'
  <2>1. CASE EnsureReady(r)
    BY <1>0, <2>1 DEF EnsureReady
  <2>2. ASSUME NEW f \in Feeds, Discover(r, f)
        PROVE  TypeOK'
    BY <1>0, <2>2, IngestionAssumption DEF Discover
  <2>3. CASE EnsurePublication(r)
    <3>1. Current(r).id \in Pub
      BY <1>0, <2>3, CurrentDoc DEF EnsurePublication, Doc
    <3>2. QED
      BY <1>0, <2>3, <3>1, StepTypes DEF EnsurePublication
  <2>4. CASE UpsertsDone(r)
    BY <1>0, <2>4, StepTypes DEF UpsertsDone
  <2>5. CASE LinkNothing(r)
    <3>1. Current(r).id \in Pub
      BY <1>0, <2>5, CurrentDoc DEF LinkNothing, Doc
    <3>2. latest' \subseteq Pub /\ review' \subseteq Pub /\ parent' = parent
      BY <1>0, <2>5, <3>1 DEF LinkNothing, MarkNeedsReview
    <3>3. QED
      BY <1>0, <2>5, <3>2, StepTypes DEF LinkNothing, NextDocOf
  <2>6. CASE LinkPredecessor(r)
    <3>1. parent' \in ParentMap
      BY <2>6, LinkStep
    <3>2. latest' \subseteq Pub
      BY <2>6, LinkStep
    <3>3. QED
      BY <1>0, <2>6, <3>1, <3>2, StepTypes DEF LinkPredecessor, LinkUnder, NextDocOf
  <2>7. CASE PredecessorMissing(r)
    BY <1>0, <2>7 DEF PredecessorMissing
  <2>8. CASE MarkUnresolved(r)
    <3>1. MoreDocs(r)
      BY <2>8 DEF MarkUnresolved, IInv, RunInv
    <3>2. Current(r).id \in Pub
      BY <1>0, <3>1, CurrentDoc DEF Doc
    <3>3. QED
      BY <1>0, <2>8, <3>2, StepTypes DEF MarkUnresolved, MarkNeedsReview, NextDocOf
  <2>9. CASE LinksDone(r)
    BY <1>0, <2>9, StepTypes DEF LinksDone
  <2>10. CASE SkipAttachment(r)
    BY <1>0, <2>10, StepTypes DEF SkipAttachment, AttachmentEnds
  <2>11. CASE NeedAttachment(r)
    BY <1>0, <2>11 DEF NeedAttachment
  <2>12. ASSUME NEW s \in Sha, Download(r, s)
         PROVE  TypeOK'
    BY <1>0, <2>12 DEF Download
  <2>13. CASE FindRawObject(r)
    BY <1>0, <2>13 DEF FindRawObject
  <2>14. CASE PutBlob(r)
    <3>1. sha[r] \in Sha
      BY <2>14 DEF PutBlob, IInv, RunInv
    <3>2. QED
      BY <1>0, <2>14, <3>1 DEF PutBlob
  <2>15. CASE InsertRawObject(r)
    <3>1. sha[r] \in Sha
      BY <2>15 DEF InsertRawObject, IInv, RunInv
    <3>2. QED
      BY <1>0, <2>15, <3>1 DEF InsertRawObject
  <2>16. CASE BindArtifact(r)
    <3>1. artifact' \in [Pub \X Att -> Sha \cup {NoSha}]
      BY <1>0, <2>16 DEF BindArtifact
    <3>2. QED
      BY <1>0, <2>16, <3>1, StepTypes DEF BindArtifact, AttachmentEnds
  <2>17. CASE NextDocument(r)
    BY <1>0, <2>17, StepTypes DEF NextDocument
  <2>18. CASE AttachmentsDone(r)
    BY <1>0, <2>18 DEF AttachmentsDone, Outcome
  <2>19. CASE FinishRun(r)
    <3>1. Len(feed[r]) \in Nat
      BY <1>0
    <3>2. runRow' \in [Run -> RunRow]
      BY <1>0, <2>19, <3>1 DEF FinishRun
    <3>3. QED
      BY <1>0, <2>19, <3>2 DEF FinishRun
  <2>20. QED
    BY <1>3, <2>1, <2>2, <2>3, <2>4, <2>5, <2>6, <2>7, <2>8, <2>9, <2>10, <2>11, <2>12,
       <2>13, <2>14, <2>15, <2>16, <2>17, <2>18, <2>19 DEF Progress
<1>4. ASSUME NEW r \in Run, Fault(r)
      PROVE  TypeOK'
  <2>1. CASE RefuseRun(r)
    BY <1>0, <2>1 DEF RefuseRun
  <2>2. CASE StorageNotReady(r)
    BY <1>0, <2>2 DEF StorageNotReady
  <2>3. CASE SourceFails(r)
    BY <1>0, <2>3 DEF SourceFails
  <2>4. CASE DatabaseFails(r)
    BY <1>0, <2>4, StepTypes DEF DatabaseFails
  <2>5. ASSUME NEW stored \in BOOLEAN, AttachmentFails(r, stored)
        PROVE  TypeOK'
    <3>1. stored => sha[r] \in Sha
      BY <2>5 DEF AttachmentFails, IInv, RunInv
    <3>2. blobs' \subseteq Sha
      BY <1>0, <2>5, <3>1 DEF AttachmentFails
    <3>3. QED
      BY <1>0, <2>5, <3>2, StepTypes DEF AttachmentFails, AttachmentEnds
  <2>6. CASE Escape(r)
    BY <1>0, <2>6 DEF Escape
  <2>7. CASE Crash(r)
    BY <1>0, <2>7 DEF Crash
  <2>8. QED
    BY <1>4, <2>1, <2>2, <2>3, <2>4, <2>5, <2>6, <2>7 DEF Fault
<1>5. QED
  BY <1>1, <1>2, <1>3, <1>4 DEF Next, AllStopped

-----------------------------------------------------------------------------
(* What a step leaves alone.                                               *)

Step(r) == Start(r) \/ Progress(r) \/ Fault(r)

\* Four actions touch the lineage columns.
LEMMA LineageFrame ==
    ASSUME NEW r \in Run, Step(r)
    PROVE  \/ EnsurePublication(r) \/ LinkNothing(r) \/ LinkPredecessor(r) \/ MarkUnresolved(r)
           \/ UNCHANGED lineageVars
BY DEF Step, Start, Progress, Fault, StartRun, EnsureReady, Discover, UpsertsDone,
       PredecessorMissing, LinksDone, SkipAttachment, NeedAttachment, Download, FindRawObject,
       PutBlob, InsertRawObject, BindArtifact, NextDocument, AttachmentsDone, FinishRun,
       RefuseRun, StorageNotReady, SourceFails, DatabaseFails, AttachmentFails, AttachmentEnds,
       Escape, Crash, dbVars, lineageVars

\* Four actions touch the stored files and the rows that name them.
LEMMA FileFrame ==
    ASSUME NEW r \in Run, Step(r)
    PROVE  \/ PutBlob(r) \/ InsertRawObject(r) \/ BindArtifact(r)
           \/ \E stored \in BOOLEAN : AttachmentFails(r, stored)
           \/ UNCHANGED fileVars
BY DEF Step, Start, Progress, Fault, StartRun, EnsureReady, Discover, EnsurePublication,
       UpsertsDone, LinkNothing, LinkPredecessor, PredecessorMissing, MarkUnresolved, NextDocOf,
       LinksDone, SkipAttachment, NeedAttachment, Download, FindRawObject,
       NextDocument, AttachmentsDone, FinishRun,
       RefuseRun, StorageNotReady, SourceFails, DatabaseFails,
       Escape, Crash, dbVars, fileVars

\* Rows and objects are never deleted.
LEMMA StoresGrow ==
    ASSUME NEW r \in Run, Step(r)
    PROVE  pubs \subseteq pubs' /\ rawObjects \subseteq rawObjects' /\ blobs \subseteq blobs'
<1>1. pubs \subseteq pubs'
  BY LineageFrame DEF EnsurePublication, LinkNothing, LinkPredecessor, MarkUnresolved, NextDocOf,
                      lineageVars
<1>2. rawObjects \subseteq rawObjects' /\ blobs \subseteq blobs'
  BY FileFrame DEF PutBlob, InsertRawObject, BindArtifact, AttachmentFails, dbVars, fileVars
<1>3. QED
  BY <1>1, <1>2

\* A step of one run is invisible in the local state of the others.
LEMMA OthersUntouched ==
    ASSUME TypeOK, NEW r \in Run, Step(r), NEW q \in Run \ {r}
    PROVE  /\ pc'[q] = pc[q] /\ feed'[q] = feed[q] /\ doc'[q] = doc[q]
           /\ att'[q] = att[q] /\ sha'[q] = sha[q]
<1> USE DEF TypeOK, Jump, Goto, dbVars, localVars
<1>1. CASE Start(r)
  BY <1>1 DEF Start, StartRun
<1>2. CASE Progress(r)
  BY <1>2 DEF Progress, EnsureReady, Discover, EnsurePublication, UpsertsDone, LinkNothing,
              LinkPredecessor, PredecessorMissing, MarkUnresolved, NextDocOf, LinksDone,
              SkipAttachment, NeedAttachment, Download, FindRawObject, PutBlob, InsertRawObject,
              BindArtifact, AttachmentEnds, NextDocument, AttachmentsDone, FinishRun
<1>3. CASE Fault(r)
  BY <1>3 DEF Fault, RefuseRun, StorageNotReady, SourceFails, DatabaseFails, AttachmentFails,
              AttachmentEnds, Escape, Crash
<1>4. QED
  BY <1>1, <1>2, <1>3 DEF Step

-----------------------------------------------------------------------------
(* Lineage.                                                                *)

\* The election of a link transaction finds a stored row.
LEMMA LinkKeepsStored ==
    ASSUME IInv, NEW r \in Run, LinkPredecessor(r)
    PROVE  latest' \subseteq pubs
<1> DEFINE child == Current(r).id
           pred == Current(r).supersedes
           root == Root(parent, pred)
           leaf == LatestLeaf(parent', root)
<1>1. /\ child \in pubs /\ pred \in pubs /\ pubs \subseteq Pub
      /\ parent' = Linked(parent, child, pred)
      /\ latest' = LatestAfterLink(parent, latest, child, pred)
      /\ parent'[child] = pred /\ Declares(child, pred)
      /\ \A p \in Pub \ {child} : parent'[p] = parent[p]
      /\ parent' \in ParentMap
  BY LinkStep
<1>2. /\ latest \subseteq pubs /\ parent \in ParentMap
      /\ \A p \in Pub : parent[p] # NoPub =>
            p \in pubs /\ parent[p] \in pubs /\ Declares(p, parent[p])
  BY DEF IInv, LinksInv, TypeOK
<1> HIDE DEF child, pred
<1>3. Acyclic(parent)
  BY <1>2, DeclaredAcyclic
<1>4. \A p \in Pub : parent'[p] # NoPub => p \in pubs /\ Declares(p, parent'[p])
  BY <1>1, <1>2
<1>5. Acyclic(parent')
  BY <1>1, <1>4, DeclaredAcyclic
<1>6. root \in Pub /\ pred \in Subtree(parent, root)
  BY <1>1, <1>2, <1>3, RootExists
<1>7. root \in pubs
  <2> SUFFICES ASSUME root \notin pubs
               PROVE  FALSE
    OBVIOUS
  <2>1. ClosedUnderChildren(parent, {root})
    BY <1>2, <1>6, LineageAssumption DEF ClosedUnderChildren
  <2>2. pred = root
    BY <1>6, <2>1, SubtreeLeast
  <2>3. QED
    BY <1>1, <2>2
<1>8. Subtree(parent', root) \subseteq pubs
  <2>1. ClosedUnderChildren(parent', pubs)
    BY <1>1, <1>4, LineageAssumption DEF ClosedUnderChildren
  <2>2. QED
    BY <1>1, <1>6, <1>7, <2>1, SubtreeLeast
<1>9. leaf \in pubs
  BY <1>5, <1>6, <1>8, LatestLeafExists DEF Leaves
<1>10. latest' = (latest \ Cleared(parent, child, pred)) \cup {leaf}
  BY <1>1 DEF LatestAfterLink
<1>11. QED
  BY <1>2, <1>9, <1>10

LEMMA LinksStep ==
    ASSUME IInv, NEW r \in Run, Step(r)
    PROVE  LinksInv'
<1>1. TypeOK /\ LinksInv
  BY DEF IInv
<1>2. CASE EnsurePublication(r)
  BY <1>1, <1>2 DEF EnsurePublication, LinksInv
<1>3. CASE LinkNothing(r)
  BY <1>1, <1>3 DEF LinkNothing, MarkNeedsReview, NextDocOf, LinksInv
<1>4. CASE LinkPredecessor(r)
  <2>1. /\ latest' \subseteq pubs
        /\ pubs' = pubs
    BY <1>4, LinkKeepsStored DEF LinkPredecessor, NextDocOf
  <2>2. \A p \in Pub : parent'[p] # NoPub =>
            p \in pubs /\ parent'[p] \in pubs /\ Declares(p, parent'[p])
    <3> DEFINE child == Current(r).id
               pred == Current(r).supersedes
    <3>1. /\ child \in pubs /\ pred \in pubs
          /\ parent'[child] = pred /\ Declares(child, pred)
          /\ \A p \in Pub \ {child} : parent'[p] = parent[p]
      BY <1>4, LinkStep
    <3> HIDE DEF child, pred
    <3>2. QED
      BY <1>1, <3>1 DEF LinksInv
  <2>3. QED
    BY <2>1, <2>2 DEF LinksInv, Declares
<1>5. CASE MarkUnresolved(r)
  BY <1>1, <1>5 DEF MarkUnresolved, MarkNeedsReview, NextDocOf, LinksInv
<1>6. CASE UNCHANGED lineageVars
  BY <1>1, <1>6 DEF lineageVars, LinksInv
<1>7. QED
  BY <1>2, <1>3, <1>4, <1>5, <1>6, LineageFrame

LEMMA OneLatestStep ==
    ASSUME IInv, NEW r \in Run, Step(r)
    PROVE  OneLatestPerLineage'
<1>1. /\ TypeOK /\ LinksInv /\ OneLatest(parent, latest)
      /\ parent \in ParentMap /\ latest \in SUBSET Pub
  BY DEF IInv, OneLatestPerLineage, TypeOK
<1> SUFFICES OneLatest(parent', latest')
  BY DEF OneLatestPerLineage, OneLatest, Subtree, ClosedUnderChildren
<1>2. ASSUME parent' = parent, latest' \subseteq latest
      PROVE  OneLatest(parent', latest')
  BY <1>1, <1>2 DEF OneLatest
<1>3. CASE EnsurePublication(r)
  <2> DEFINE id == Current(r).id
  <2>1. id \in Pub
    BY <1>1, <1>3, CurrentDoc DEF EnsurePublication, Doc
  <2>2. parent' = parent /\ (latest' = latest \/ (id \notin pubs /\ latest' = latest \cup {id}))
    BY <1>3 DEF EnsurePublication
  <2>3. id \notin pubs => parent[id] = NoPub /\ \A q \in Pub : parent[q] # id
    BY <1>1, <2>1, LineageAssumption DEF LinksInv
  <2> HIDE DEF id
  <2>4. id \notin pubs => OneLatest(parent, latest \cup {id})
    BY <1>1, <2>1, <2>3, InsertKeepsOneLatest
  <2>5. QED
    BY <1>1, <2>2, <2>4
<1>4. CASE LinkNothing(r)
  BY <1>2, <1>4 DEF LinkNothing, MarkNeedsReview
<1>5. CASE LinkPredecessor(r)
  BY <1>5, LinkStep
<1>6. CASE MarkUnresolved(r)
  BY <1>2, <1>6 DEF MarkUnresolved, MarkNeedsReview
<1>7. CASE UNCHANGED lineageVars
  BY <1>2, <1>7 DEF lineageVars
<1>8. QED
  BY <1>3, <1>4, <1>5, <1>6, <1>7, LineageFrame

-----------------------------------------------------------------------------
(* Files.                                                                  *)

LEMMA ResolveStep ==
    ASSUME IInv, NEW r \in Run, Step(r)
    PROVE  ArtifactsResolve'
<1>1. TypeOK /\ ArtifactsResolve /\ RunInv(r)
  BY DEF IInv
<1>2. pubs \subseteq pubs'
  BY StoresGrow
<1>3. CASE PutBlob(r)
  BY <1>1, <1>3 DEF PutBlob, dbVars, ArtifactsResolve
<1>4. CASE InsertRawObject(r)
  BY <1>1, <1>2, <1>4 DEF InsertRawObject, Jump, RunInv, ArtifactsResolve
<1>5. CASE BindArtifact(r)
  <2>1. pc[r] = "bind" /\ MoreAtts(r) /\ sha[r] \in rawObjects
    BY <1>1, <1>5 DEF BindArtifact, RunInv, Attaching
  <2>2. Current(r).id \in pubs
    BY <1>1, <2>1, CurrentDoc DEF MoreAtts, RunInv, Attaching
  <2>3. \A p \in Pub, a \in Att :
            artifact'[<<p, a>>] \in {artifact[<<p, a>>]}
                \cup {IF <<p, a>> = <<Current(r).id, CurrentAtt(r)>> THEN sha[r] ELSE NoSha}
    BY <1>1, <1>5 DEF BindArtifact, TypeOK
  <2>4. \A p \in Pub, a \in Att :
            artifact'[<<p, a>>] # NoSha => p \in pubs /\ artifact'[<<p, a>>] \in rawObjects
    BY <1>1, <2>1, <2>2, <2>3 DEF ArtifactsResolve
  <2>5. rawObjects' = rawObjects /\ blobs' = blobs
    BY <1>5 DEF BindArtifact
  <2>6. QED
    BY <1>1, <1>2, <2>4, <2>5 DEF ArtifactsResolve
<1>6. ASSUME NEW stored \in BOOLEAN, AttachmentFails(r, stored)
      PROVE  ArtifactsResolve'
  BY <1>1, <1>2, <1>6 DEF AttachmentFails, ArtifactsResolve
<1>7. CASE UNCHANGED fileVars
  BY <1>1, <1>2, <1>7 DEF fileVars, ArtifactsResolve
<1>8. QED
  BY <1>3, <1>4, <1>5, <1>6, <1>7, FileFrame

-----------------------------------------------------------------------------
(* The progress of a run.                                                  *)

LEMMA RunInvOthers ==
    ASSUME IInv, NEW r \in Run, Step(r), NEW q \in Run \ {r}
    PROVE  RunInv(q)'
<1>1. RunInv(q)
  BY DEF IInv
<1>2. /\ pc'[q] = pc[q] /\ feed'[q] = feed[q] /\ doc'[q] = doc[q]
      /\ att'[q] = att[q] /\ sha'[q] = sha[q]
  BY OthersUntouched DEF IInv
<1>3. pubs \subseteq pubs' /\ rawObjects \subseteq rawObjects' /\ blobs \subseteq blobs'
  BY StoresGrow
<1>4. QED
  BY <1>1, <1>2, <1>3 DEF RunInv, Batch, MoreDocs, MoreAtts, Current

LEMMA RunInvSelf ==
    ASSUME IInv, NEW r \in Run, Step(r)
    PROVE  RunInv(r)'
<1> USE DEF RunInv, Jump, Goto, Attaching, dbVars, localVars, Batch, MoreDocs, MoreAtts, Current
<1>1. TypeOK /\ RunInv(r)
  BY DEF IInv
<1>2. pubs \subseteq pubs' /\ rawObjects \subseteq rawObjects' /\ blobs \subseteq blobs'
  BY StoresGrow
<1>3. /\ pc \in [Run -> Phases] /\ feed \in [Run -> Seq(Doc)]
      /\ doc \in [Run -> Nat \ {0}] /\ att \in [Run -> Nat \ {0}]
      /\ sha \in [Run -> Sha \cup {NoSha}]
  BY <1>1 DEF TypeOK
<1>4. CASE Start(r)
  BY <1>1, <1>2, <1>3, <1>4 DEF Start, StartRun
<1>5. CASE Fault(r)
  <2>1. CASE RefuseRun(r) \/ Escape(r) \/ Crash(r)
    BY <1>1, <1>2, <1>3, <2>1 DEF RefuseRun, Escape, Crash
  <2>2. CASE StorageNotReady(r) \/ SourceFails(r) \/ DatabaseFails(r)
    BY <1>1, <1>2, <1>3, <2>2 DEF StorageNotReady, SourceFails, DatabaseFails
  <2>3. ASSUME NEW stored \in BOOLEAN, AttachmentFails(r, stored)
        PROVE  RunInv(r)'
    BY <1>1, <1>2, <1>3, <2>3 DEF AttachmentFails, AttachmentEnds
  <2>4. QED
    BY <1>5, <2>1, <2>2, <2>3 DEF Fault
<1>6. CASE Progress(r)
  <2>1. CASE EnsureReady(r)
    BY <1>1, <1>2, <1>3, <2>1 DEF EnsureReady
  <2>2. ASSUME NEW f \in Feeds, Discover(r, f)
        PROVE  RunInv(r)'
    <3>1. f \in Seq(Doc)
      BY IngestionAssumption
    <3>2. \A i \in DOMAIN f : ~ (i < 1)
      BY <3>1
    <3>3. pc'[r] = "upsert" /\ feed'[r] = f /\ doc'[r] = 1
      BY <1>1, <1>3, <2>2 DEF Discover
    <3>4. QED
      BY <3>2, <3>3
  <2>3. CASE EnsurePublication(r)
    BY <1>1, <1>2, <1>3, <2>3 DEF EnsurePublication
  <2>4. CASE UpsertsDone(r)
    BY <1>1, <1>2, <1>3, <2>4 DEF UpsertsDone
  <2>5. CASE LinkNothing(r) \/ LinkPredecessor(r)
    BY <1>1, <1>2, <1>3, <2>5 DEF LinkNothing, LinkPredecessor, NextDocOf
  <2>6. CASE PredecessorMissing(r) \/ MarkUnresolved(r)
    BY <1>1, <1>2, <1>3, <2>6 DEF PredecessorMissing, MarkUnresolved, NextDocOf
  <2>7. CASE LinksDone(r)
    BY <1>1, <1>2, <1>3, <2>7 DEF LinksDone
  <2>8. CASE SkipAttachment(r) \/ BindArtifact(r)
    <3>1. /\ pc[r] \in Attaching /\ pc'[r] = "check"
          /\ feed' = feed /\ pubs' = pubs
      BY <1>3, <2>8 DEF SkipAttachment, BindArtifact, AttachmentEnds, lineageVars
    <3>2. QED
      BY <1>1, <3>1
  <2>9. CASE NeedAttachment(r)
    BY <1>1, <1>2, <1>3, <2>9 DEF NeedAttachment
  <2>10. ASSUME NEW s \in Sha, Download(r, s)
         PROVE  RunInv(r)'
    BY <1>1, <1>2, <1>3, <2>10 DEF Download
  <2>11. CASE FindRawObject(r)
    BY <1>1, <1>2, <1>3, <2>11 DEF FindRawObject
  <2>12. CASE PutBlob(r)
    BY <1>1, <1>2, <1>3, <2>12 DEF PutBlob
  <2>13. CASE InsertRawObject(r)
    BY <1>1, <1>2, <1>3, <2>13 DEF InsertRawObject
  <2>14. CASE NextDocument(r) \/ AttachmentsDone(r)
    BY <1>1, <1>2, <1>3, <2>14 DEF NextDocument, AttachmentsDone
  <2>15. CASE FinishRun(r)
    BY <1>1, <1>2, <1>3, <2>15 DEF FinishRun
  <2>16. QED
    BY <1>6, <2>1, <2>2, <2>3, <2>4, <2>5, <2>6, <2>7, <2>8, <2>9, <2>10, <2>11, <2>12,
       <2>13, <2>14, <2>15 DEF Progress
<1>7. QED
  BY <1>4, <1>5, <1>6 DEF Step

-----------------------------------------------------------------------------
(* The theorems.                                                           *)

LEMMA InitIInv == Init => IInv
<1> SUFFICES ASSUME Init
             PROVE  IInv
  OBVIOUS
<1>1. TypeOK
  BY DEF Init, TypeOK, ParentMap, RunRow, NoRow, Tally, NoTally, Phases, Terminal
<1>2. \A r \in Run : RunInv(r)
  BY DEF Init, RunInv, Attaching
<1>3. ArtifactsResolve /\ LinksInv /\ OneLatestPerLineage
  BY DEF Init, ArtifactsResolve, LinksInv, OneLatestPerLineage, OneLatest
<1>4. QED
  BY <1>1, <1>2, <1>3 DEF IInv

LEMMA NextIInv == IInv /\ [Next]_vars => IInv'
<1> SUFFICES ASSUME IInv, [Next]_vars
             PROVE  IInv'
  OBVIOUS
<1>1. TypeOK'
  BY TypeStep
<1>2. CASE UNCHANGED vars
  BY <1>1, <1>2 DEF IInv, RunInv, ArtifactsResolve, LinksInv, OneLatestPerLineage, OneLatest,
                    Batch, MoreDocs, MoreAtts, Current, vars, dbVars, localVars
<1>3. ASSUME NEW r \in Run, Step(r)
      PROVE  IInv'
  <2>1. \A q \in Run : RunInv(q)'
    BY <1>3, RunInvSelf, RunInvOthers
  <2>2. ArtifactsResolve' /\ LinksInv' /\ OneLatestPerLineage'
    BY <1>3, ResolveStep, LinksStep, OneLatestStep
  <2>3. QED
    BY <1>1, <2>1, <2>2 DEF IInv
<1>4. QED
  BY <1>2, <1>3 DEF Next, AllStopped, Step

\* The strengthening is an invariant of every behaviour of ingestion.
THEOREM Inductive == Spec => []IInv
BY InitIInv, NextIInv, PTL DEF Spec

\* Every variable keeps its type; in particular each link and each election works on rows
\* that exist.
THEOREM TypeCorrect == Spec => []TypeOK
<1>1. IInv => TypeOK
  BY DEF IInv
<1>2. QED
  BY <1>1, Inductive, PTL

\* However runs interleave, fail or die, and whatever versions the source declares, no
\* linked lineage ever has two latest versions.
THEOREM AtMostOneLatest == Spec => []OneLatestPerLineage
<1>1. IInv => OneLatestPerLineage
  BY DEF IInv
<1>2. QED
  BY <1>1, Inductive, PTL

\* Every artifact row leads to stored bytes in every reachable state.
THEOREM ArtifactsAlwaysResolve == Spec => []ArtifactsResolve
<1>1. IInv => ArtifactsResolve
  BY DEF IInv
<1>2. QED
  BY <1>1, Inductive, PTL

\* No step rebinds an artifact to other bytes.
THEOREM ArtifactsNeverRebound == Spec => ArtifactsImmutable
<1> DEFINE Kept == \A x \in Pub \X Att : artifact[x] # NoSha => artifact'[x] = artifact[x]
<1>1. ASSUME IInv, [Next]_vars
      PROVE  [Kept]_vars
  <2>1. CASE UNCHANGED vars
    BY <2>1
  <2>2. ASSUME NEW r \in Run, Step(r)
        PROVE  Kept
    <3>1. artifact \in [Pub \X Att -> Sha \cup {NoSha}]
      BY <1>1 DEF IInv, TypeOK
    <3>2. artifact' = artifact \/ BindArtifact(r)
      BY <2>2, FileFrame DEF PutBlob, InsertRawObject, AttachmentFails, dbVars, fileVars
    <3>3. QED
      BY <3>1, <3>2 DEF BindArtifact
  <2>3. QED
    BY <1>1, <2>1, <2>2 DEF Next, AllStopped, Step
<1>2. QED
  BY <1>1, Inductive, PTL DEF Spec, ArtifactsImmutable
-----------------------------------------------------------------------------
(* Unresolved versions.                                                    *)

\* The leaf a link elects is not the root of its lineage, for the child is below it.
LEMMA ElectedIsLinked ==
    ASSUME NEW par \in ParentMap, NEW child \in Pub, NEW pred \in Pub,
           Acyclic(par), Acyclic(Linked(par, child, pred))
    PROVE  LET new == Linked(par, child, pred)
               leaf == LatestLeaf(new, Root(par, pred))
           IN leaf \in Pub /\ new[leaf] # NoPub
<1> DEFINE new == Linked(par, child, pred)
           root == Root(par, pred)
           leaf == LatestLeaf(new, root)
<1>1. root \in Pub
  BY RootExists
<1>2. leaf \in Leaves(new, root)
  BY <1>1, LatestLeafExists
<1>3. leaf \in Subtree(new, root) /\ \A c \in Pub : new[c] # leaf
  BY <1>2 DEF Leaves
<1>4. leaf \in Pub
  BY <1>3 DEF Subtree
<1>5. new \in ParentMap /\ new[child] = pred /\ \A p \in Pub \ {child} : new[p] = par[p]
  BY DEF Linked, ParentMap
<1>6. ASSUME new[leaf] = NoPub
      PROVE  FALSE
  <2>1. leaf = root
    <3> SUFFICES ASSUME leaf # root
                 PROVE  FALSE
      OBVIOUS
    <3>1. new[leaf] \in Subtree(new, root)
      BY <1>1, <1>3, <1>5, SubtreeStep
    <3>2. QED
      BY <1>6, <3>1, LineageAssumption DEF Subtree
  <2>2. pred = root
    <3> SUFFICES ASSUME pred # root
                 PROVE  FALSE
      OBVIOUS
    <3> DEFINE S == {root} \cup Subtree(par, child)
    <3>1. S \in SUBSET Pub /\ root \in S
      BY <1>1 DEF Subtree
    <3>2. ClosedUnderChildren(par, S)
      BY <1>3, <1>5, <2>1, SubtreeClosed DEF ClosedUnderChildren
    <3>3. Subtree(par, root) \subseteq S
      BY <1>1, <3>1, <3>2, SubtreeLeast
    <3>4. pred \in Subtree(par, child)
      BY <3>3, RootExists
    <3>5. \A p \in Subtree(par, child) : new[p] \in Subtree(par, child)
      BY <1>5, <3>4, SubtreeStep DEF Subtree
    <3>6. Subtree(par, child) \in SUBSET Pub /\ Subtree(par, child) # {}
      BY SubtreeClosed DEF Subtree
    <3>7. QED
      BY <3>5, <3>6 DEF Acyclic
  <2>3. QED
    BY <1>3, <1>5, <2>1, <2>2
<1>7. QED
  BY <1>4, <1>6

LEMMA UnresolvedStep ==
    ASSUME IInv, UnresolvedNeverLatest, NEW r \in Run, Step(r)
    PROVE  UnresolvedNeverLatest'
<1>1. /\ TypeOK /\ LinksInv /\ RunInv(r)
      /\ parent \in ParentMap /\ latest \subseteq Pub /\ pubs \subseteq Pub
  BY DEF IInv, TypeOK
<1>2. ASSUME NEW p \in Pub, Unresolved(p)', parent'[p] = NoPub => parent[p] = NoPub
      PROVE  Unresolved(p)
  BY <1>2 DEF Unresolved
<1>3. ASSUME parent' = parent, latest' \subseteq latest
      PROVE  UnresolvedNeverLatest'
  BY <1>1, <1>3 DEF UnresolvedNeverLatest, Unresolved, LinksInv
<1>4. CASE EnsurePublication(r)
  <2>1. /\ parent' = parent /\ pubs' = pubs \cup {Current(r).id}
        /\ latest' \subseteq latest \/ (LatestOnInsert(Current(r))
                                      /\ latest' = latest \cup {Current(r).id})
    BY <1>4 DEF EnsurePublication
  <2>2. doc[r] \in DOMAIN feed[r] /\ feed[r] \in Feeds
    BY <1>1, <1>4, CurrentDoc DEF EnsurePublication, RunInv
  <2>3. LatestOnInsert(Current(r)) => ~ Unresolved(Current(r).id)
    BY <2>2 DEF LatestOnInsert, NeedsReview, Unresolved, Current
  <2>4. CASE latest' \subseteq latest
    BY <1>3, <2>1, <2>4
  <2>5. CASE LatestOnInsert(Current(r)) /\ latest' = latest \cup {Current(r).id}
    BY <1>1, <2>1, <2>3, <2>5 DEF UnresolvedNeverLatest, Unresolved, LinksInv
  <2>6. QED
    BY <2>1, <2>4, <2>5
<1>5. CASE LinkPredecessor(r)
  <2> DEFINE child == Current(r).id
             pred == Current(r).supersedes
             leaf == LatestLeaf(parent', Root(parent, pred))
  <2>1. /\ child \in pubs /\ pred \in pubs
        /\ parent' = Linked(parent, child, pred)
        /\ latest' = LatestAfterLink(parent, latest, child, pred)
        /\ parent'[child] = pred /\ \A p \in Pub \ {child} : parent'[p] = parent[p]
        /\ parent' \in ParentMap
    BY <1>5, LinkStep
  <2>2. LinksInv'
    BY <1>5, LinksStep DEF Step, Progress
  <2>3. Acyclic(parent) /\ Acyclic(parent')
    BY <1>1, <2>1, <2>2, DeclaredAcyclic DEF LinksInv
  <2>4. leaf \in Pub /\ parent'[leaf] # NoPub
    BY <1>1, <2>1, <2>3, ElectedIsLinked
  <2>5. latest' \subseteq latest \cup {leaf}
    BY <2>1 DEF LatestAfterLink
  <2>6. \A p \in Pub : parent'[p] = NoPub => parent[p] = NoPub
    BY <1>1, <2>1, LineageAssumption
  <2>7. pubs' = pubs
    BY <1>5 DEF LinkPredecessor, NextDocOf
  <2> HIDE DEF leaf, child, pred
  <2>8. QED
    BY <1>1, <1>2, <2>4, <2>5, <2>6, <2>7 DEF UnresolvedNeverLatest, Unresolved
<1>6. CASE LinkNothing(r) \/ MarkUnresolved(r)
  BY <1>3, <1>6 DEF LinkNothing, MarkUnresolved, MarkNeedsReview
<1>7. CASE UNCHANGED lineageVars
  BY <1>3, <1>7 DEF lineageVars
<1>8. QED
  BY <1>4, <1>5, <1>6, <1>7, LineageFrame

\* At no point of any run is a successor or a correction that is linked to no predecessor
\* the latest version of anything: not at its upsert, nor by the election of another link.
THEOREM UnresolvedStaysBack == Spec => []UnresolvedNeverLatest
<1>1. Init => UnresolvedNeverLatest
  BY DEF Init, UnresolvedNeverLatest
<1>2. ASSUME IInv, UnresolvedNeverLatest, [Next]_vars
      PROVE  UnresolvedNeverLatest'
  <2>1. CASE UNCHANGED vars
    BY <1>2, <2>1 DEF UnresolvedNeverLatest, Unresolved, vars, dbVars
  <2>2. ASSUME NEW r \in Run, Step(r)
        PROVE  UnresolvedNeverLatest'
    BY <1>2, <2>2, UnresolvedStep
  <2>3. QED
    BY <1>2, <2>1, <2>2 DEF Next, AllStopped, Step
<1>3. QED
  BY <1>1, <1>2, Inductive, PTL DEF Spec
-----------------------------------------------------------------------------
(* Files of a completed run.                                               *)

Bound(r, i, k) == artifact[<<feed[r][i].id, feed[r][i].atts[k]>>] # NoSha

\* Every attachment of the list; of the list up to the attachment at hand.
AllBound(r) == \A i \in DOMAIN feed[r] : \A k \in DOMAIN feed[r][i].atts : Bound(r, i, k)
BoundSoFar(r) ==
    \A i \in DOMAIN feed[r] : \A k \in DOMAIN feed[r][i].atts :
        i < doc[r] \/ (i = doc[r] /\ k < att[r]) => Bound(r, i, k)

Unattached == {"idle", "ready", "discover", "upsert", "link", "unresolved"}

\* While nothing failed, what the loop has passed is bound; so is everything once the run
\* is found COMPLETED, and no list is replaced after that.
StoredInv(r) ==
    /\ pc[r] \in Unattached => att[r] = 1
    /\ pc[r] \in Attaching /\ ~ dry[r] /\ tally[r].failed = 0 => BoundSoFar(r)
    /\ pc[r] = "finish" /\ verdict[r] = "COMPLETED" /\ ~ dry[r] => AllBound(r)
    /\ Completed(r) => pc[r] \in {"done", "raised"} /\ (~ dry[r] => AllBound(r))

LEMMA ArtifactsKept ==
    ASSUME TypeOK, NEW r \in Run, Step(r)
    PROVE  \A x \in Pub \X Att : artifact[x] # NoSha => artifact'[x] = artifact[x]
<1>1. artifact \in [Pub \X Att -> Sha \cup {NoSha}]
  BY DEF TypeOK
<1>2. artifact' = artifact \/ BindArtifact(r)
  BY FileFrame DEF PutBlob, InsertRawObject, AttachmentFails, dbVars, fileVars
<1>3. QED
  BY <1>1, <1>2 DEF BindArtifact

LEMMA AttachmentOf ==
    ASSUME TypeOK, NEW r \in Run, NEW i \in DOMAIN feed[r], NEW k \in DOMAIN feed[r][i].atts
    PROVE  /\ i \in Nat \ {0} /\ i <= Len(feed[r]) /\ feed[r][i] \in Doc
           /\ k \in Nat \ {0} /\ k <= Len(feed[r][i].atts)
           /\ <<feed[r][i].id, feed[r][i].atts[k]>> \in Pub \X Att
<1>1. feed[r] \in Seq(Doc) /\ feed[r][i] \in Doc
  BY DEF TypeOK
<1>2. feed[r][i].id \in Pub /\ feed[r][i].atts \in Seq(Att)
  BY <1>1 DEF Doc
<1>3. QED
  BY <1>1, <1>2

\* What is bound stays bound while the list stays.
LEMMA BoundKept ==
    ASSUME TypeOK, NEW r \in Run, Step(r), NEW q \in Run, feed'[q] = feed[q]
    PROVE  /\ \A i \in DOMAIN feed[q] : \A k \in DOMAIN feed[q][i].atts :
                 Bound(q, i, k) => Bound(q, i, k)'
           /\ AllBound(q) => AllBound(q)'
           /\ BoundSoFar(q) /\ doc'[q] = doc[q] /\ att'[q] = att[q] => BoundSoFar(q)'
<1>1. \A i \in DOMAIN feed[q] : \A k \in DOMAIN feed[q][i].atts :
          Bound(q, i, k) => Bound(q, i, k)'
  BY ArtifactsKept, AttachmentOf DEF Bound
<1>2. QED
  BY <1>1 DEF AllBound, BoundSoFar

LEMMA OthersRecorded ==
    ASSUME TypeOK, NEW r \in Run, Step(r), NEW q \in Run \ {r}
    PROVE  /\ dry'[q] = dry[q] /\ tally'[q] = tally[q] /\ verdict'[q] = verdict[q]
           /\ runRow'[q] = runRow[q]
<1> USE DEF TypeOK, Jump, Goto, dbVars, localVars
<1>1. CASE Start(r)
  BY <1>1 DEF Start, StartRun
<1>2. CASE Progress(r)
  BY <1>2 DEF Progress, EnsureReady, Discover, EnsurePublication, UpsertsDone, LinkNothing,
              LinkPredecessor, PredecessorMissing, MarkUnresolved, NextDocOf, LinksDone,
              SkipAttachment, NeedAttachment, Download, FindRawObject, PutBlob,
              InsertRawObject, BindArtifact, AttachmentEnds, Count, NextDocument,
              AttachmentsDone, FinishRun
<1>3. CASE Fault(r)
  BY <1>3 DEF Fault, RefuseRun, StorageNotReady, SourceFails, DatabaseFails, AttachmentFails,
              AttachmentEnds, Count, Escape, Crash
<1>4. QED
  BY <1>1, <1>2, <1>3 DEF Step

LEMMA StoredInvOthers ==
    ASSUME TypeOK, NEW r \in Run, Step(r), NEW q \in Run \ {r}, StoredInv(q)
    PROVE  StoredInv(q)'
<1>1. /\ pc'[q] = pc[q] /\ feed'[q] = feed[q] /\ doc'[q] = doc[q] /\ att'[q] = att[q]
      /\ dry'[q] = dry[q] /\ tally'[q] = tally[q] /\ verdict'[q] = verdict[q]
      /\ runRow'[q] = runRow[q]
  BY OthersUntouched, OthersRecorded
<1>2. QED
  BY <1>1, BoundKept DEF StoredInv, Completed

LEMMA StoredInvSelf ==
    ASSUME IInv, NEW r \in Run, Step(r), StoredInv(r)
    PROVE  StoredInv(r)'
<1> USE DEF StoredInv, Completed, Jump, Goto, Attaching, Unattached, dbVars, localVars
<1>1. TypeOK /\ RunInv(r) /\ NoSha \notin Sha
  BY IngestionAssumption DEF IInv
<1>2. /\ pc \in [Run -> Phases] /\ feed \in [Run -> Seq(Doc)] /\ dry \in [Run -> BOOLEAN]
      /\ doc \in [Run -> Nat \ {0}] /\ att \in [Run -> Nat \ {0}]
      /\ tally \in [Run -> Tally] /\ verdict \in [Run -> Terminal]
      /\ runRow \in [Run -> RunRow] /\ artifact \in [Pub \X Att -> Sha \cup {NoSha}]
  BY <1>1 DEF TypeOK
<1>range. \A i \in DOMAIN feed[r] : \A k \in DOMAIN feed[r][i].atts :
          /\ i \in Nat \ {0} /\ i <= Len(feed[r])
          /\ k \in Nat \ {0} /\ k <= Len(feed[r][i].atts)
  BY <1>1, AttachmentOf
<1>place. doc[r] \in Nat \ {0} /\ att[r] \in Nat \ {0}
  BY <1>2
<1>3. CASE Start(r)
  BY <1>2, <1>3 DEF Start, StartRun, NoRow
<1>4. CASE EnsureReady(r) \/ (\E f \in Feeds : Discover(r, f)) \/ EnsurePublication(r)
              \/ UpsertsDone(r) \/ LinkNothing(r) \/ LinkPredecessor(r)
              \/ PredecessorMissing(r) \/ MarkUnresolved(r)
  BY <1>2, <1>4 DEF EnsureReady, Discover, EnsurePublication, UpsertsDone, LinkNothing,
                    LinkPredecessor, PredecessorMissing, MarkUnresolved, NextDocOf
<1>5. CASE LinksDone(r)
  <2>1. /\ pc[r] = "link" /\ pc'[r] = "check" /\ doc'[r] = 1 /\ att'[r] = 1
        /\ feed' = feed /\ runRow' = runRow
    BY <1>2, <1>5 DEF LinksDone
  <2>2. BoundSoFar(r)'
    <3> SUFFICES ASSUME NEW i \in DOMAIN feed[r], NEW k \in DOMAIN feed[r][i].atts
                 PROVE  ~ (i < 1 \/ (i = 1 /\ k < 1))
      BY <2>1 DEF BoundSoFar
    <3>1. QED
      BY <1>range
  <2>3. QED
    BY <2>1, <2>2
<1>6. CASE SkipAttachment(r)
  <2>1. /\ pc[r] = "check" /\ pc'[r] = "check" /\ MoreAtts(r)
        /\ dry[r] \/ ArtifactOf(r) # NoSha
        /\ feed' = feed /\ doc' = doc /\ dry' = dry /\ runRow' = runRow
        /\ att'[r] = att[r] + 1 /\ artifact' = artifact
        /\ tally'[r].failed = tally[r].failed
    BY <1>2, <1>6 DEF SkipAttachment, AttachmentEnds, Count, Tally, fileVars
  <2>2. BoundSoFar(r) /\ ~ dry[r] => BoundSoFar(r)'
    <3> SUFFICES ASSUME BoundSoFar(r), ~ dry[r],
                        NEW i \in DOMAIN feed[r], NEW k \in DOMAIN feed[r][i].atts,
                        i < doc[r] \/ (i = doc[r] /\ k < att[r] + 1)
                 PROVE  Bound(r, i, k)
      BY <2>1 DEF BoundSoFar, Bound
    <3>1. CASE i = doc[r] /\ k = att[r]
      BY <2>1, <3>1 DEF Bound, ArtifactOf, Current, CurrentAtt
    <3>2. CASE i < doc[r] \/ (i = doc[r] /\ k < att[r])
      BY <3>2 DEF BoundSoFar
    <3>3. QED
      BY <1>range, <1>place, <3>1, <3>2
  <2>3. QED
    BY <2>1, <2>2
<1>7. CASE NeedAttachment(r) \/ (\E s \in Sha : Download(r, s)) \/ FindRawObject(r)
              \/ PutBlob(r) \/ InsertRawObject(r)
  <2>1. /\ pc[r] \in Attaching /\ pc'[r] \in Attaching
        /\ feed' = feed /\ doc' = doc /\ att' = att /\ dry' = dry /\ tally' = tally
        /\ runRow' = runRow
    BY <1>2, <1>7 DEF NeedAttachment, Download, FindRawObject, PutBlob, InsertRawObject,
                      lineageVars
  <2>2. QED
    BY <1>1, <2>1, BoundKept
<1>8. CASE BindArtifact(r)
  <2>1. /\ pc[r] = "bind" /\ pc'[r] = "check" /\ MoreAtts(r) /\ sha[r] \in Sha
        /\ feed' = feed /\ doc' = doc /\ dry' = dry /\ runRow' = runRow
        /\ att'[r] = att[r] + 1
        /\ artifact' = [artifact EXCEPT ![<<Current(r).id, CurrentAtt(r)>>] =
                           IF @ = NoSha THEN sha[r] ELSE @]
        /\ tally'[r].failed = tally[r].failed
    BY <1>1, <1>2, <1>8 DEF BindArtifact, AttachmentEnds, Count, Tally, RunInv
  <2>2. \A i \in DOMAIN feed[r] : \A k \in DOMAIN feed[r][i].atts :
            Bound(r, i, k) => Bound(r, i, k)'
    BY <1>1, <2>1, BoundKept
  <2>3. ASSUME NEW i \in DOMAIN feed[r], NEW k \in DOMAIN feed[r][i].atts,
               i = doc[r], k = att[r]
        PROVE  Bound(r, i, k)'
    <3>1. <<Current(r).id, CurrentAtt(r)>> = <<feed[r][i].id, feed[r][i].atts[k]>>
      BY <2>3 DEF Current, CurrentAtt
    <3>2. <<feed[r][i].id, feed[r][i].atts[k]>> \in Pub \X Att
      BY <1>1, AttachmentOf
    <3>3. QED
      BY <1>1, <1>2, <2>1, <3>1, <3>2 DEF Bound
  <2>4. BoundSoFar(r) => BoundSoFar(r)'
    <3> SUFFICES ASSUME BoundSoFar(r),
                        NEW i \in DOMAIN feed[r], NEW k \in DOMAIN feed[r][i].atts,
                        i < doc[r] \/ (i = doc[r] /\ k < att[r] + 1)
                 PROVE  Bound(r, i, k)'
      BY <2>1 DEF BoundSoFar
    <3>1. CASE i < doc[r] \/ (i = doc[r] /\ k < att[r])
      BY <2>2, <3>1 DEF BoundSoFar
    <3>2. QED
      BY <1>range, <1>place, <2>3, <3>1
  <2>5. QED
    BY <2>1, <2>4
<1>9. CASE \E stored \in BOOLEAN : AttachmentFails(r, stored)
  <2>1. /\ pc[r] \in Attaching /\ pc'[r] = "check" /\ runRow' = runRow
        /\ tally'[r].failed = tally[r].failed + 1
    BY <1>2, <1>9 DEF AttachmentFails, AttachmentEnds, Count, Tally
  <2>2. tally[r].failed \in Nat
    BY <1>2 DEF Tally
  <2>3. QED
    BY <2>1, <2>2
<1>10. CASE NextDocument(r)
  <2>1. /\ pc[r] = "check" /\ pc' = pc /\ ~ MoreAtts(r) /\ MoreDocs(r)
        /\ feed' = feed /\ artifact' = artifact /\ dry' = dry /\ tally' = tally
        /\ runRow' = runRow /\ doc'[r] = doc[r] + 1 /\ att'[r] = 1
    BY <1>2, <1>10 DEF NextDocument
  <2>2. BoundSoFar(r) => BoundSoFar(r)'
    <3> SUFFICES ASSUME BoundSoFar(r),
                        NEW i \in DOMAIN feed[r], NEW k \in DOMAIN feed[r][i].atts,
                        i < doc[r] + 1 \/ (i = doc[r] + 1 /\ k < 1)
                 PROVE  Bound(r, i, k)
      BY <2>1 DEF BoundSoFar, Bound
    <3>1. i < doc[r] \/ i = doc[r]
      BY <1>range, <1>place
    <3>2. ASSUME i = doc[r]
          PROVE  k < att[r]
      BY <1>range, <1>place, <2>1, <3>2 DEF MoreAtts, Current
    <3>3. QED
      BY <3>1, <3>2 DEF BoundSoFar
  <2>3. QED
    BY <2>1, <2>2
<1>11. CASE AttachmentsDone(r)
  <2>1. /\ pc[r] = "check" /\ pc'[r] = "finish" /\ ~ MoreDocs(r)
        /\ feed' = feed /\ artifact' = artifact /\ dry' = dry /\ runRow' = runRow
        /\ verdict'[r] = Outcome(tally[r])
    BY <1>2, <1>11 DEF AttachmentsDone
  <2>2. verdict'[r] = "COMPLETED" => tally[r].failed = 0
    BY <1>2, <2>1 DEF Outcome, Tally
  <2>3. BoundSoFar(r) => AllBound(r)'
    <3> SUFFICES ASSUME BoundSoFar(r),
                        NEW i \in DOMAIN feed[r], NEW k \in DOMAIN feed[r][i].atts
                 PROVE  Bound(r, i, k)
      BY <2>1 DEF AllBound, Bound
    <3>1. i < doc[r]
      <4>1. Len(feed[r]) \in Nat
        BY <1>2
      <4>2. QED
        BY <1>range, <1>place, <2>1, <4>1 DEF MoreDocs
    <3>2. QED
      BY <3>1 DEF BoundSoFar
  <2>4. QED
    BY <2>1, <2>2, <2>3
<1>12. CASE FinishRun(r)
  <2>1. /\ pc[r] = "finish" /\ pc'[r] \in {"done", "raised"}
        /\ feed' = feed /\ artifact' = artifact /\ dry' = dry
        /\ runRow'[r].status = verdict[r]
    BY <1>2, <1>12 DEF FinishRun, fileVars
  <2>2. QED
    BY <2>1 DEF AllBound, Bound
<1>13. CASE RefuseRun(r) \/ StorageNotReady(r) \/ SourceFails(r) \/ DatabaseFails(r)
  BY <1>2, <1>13 DEF RefuseRun, StorageNotReady, SourceFails, DatabaseFails, Count
<1>14. CASE Escape(r) \/ Crash(r)
  BY <1>2, <1>14 DEF Escape, Crash, Stopped
<1>15. QED
  BY <1>3, <1>4, <1>5, <1>6, <1>7, <1>8, <1>9, <1>10, <1>11, <1>12, <1>13, <1>14
     DEF Step, Progress, Fault

\* A run recorded COMPLETED that was not a dry run has stored every file it discovered, or
\* found it stored, however runs race for the same files and whatever else they fail at.
THEOREM CompletedStored == Spec => []CompletedMeansStored
<1> DEFINE Inv == \A r \in Run : StoredInv(r)
<1>1. Init => Inv
  BY DEF Init, StoredInv, Attaching, Unattached, Completed, NoRow
<1>2. ASSUME IInv, Inv, [Next]_vars
      PROVE  Inv'
  <2>1. CASE UNCHANGED vars
    BY <1>2, <2>1 DEF StoredInv, Completed, AllBound, BoundSoFar, Bound, vars, dbVars, localVars
  <2>2. ASSUME NEW r \in Run, Step(r)
        PROVE  Inv'
    BY <1>2, <2>2, StoredInvSelf, StoredInvOthers DEF IInv
  <2>3. QED
    BY <1>2, <2>1, <2>2 DEF Next, AllStopped, Step
<1>3. IInv /\ Inv => CompletedMeansStored
  <2> SUFFICES ASSUME IInv, Inv, NEW r \in Run, Completed(r), ~ dry[r],
                      NEW i \in DOMAIN feed[r], NEW k \in DOMAIN feed[r][i].atts
               PROVE  artifact[<<feed[r][i].id, feed[r][i].atts[k]>>] \in blobs
    BY DEF CompletedMeansStored, Docs
  <2>1. AllBound(r) /\ TypeOK /\ ArtifactsResolve
    BY DEF StoredInv, IInv
  <2>2. <<feed[r][i].id, feed[r][i].atts[k]>> \in Pub \X Att
    BY <2>1, AttachmentOf
  <2>3. QED
    BY <2>1, <2>2 DEF AllBound, Bound, ArtifactsResolve
<1>4. QED
  BY <1>1, <1>2, <1>3, Inductive, PTL DEF Spec

-----------------------------------------------------------------------------
(* Counters of a finished run.                                             *)

Total(t) == t.downloaded + t.skipped + t.failed

\* The attachments the loop has passed.
Passed(r) == {x \in Attachments(feed[r]) : x[1] < doc[r] \/ (x[1] = doc[r] /\ x[2] < att[r])}

\* A status tells the truth about counters.
Told(r, status, t) ==
    LET all == Cardinality(Attachments(feed[r]))
    IN /\ status = "COMPLETED" => t.failed = 0 /\ Total(t) = all
       /\ status = "PARTIAL" => t.failed \in 1..(all - 1) /\ Total(t) = all
       /\ status = "FAILED" => t.downloaded + t.skipped = 0

\* In the loop each attachment passed has moved one counter, and no other step moves any
\* but the one failure that ends the upsert or link loop.
CountInv(r) ==
    /\ pc[r] \in Unattached => tally[r] = NoTally /\ att[r] = 1
    /\ pc[r] \in Attaching => Total(tally[r]) = Cardinality(Passed(r))
    /\ pc[r] = "finish" => Told(r, verdict[r], tally[r])
    /\ runRow[r].status \in Terminal => pc[r] \in {"done", "raised"}
    /\ Told(r, runRow[r].status, runRow[r].tally)

LEMMA DocOf ==
    ASSUME NEW docs \in Seq(Doc), NEW i \in DOMAIN docs
    PROVE  docs[i].id \in Pub /\ docs[i].atts \in Seq(Att)
<1>1. docs[i] \in Doc
  OBVIOUS
<1>2. QED
  BY <1>1 DEF Doc

LEMMA AttachmentsFinite ==
    ASSUME NEW docs \in Seq(Doc)
    PROVE  IsFiniteSet(Attachments(docs))
<1> DEFINE of == [i \in DOMAIN docs |-> {i} \X DOMAIN docs[i].atts]
           T == {{i} \X DOMAIN docs[i].atts : i \in DOMAIN docs}
<1>1. IsFiniteSet(DOMAIN docs)
  BY FS_Interval, 1 \in Int, Len(docs) \in Int, DOMAIN docs = 1..Len(docs)
<1>2. of \in Surjection(DOMAIN docs, T)
  BY DEF Surjection
<1>3. IsFiniteSet(T)
  BY <1>1, <1>2, FS_Surjection
<1>4. \A i \in DOMAIN docs : IsFiniteSet({i} \X DOMAIN docs[i].atts)
  <2> SUFFICES ASSUME NEW i \in DOMAIN docs
               PROVE  IsFiniteSet({i} \X DOMAIN docs[i].atts)
    OBVIOUS
  <2>1. docs[i].atts \in Seq(Att)
    BY DocOf
  <2>2. Len(docs[i].atts) \in Int /\ DOMAIN docs[i].atts = 1..Len(docs[i].atts)
    BY <2>1
  <2>3. IsFiniteSet(DOMAIN docs[i].atts)
    BY <2>2, FS_Interval, 1 \in Int
  <2>4. QED
    BY <2>3, FS_Singleton, FS_Product
<1>5. QED
  BY <1>3, <1>4, FS_UNION DEF Attachments

\* Attachments are pairs of positions in the list.
LEMMA AttachmentPair ==
    ASSUME NEW docs \in Seq(Doc), NEW i, NEW k
    PROVE  <<i, k>> \in Attachments(docs) <=> i \in DOMAIN docs /\ k \in DOMAIN docs[i].atts
BY DEF Attachments

LEMMA AttachmentIsPair ==
    ASSUME NEW docs \in Seq(Doc), NEW x \in Attachments(docs)
    PROVE  /\ x = <<x[1], x[2]>>
           /\ x[1] \in DOMAIN docs /\ x[2] \in DOMAIN docs[x[1]].atts
           /\ x[1] \in Nat \ {0} /\ x[1] <= Len(docs)
           /\ x[2] \in Nat \ {0} /\ x[2] <= Len(docs[x[1]].atts)
<1>1. PICK i \in DOMAIN docs : x \in {i} \X DOMAIN docs[i].atts
  BY DEF Attachments
<1>2. docs[i].atts \in Seq(Att)
  BY DocOf
<1>3. x = <<x[1], x[2]>> /\ x[1] = i /\ x[2] \in DOMAIN docs[i].atts
  BY <1>1
<1>4. i \in Nat \ {0} /\ i <= Len(docs)
  OBVIOUS
<1>5. x[2] \in Nat \ {0} /\ x[2] <= Len(docs[i].atts)
  BY <1>2, <1>3
<1>6. QED
  BY <1>3, <1>4, <1>5

\* An attachment that ends is the next one passed.
LEMMA PassedNext ==
    ASSUME TypeOK, NEW r \in Run, MoreAtts(r),
           feed' = feed, doc' = doc, att'[r] = att[r] + 1
    PROVE  Cardinality(Passed(r)') = Cardinality(Passed(r)) + 1
<1> DEFINE x == <<doc[r], att[r]>>
<1>1. /\ feed[r] \in Seq(Doc) /\ doc[r] \in Nat \ {0} /\ att[r] \in Nat \ {0}
      /\ doc[r] \in DOMAIN feed[r]
  BY CurrentDoc DEF TypeOK, MoreAtts
<1>2. att[r] \in DOMAIN feed[r][doc[r]].atts
  <2>1. feed[r][doc[r]].atts \in Seq(Att)
    BY <1>1, DocOf
  <2>2. QED
    BY <1>1, <2>1 DEF MoreAtts, Current
<1>3. x \in Attachments(feed[r]) /\ x \notin Passed(r)
  BY <1>1, <1>2, AttachmentPair DEF Passed
<1>4. Passed(r)' = Passed(r) \cup {x}
  <2>1. Passed(r)' = {y \in Attachments(feed[r]) :
                         y[1] < doc[r] \/ (y[1] = doc[r] /\ y[2] < att[r] + 1)}
    BY DEF Passed
  <2>2. ASSUME NEW y \in Attachments(feed[r])
        PROVE  (y[1] < doc[r] \/ (y[1] = doc[r] /\ y[2] < att[r] + 1))
                  <=> (y[1] < doc[r] \/ (y[1] = doc[r] /\ y[2] < att[r])) \/ y = x
    <3>1. y = <<y[1], y[2]>> /\ y[1] \in Nat /\ y[2] \in Nat
      BY <1>1, AttachmentIsPair
    <3>2. y = x <=> y[1] = doc[r] /\ y[2] = att[r]
      BY <3>1
    <3>3. QED
      BY <1>1, <3>1, <3>2
  <2>3. QED
    BY <1>3, <2>1, <2>2 DEF Passed
<1>5. IsFiniteSet(Passed(r))
  BY <1>1, AttachmentsFinite, FS_Subset DEF Passed
<1>6. QED
  BY <1>3, <1>4, <1>5, FS_AddElement

\* Going on to the next document passes nothing.
LEMMA PassedSame ==
    ASSUME TypeOK, NEW r \in Run, MoreDocs(r), ~ MoreAtts(r),
           feed' = feed, doc'[r] = doc[r] + 1, att'[r] = 1
    PROVE  Passed(r)' = Passed(r)
<1>1. feed[r] \in Seq(Doc) /\ doc[r] \in Nat \ {0} /\ att[r] \in Nat \ {0}
  BY DEF TypeOK
<1>2. Passed(r)' = {y \in Attachments(feed[r]) :
                       y[1] < doc[r] + 1 \/ (y[1] = doc[r] + 1 /\ y[2] < 1)}
  BY DEF Passed
<1>3. ASSUME NEW y \in Attachments(feed[r])
      PROVE  (y[1] < doc[r] + 1 \/ (y[1] = doc[r] + 1 /\ y[2] < 1))
                <=> (y[1] < doc[r] \/ (y[1] = doc[r] /\ y[2] < att[r]))
  <2>1. /\ y[1] \in Nat /\ y[2] \in Nat \ {0}
        /\ y[2] <= Len(feed[r][y[1]].atts)
    BY <1>1, AttachmentIsPair
  <2>2. feed[r][y[1]].atts \in Seq(Att)
    BY <1>1, AttachmentIsPair, DocOf
  <2>3. y[1] = doc[r] => y[2] < att[r]
    BY <1>1, <2>1, <2>2 DEF MoreAtts, Current
  <2>4. QED
    BY <1>1, <2>1, <2>3
<1>4. QED
  BY <1>2, <1>3 DEF Passed

LEMMA PassedNone ==
    ASSUME TypeOK, NEW r \in Run, feed' = feed, doc'[r] = 1, att'[r] = 1
    PROVE  Cardinality(Passed(r)') = 0
<1>1. feed[r] \in Seq(Doc)
  BY DEF TypeOK
<1>2. Passed(r)' = {y \in Attachments(feed[r]) : y[1] < 1 \/ (y[1] = 1 /\ y[2] < 1)}
  BY DEF Passed
<1>3. \A y \in Attachments(feed[r]) : ~ (y[1] < 1 \/ (y[1] = 1 /\ y[2] < 1))
  BY <1>1, AttachmentIsPair
<1>4. Passed(r)' = {}
  BY <1>2, <1>3
<1>5. QED
  BY <1>4, FS_EmptySet

LEMMA PassedAll ==
    ASSUME TypeOK, NEW r \in Run, ~ MoreDocs(r)
    PROVE  Passed(r) = Attachments(feed[r])
<1>1. feed[r] \in Seq(Doc) /\ doc[r] \in Nat \ {0}
  BY DEF TypeOK
<1>2. \A y \in Attachments(feed[r]) : y[1] < doc[r]
  BY <1>1, AttachmentIsPair DEF MoreDocs
<1>3. QED
  BY <1>2 DEF Passed

LEMMA CountInvOthers ==
    ASSUME TypeOK, NEW r \in Run, Step(r), NEW q \in Run \ {r}, CountInv(q)
    PROVE  CountInv(q)'
<1>1. /\ pc'[q] = pc[q] /\ feed'[q] = feed[q] /\ doc'[q] = doc[q] /\ att'[q] = att[q]
      /\ dry'[q] = dry[q] /\ tally'[q] = tally[q] /\ verdict'[q] = verdict[q]
      /\ runRow'[q] = runRow[q]
  BY OthersUntouched, OthersRecorded
<1>2. QED
  BY <1>1 DEF CountInv, Told, Passed

\* Each attachment that ends moves one counter by one.
LEMMA CountOne ==
    ASSUME TypeOK, NEW r \in Run, NEW column \in {"downloaded", "skipped", "failed"},
           tally' = Count(r, column)
    PROVE  Total(tally'[r]) = Total(tally[r]) + 1
<1>1. tally \in [Run -> Tally]
  BY DEF TypeOK
<1>2. QED
  BY <1>1 DEF Count, Tally, Total

LEMMA CountInvSelf ==
    ASSUME IInv, NEW r \in Run, Step(r), CountInv(r)
    PROVE  CountInv(r)'
<1> USE DEF Jump, Goto, Attaching, Unattached, Terminal, dbVars, localVars
<1>1. TypeOK /\ RunInv(r)
  BY DEF IInv
<1>2. /\ pc \in [Run -> Phases] /\ feed \in [Run -> Seq(Doc)]
      /\ doc \in [Run -> Nat \ {0}] /\ att \in [Run -> Nat \ {0}]
      /\ tally \in [Run -> Tally] /\ verdict \in [Run -> Terminal]
      /\ runRow \in [Run -> RunRow]
  BY <1>1 DEF TypeOK
<1>3. CASE Start(r)
  BY <1>2, <1>3 DEF Start, StartRun, NoRow, CountInv, Told
<1>4. CASE EnsureReady(r) \/ (\E f \in Feeds : Discover(r, f)) \/ EnsurePublication(r)
              \/ UpsertsDone(r) \/ LinkNothing(r) \/ LinkPredecessor(r)
              \/ PredecessorMissing(r) \/ MarkUnresolved(r)
  <2>1. /\ pc[r] \in Unattached /\ pc'[r] \in Unattached
        /\ tally' = tally /\ att' = att /\ runRow' = runRow
    BY <1>2, <1>4 DEF EnsureReady, Discover, EnsurePublication, UpsertsDone, LinkNothing,
                      LinkPredecessor, PredecessorMissing, MarkUnresolved, NextDocOf
  <2>2. QED
    BY <1>2, <2>1 DEF CountInv, Told, RunRow
<1>5. CASE LinksDone(r)
  <2>1. /\ pc[r] = "link" /\ pc'[r] = "check" /\ doc'[r] = 1 /\ att'[r] = 1
        /\ feed' = feed /\ runRow' = runRow /\ tally' = tally /\ tally[r] = NoTally
    BY <1>2, <1>5 DEF LinksDone, CountInv
  <2>2. Cardinality(Passed(r)') = 0
    BY <1>1, <2>1, PassedNone
  <2>3. QED
    BY <1>2, <2>1, <2>2 DEF CountInv, Told, Total, NoTally
<1>6. ASSUME NEW column \in {"downloaded", "skipped", "failed"},
             pc[r] \in Attaching, MoreAtts(r), AttachmentEnds(r, column)
      PROVE  CountInv(r)'
  <2>1. /\ pc'[r] = "check" /\ feed' = feed /\ doc' = doc /\ runRow' = runRow
        /\ att'[r] = att[r] + 1 /\ tally' = Count(r, column)
    BY <1>2, <1>6 DEF AttachmentEnds
  <2>2. Cardinality(Passed(r)') = Cardinality(Passed(r)) + 1
    BY <1>1, <1>6, <2>1, PassedNext
  <2>3. Total(tally'[r]) = Total(tally[r]) + 1
    BY <1>1, <2>1, CountOne
  <2>4. QED
    BY <1>6, <2>1, <2>2, <2>3 DEF CountInv, Told
<1>7. CASE SkipAttachment(r) \/ BindArtifact(r)
              \/ (\E stored \in BOOLEAN : AttachmentFails(r, stored))
  BY <1>1, <1>6, <1>7 DEF SkipAttachment, BindArtifact, AttachmentFails, RunInv
<1>8. CASE NeedAttachment(r) \/ (\E s \in Sha : Download(r, s)) \/ FindRawObject(r)
              \/ PutBlob(r) \/ InsertRawObject(r)
  <2>1. /\ pc[r] \in Attaching /\ pc'[r] \in Attaching
        /\ feed' = feed /\ doc' = doc /\ att' = att /\ tally' = tally /\ runRow' = runRow
    BY <1>2, <1>8 DEF NeedAttachment, Download, FindRawObject, PutBlob, InsertRawObject,
                      lineageVars
  <2>2. QED
    BY <2>1 DEF CountInv, Told, Passed
<1>9. CASE NextDocument(r)
  <2>1. /\ pc[r] = "check" /\ pc' = pc /\ ~ MoreAtts(r) /\ MoreDocs(r)
        /\ feed' = feed /\ tally' = tally /\ runRow' = runRow
        /\ doc'[r] = doc[r] + 1 /\ att'[r] = 1
    BY <1>2, <1>9 DEF NextDocument
  <2>2. Passed(r)' = Passed(r)
    BY <1>1, <2>1, PassedSame
  <2>3. QED
    BY <2>1, <2>2 DEF CountInv, Told
<1>10. CASE AttachmentsDone(r)
  <2>1. /\ pc[r] = "check" /\ pc'[r] = "finish" /\ ~ MoreDocs(r)
        /\ feed' = feed /\ tally' = tally /\ runRow' = runRow
        /\ verdict'[r] = Outcome(tally[r])
    BY <1>2, <1>10 DEF AttachmentsDone
  <2>2. Total(tally[r]) = Cardinality(Attachments(feed[r]))
    BY <1>1, <2>1, PassedAll DEF CountInv
  <2>3. /\ tally[r].downloaded \in Nat /\ tally[r].skipped \in Nat /\ tally[r].failed \in Nat
    BY <1>2 DEF Tally
  <2>4. Told(r, Outcome(tally[r]), tally[r])
    BY <2>2, <2>3 DEF Told, Outcome, Total
  <2>5. QED
    BY <2>1, <2>4 DEF CountInv, Told
<1>11. CASE FinishRun(r)
  <2>1. /\ pc[r] = "finish" /\ pc'[r] \in {"done", "raised"} /\ feed' = feed
        /\ runRow'[r].status = verdict[r] /\ runRow'[r].tally = tally[r]
    BY <1>2, <1>11 DEF FinishRun
  <2>2. QED
    BY <2>1 DEF CountInv, Told
<1>12. CASE StorageNotReady(r) \/ SourceFails(r) \/ DatabaseFails(r)
  <2>1. pc[r] \in Unattached /\ tally[r] = NoTally /\ pc'[r] = "finish"
        /\ feed' = feed /\ runRow' = runRow
    BY <1>2, <1>12 DEF StorageNotReady, SourceFails, DatabaseFails, CountInv
  <2>2. verdict'[r] = "FAILED" /\ tally'[r].downloaded + tally'[r].skipped = 0
    <3>1. tally'[r].downloaded = 0 /\ tally'[r].skipped = 0
      BY <1>2, <1>12, <2>1 DEF StorageNotReady, SourceFails, DatabaseFails, Count, NoTally
    <3>2. verdict'[r] = "FAILED"
      BY <1>2, <1>12, <2>1 DEF StorageNotReady, SourceFails, DatabaseFails, NoTally
    <3>3. QED
      BY <3>1, <3>2
  <2>3. QED
    BY <2>1, <2>2 DEF CountInv, Told
<1>13. CASE RefuseRun(r) \/ Escape(r) \/ Crash(r)
  <2>1. /\ pc[r] \notin {"done", "raised"} /\ pc'[r] \in {"raised", "crashed"}
        /\ feed' = feed /\ runRow' = runRow
    BY <1>2, <1>13 DEF RefuseRun, Escape, Crash, Stopped
  <2>2. QED
    BY <2>1 DEF CountInv, Told
<1>14. QED
  BY <1>3, <1>4, <1>5, <1>7, <1>8, <1>9, <1>10, <1>11, <1>12, <1>13
     DEF Step, Progress, Fault

\* Whatever fails, and however runs overtake each other, the recorded status and counters
\* account for every attachment.
THEOREM StatusTellsCounts == Spec => []StatusMatchesCounts
<1> DEFINE Inv == \A r \in Run : CountInv(r)
<1>1. Init => Inv
  BY DEF Init, CountInv, Told, Attaching, Unattached, Terminal, NoRow
<1>2. ASSUME IInv, Inv, [Next]_vars
      PROVE  Inv'
  <2>1. CASE UNCHANGED vars
    BY <1>2, <2>1 DEF CountInv, Told, Passed, vars, dbVars, localVars
  <2>2. ASSUME NEW r \in Run, Step(r)
        PROVE  Inv'
    BY <1>2, <2>2, CountInvSelf, CountInvOthers DEF IInv
  <2>3. QED
    BY <1>2, <2>1, <2>2 DEF Next, AllStopped, Step
<1>3. Inv => StatusMatchesCounts
  BY DEF CountInv, Told, Total, StatusMatchesCounts, Completed
<1>4. QED
  BY <1>1, <1>2, <1>3, Inductive, PTL DEF Spec

-----------------------------------------------------------------------------
(* Links of a completed run.                                               *)

\* A list is given once; a lookup that found nothing was made outside the batch; a run
\* recorded COMPLETED is over.
FeedInv(r) ==
    /\ pc[r] \in {"idle", "ready", "discover"} => feed[r] = << >>
    /\ pc[r] = "unresolved" => Current(r).supersedes \notin Batch(r) \cup {NoPub}
    /\ Completed(r) => pc[r] \in {"done", "raised"}

IsLinked(r, i) ==
    feed[r][i].supersedes \in Batch(r) => parent[feed[r][i].id] = feed[r][i].supersedes

LinkedSoFar(r) == \A i \in DOMAIN feed[r] : i < doc[r] => IsLinked(r, i)
AllLinked(r) == \A i \in DOMAIN feed[r] : IsLinked(r, i)

\* The documents a run has passed in its link loop are linked as it was told.
LinkedInv(r) ==
    /\ pc[r] \in {"link", "unresolved"} => LinkedSoFar(r)
    /\ pc[r] \in Attaching \/ (pc[r] = "finish" /\ verdict[r] = "COMPLETED") \/ Completed(r)
          => AllLinked(r)

LEMMA FeedInvStep ==
    ASSUME IInv, NEW r \in Run, Step(r), NEW q \in Run, FeedInv(q)
    PROVE  FeedInv(q)'
<1> USE DEF Jump, Goto, dbVars, localVars
<1>1. TypeOK /\ RunInv(r)
  BY DEF IInv
<1>2. /\ pc \in [Run -> Phases] /\ feed \in [Run -> Seq(Doc)]
      /\ verdict \in [Run -> Terminal] /\ runRow \in [Run -> RunRow]
  BY <1>1 DEF TypeOK
<1>3. CASE q # r
  <2>1. /\ pc'[q] = pc[q] /\ feed'[q] = feed[q] /\ doc'[q] = doc[q]
        /\ runRow'[q] = runRow[q]
    BY <1>1, <1>3, OthersUntouched, OthersRecorded
  <2>2. QED
    BY <2>1 DEF FeedInv, Current, Batch, Completed
<1>4. CASE q = r
  <2>1. CASE Start(r)
    BY <1>2, <1>4, <2>1 DEF Start, StartRun, NoRow, FeedInv, Completed
  <2>2. CASE PredecessorMissing(r)
    BY <1>2, <1>4, <2>2 DEF PredecessorMissing, FeedInv, Completed, Current, Batch
  <2>3. CASE FinishRun(r)
    BY <1>2, <1>4, <2>3 DEF FinishRun, FeedInv
  <2>4. CASE EnsureReady(r)
    BY <1>2, <1>4, <2>4 DEF EnsureReady, FeedInv, Completed
  <2>5. CASE (\E f \in Feeds : Discover(r, f)) \/ EnsurePublication(r) \/ UpsertsDone(r)
                \/ LinkNothing(r) \/ LinkPredecessor(r) \/ MarkUnresolved(r) \/ LinksDone(r)
                \/ NextDocument(r) \/ AttachmentsDone(r)
    BY <1>2, <1>4, <2>5 DEF Discover, EnsurePublication, UpsertsDone, LinkNothing,
       LinkPredecessor, MarkUnresolved, NextDocOf, LinksDone, NextDocument, AttachmentsDone,
       FeedInv, Completed
  <2>6. CASE SkipAttachment(r) \/ NeedAttachment(r) \/ (\E s \in Sha : Download(r, s))
                \/ FindRawObject(r) \/ PutBlob(r) \/ InsertRawObject(r) \/ BindArtifact(r)
                \/ (\E stored \in BOOLEAN : AttachmentFails(r, stored))
    BY <1>2, <1>4, <2>6 DEF SkipAttachment, NeedAttachment, Download, FindRawObject, PutBlob,
       InsertRawObject, BindArtifact, AttachmentFails, AttachmentEnds, Attaching, FeedInv,
       Completed, lineageVars
  <2>7. CASE RefuseRun(r) \/ StorageNotReady(r) \/ SourceFails(r) \/ DatabaseFails(r)
                \/ Escape(r) \/ Crash(r)
    BY <1>2, <1>4, <2>7 DEF RefuseRun, StorageNotReady, SourceFails, DatabaseFails, Escape,
       Crash, Stopped, FeedInv, Completed
  <2>8. QED
    BY <2>1, <2>2, <2>3, <2>4, <2>5, <2>6, <2>7 DEF Step, Progress, Fault
<1>5. QED
  BY <1>3, <1>4

\* A list, once given, stays.
LEMMA FeedsKept ==
    ASSUME TypeOK, NEW r \in Run, Step(r), FeedInv(r), NEW q \in Run
    PROVE  feed'[q] = feed[q] \/ feed[q] = << >>
<1>1. feed \in [Run -> Seq(Doc)]
  BY DEF TypeOK
<1>2. feed' = feed \/ (pc[r] = "discover" /\ \E f \in Feeds : feed' = [feed EXCEPT ![r] = f])
  BY DEF Step, Start, Progress, Fault, StartRun, EnsureReady, Discover, EnsurePublication,
       UpsertsDone, LinkNothing, LinkPredecessor, PredecessorMissing, MarkUnresolved, NextDocOf,
       LinksDone, SkipAttachment, NeedAttachment, Download, FindRawObject, PutBlob,
       InsertRawObject, BindArtifact, NextDocument, AttachmentsDone, FinishRun, RefuseRun,
       StorageNotReady, SourceFails, DatabaseFails, AttachmentFails, AttachmentEnds, Escape,
       Crash, Jump, localVars
<1>3. QED
  BY <1>1, <1>2 DEF FeedInv

LEMMA DocsGrow ==
    ASSUME TypeOK, NEW r \in Run, Step(r), FeedInv(r)
    PROVE  /\ \A q \in Run : Docs(q) \subseteq Docs(q)'
           /\ \A p, q \in Pub : Named(p, q) => Named(p, q)'
<1>1. \A q \in Run : Docs(q) \subseteq Docs(q)'
  BY FeedsKept DEF Docs
<1>2. QED
  BY <1>1 DEF Named

LEMMA AgreedBefore ==
    ASSUME TypeOK, NEW r \in Run, Step(r), FeedInv(r), ListsAgree'
    PROVE  ListsAgree
BY DocsGrow DEF ListsAgree

\* Only a link changes parents.
LEMMA ParentsKept ==
    ASSUME NEW r \in Run, Step(r)
    PROVE  parent' = parent \/ LinkPredecessor(r)
BY LineageFrame DEF EnsurePublication, LinkNothing, MarkUnresolved, MarkNeedsReview, lineageVars

LEMMA LinkNamed ==
    ASSUME IInv, NEW r \in Run, LinkPredecessor(r)
    PROVE  Named(Current(r).id, Current(r).supersedes)
<1>1. TypeOK /\ MoreDocs(r)
  BY DEF IInv, LinkPredecessor
<1>2. doc[r] \in DOMAIN feed[r]
  BY <1>1, CurrentDoc
<1>3. Current(r) \in Docs(r)
  BY <1>2 DEF Docs, Current
<1>4. Current(r).supersedes # NoPub
  BY LinkStep, LineageAssumption
<1>5. QED
  BY <1>3, <1>4 DEF Named

LEMMA BatchTyped ==
    ASSUME TypeOK, NEW q \in Run
    PROVE  Batch(q) \subseteq Pub
<1>1. feed[q] \in Seq(Doc)
  BY DEF TypeOK
<1>2. \A i \in DOMAIN feed[q] : feed[q][i] \in Doc
  BY <1>1
<1>3. QED
  BY <1>2 DEF Batch, Doc

\* What was linked as some list says is linked so after every other link.
LEMMA LinkedKept ==
    ASSUME IInv, ListsAgree, NEW r \in Run, Step(r), NEW q \in Run, feed'[q] = feed[q],
           NEW i \in DOMAIN feed[q], IsLinked(q, i)
    PROVE  IsLinked(q, i)'
<1>1. CASE parent' = parent
  BY <1>1 DEF IsLinked, Batch
<1>2. CASE LinkPredecessor(r)
  <2> DEFINE child == Current(r).id
             pred == Current(r).supersedes
  <2>1. /\ child \in Pub /\ pred \in Pub /\ parent'[child] = pred
        /\ \A p \in Pub \ {child} : parent'[p] = parent[p]
        /\ Named(child, pred)
    BY <1>2, LinkStep, LinkNamed
  <2> SUFFICES ASSUME feed[q][i].supersedes \in Batch(q)
               PROVE  parent'[feed[q][i].id] = feed[q][i].supersedes
    BY DEF IsLinked, Batch
  <2>2. feed[q][i].id \in Pub /\ feed[q][i].supersedes \in Pub
    <3>1. TypeOK
      BY DEF IInv
    <3>2. feed[q] \in Seq(Doc)
      BY <3>1 DEF TypeOK
    <3>3. feed[q][i] \in Doc
      BY <3>2
    <3>4. QED
      BY <3>1, <3>3, BatchTyped DEF Doc
  <2>3. Named(feed[q][i].id, feed[q][i].supersedes)
    BY <2>2, LineageAssumption DEF Named, Docs
  <2>4. CASE feed[q][i].id = child
    BY <2>1, <2>2, <2>3, <2>4 DEF ListsAgree
  <2>5. CASE feed[q][i].id # child
    BY <2>1, <2>2, <2>5 DEF IsLinked
  <2>6. QED
    BY <2>4, <2>5
<1>3. QED
  BY <1>1, <1>2, ParentsKept

LEMMA LinkedInvOthers ==
    ASSUME IInv, ListsAgree, NEW r \in Run, Step(r), NEW q \in Run \ {r}, LinkedInv(q)
    PROVE  LinkedInv(q)'
<1>1. /\ pc'[q] = pc[q] /\ feed'[q] = feed[q] /\ doc'[q] = doc[q]
      /\ verdict'[q] = verdict[q] /\ runRow'[q] = runRow[q]
  BY OthersUntouched, OthersRecorded DEF IInv
<1>2. \A i \in DOMAIN feed[q] : IsLinked(q, i) => IsLinked(q, i)'
  BY <1>1, LinkedKept
<1>3. QED
  BY <1>1, <1>2 DEF LinkedInv, LinkedSoFar, AllLinked, Completed

LEMMA LinkedInvSelf ==
    ASSUME IInv, ListsAgree, NEW r \in Run, Step(r), FeedInv(r), LinkedInv(r)
    PROVE  LinkedInv(r)'
<1> USE DEF Jump, Goto, dbVars, localVars
<1>1. TypeOK /\ RunInv(r)
  BY DEF IInv
<1>2. /\ pc \in [Run -> Phases] /\ feed \in [Run -> Seq(Doc)] /\ doc \in [Run -> Nat \ {0}]
      /\ verdict \in [Run -> Terminal] /\ runRow \in [Run -> RunRow] /\ tally \in [Run -> Tally]
  BY <1>1 DEF TypeOK
<1>3. \A i \in DOMAIN feed[r] : i \in Nat \ {0} /\ i <= Len(feed[r])
  BY <1>2
<1>4. ASSUME feed' = feed
      PROVE  \A i \in DOMAIN feed[r] : IsLinked(r, i) => IsLinked(r, i)'
  BY <1>4, LinkedKept
<1>5. CASE Start(r)
  BY <1>2, <1>5 DEF Start, StartRun, NoRow, LinkedInv, Completed, Attaching
<1>6. CASE EnsureReady(r) \/ (\E f \in Feeds : Discover(r, f)) \/ EnsurePublication(r)
  BY <1>2, <1>6 DEF EnsureReady, Discover, EnsurePublication, LinkedInv, FeedInv, Completed,
                    Attaching
<1>7. CASE UpsertsDone(r)
  <2>1. /\ pc[r] = "upsert" /\ pc'[r] = "link" /\ feed' = feed /\ doc'[r] = 1
        /\ runRow' = runRow
    BY <1>2, <1>7 DEF UpsertsDone
  <2>2. \A i \in DOMAIN feed[r] : ~ (i < 1)
    BY <1>3
  <2>3. QED
    BY <2>1, <2>2 DEF LinkedInv, LinkedSoFar, FeedInv, Completed, Attaching
<1>8. ASSUME pc[r] \in {"link", "unresolved"}, MoreDocs(r), pc'[r] = "link", feed' = feed,
             doc'[r] = doc[r] + 1, runRow' = runRow,
             \A i \in DOMAIN feed[r] : i = doc[r] => IsLinked(r, i)'
      PROVE  LinkedInv(r)'
  <2>1. LinkedSoFar(r)
    BY <1>8 DEF LinkedInv
  <2>2. LinkedSoFar(r)'
    <3> SUFFICES ASSUME NEW i \in DOMAIN feed[r], i < doc[r] + 1
                 PROVE  IsLinked(r, i)'
      BY <1>8 DEF LinkedSoFar
    <3>1. i < doc[r] \/ i = doc[r]
      BY <1>2, <1>3
    <3>2. CASE i < doc[r]
      BY <1>4, <1>8, <2>1, <3>2 DEF LinkedSoFar
    <3>3. CASE i = doc[r]
      BY <1>8, <3>3
    <3>4. QED
      BY <3>1, <3>2, <3>3
  <2>3. QED
    BY <1>8, <2>2 DEF LinkedInv, FeedInv, Completed, Attaching
<1>9. CASE LinkNothing(r)
  <2>1. /\ pc[r] = "link" /\ MoreDocs(r) /\ pc'[r] = "link" /\ feed' = feed
        /\ doc'[r] = doc[r] + 1 /\ runRow' = runRow /\ Current(r).supersedes = NoPub
    BY <1>2, <1>9 DEF LinkNothing, NextDocOf
  <2>2. NoPub \notin Batch(r)
    BY <1>1, BatchTyped, LineageAssumption
  <2>3. ASSUME NEW i \in DOMAIN feed[r], i = doc[r]
        PROVE  IsLinked(r, i)'
    BY <2>1, <2>2, <2>3 DEF IsLinked, Current, Batch
  <2>4. QED
    BY <1>8, <2>1, <2>3
<1>10. CASE LinkPredecessor(r)
  <2>1. /\ pc[r] = "link" /\ MoreDocs(r) /\ pc'[r] = "link" /\ feed' = feed
        /\ doc'[r] = doc[r] + 1 /\ runRow' = runRow
        /\ parent'[Current(r).id] = Current(r).supersedes
    BY <1>2, <1>10, LinkStep DEF LinkPredecessor, NextDocOf
  <2>2. ASSUME NEW i \in DOMAIN feed[r], i = doc[r]
        PROVE  IsLinked(r, i)'
    BY <2>1, <2>2 DEF IsLinked, Current
  <2>3. QED
    BY <1>8, <2>1, <2>2
<1>11. CASE PredecessorMissing(r)
  <2>1. /\ pc[r] = "link" /\ pc'[r] = "unresolved" /\ feed' = feed /\ doc' = doc
        /\ runRow' = runRow
    BY <1>2, <1>11 DEF PredecessorMissing
  <2>2. QED
    BY <1>4, <2>1 DEF LinkedInv, LinkedSoFar, FeedInv, Completed, Attaching
<1>12. CASE MarkUnresolved(r)
  <2>1. /\ pc[r] = "unresolved" /\ MoreDocs(r) /\ pc'[r] = "link" /\ feed' = feed
        /\ doc'[r] = doc[r] + 1 /\ runRow' = runRow
        /\ Current(r).supersedes \notin Batch(r)
    BY <1>1, <1>2, <1>12 DEF MarkUnresolved, NextDocOf, FeedInv, RunInv
  <2>2. ASSUME NEW i \in DOMAIN feed[r], i = doc[r]
        PROVE  IsLinked(r, i)'
    BY <2>1, <2>2 DEF IsLinked, Current, Batch
  <2>3. QED
    BY <1>8, <2>1, <2>2
<1>13. CASE LinksDone(r)
  <2>1. /\ pc[r] = "link" /\ pc'[r] = "check" /\ feed' = feed /\ ~ MoreDocs(r)
        /\ runRow' = runRow
    BY <1>2, <1>13 DEF LinksDone
  <2>2. \A i \in DOMAIN feed[r] : i < doc[r]
    BY <1>2, <1>3, <2>1 DEF MoreDocs
  <2>3. QED
    BY <1>4, <2>1, <2>2 DEF LinkedInv, LinkedSoFar, AllLinked
<1>14. CASE SkipAttachment(r) \/ NeedAttachment(r) \/ (\E s \in Sha : Download(r, s))
                \/ FindRawObject(r) \/ PutBlob(r) \/ InsertRawObject(r) \/ BindArtifact(r)
                \/ (\E stored \in BOOLEAN : AttachmentFails(r, stored)) \/ NextDocument(r)
                \/ AttachmentsDone(r)
  <2>1. pc[r] \in Attaching /\ pc'[r] \in Attaching \cup {"finish"} /\ feed' = feed
    BY <1>2, <1>14 DEF SkipAttachment, NeedAttachment, Download, FindRawObject, PutBlob,
       InsertRawObject, BindArtifact, AttachmentFails, AttachmentEnds, NextDocument,
       AttachmentsDone, Attaching
  <2>2. QED
    BY <1>4, <2>1 DEF LinkedInv, AllLinked, Attaching
<1>15. CASE FinishRun(r)
  <2>1. /\ pc[r] = "finish" /\ pc'[r] \in {"done", "raised"} /\ feed' = feed
        /\ Completed(r)' => verdict[r] = "COMPLETED"
    BY <1>2, <1>15 DEF FinishRun, Completed
  <2>2. QED
    BY <1>4, <2>1 DEF LinkedInv, AllLinked, Attaching
<1>16. CASE StorageNotReady(r) \/ SourceFails(r) \/ DatabaseFails(r)
  <2>1. /\ pc[r] \in {"ready", "discover", "upsert", "link", "unresolved"}
        /\ pc'[r] = "finish" /\ verdict'[r] # "COMPLETED" /\ runRow' = runRow
    BY <1>2, <1>16 DEF StorageNotReady, SourceFails, DatabaseFails
  <2>2. QED
    BY <2>1 DEF LinkedInv, FeedInv, Completed, Attaching
<1>17. CASE RefuseRun(r) \/ Escape(r) \/ Crash(r)
  <2>1. /\ pc[r] \notin {"done", "raised"} /\ pc'[r] \in {"raised", "crashed"}
        /\ runRow' = runRow
    BY <1>2, <1>17 DEF RefuseRun, Escape, Crash, Stopped
  <2>2. QED
    BY <2>1 DEF LinkedInv, FeedInv, Completed, Attaching
<1>18. QED
  BY <1>5, <1>6, <1>7, <1>9, <1>10, <1>11, <1>12, <1>13, <1>14, <1>15, <1>16, <1>17
     DEF Step, Progress, Fault

-----------------------------------------------------------------------------
(* Elections of repeated, interrupted and concurrent runs.                 *)

\* A link exists only where some list named it.
PlacedInv == \A p, q \in Pub : parent[p] = q => Named(p, q)

LEMMA PlacedStep ==
    ASSUME IInv, PlacedInv, NEW r \in Run, Step(r), FeedInv(r)
    PROVE  PlacedInv'
<1>1. TypeOK
  BY DEF IInv
<1>2. \A p, q \in Pub : Named(p, q) => Named(p, q)'
  BY <1>1, DocsGrow
<1>3. CASE parent' = parent
  BY <1>2, <1>3 DEF PlacedInv
<1>4. CASE LinkPredecessor(r)
  <2> DEFINE child == Current(r).id
             pred == Current(r).supersedes
  <2>1. /\ child \in Pub /\ pred \in Pub /\ parent'[child] = pred
        /\ \A p \in Pub \ {child} : parent'[p] = parent[p]
    BY <1>4, LinkStep
  <2>2. Named(child, pred)
    BY <1>4, LinkNamed
  <2> HIDE DEF child, pred
  <2>3. QED
    BY <1>2, <2>1, <2>2 DEF PlacedInv
<1>5. QED
  BY <1>3, <1>4, ParentsKept

\* While no lists disagree, a link places a version or repeats its place.
LEMMA LinkPlaces ==
    ASSUME IInv, PlacedInv, ListsAgree, NEW r \in Run, LinkPredecessor(r)
    PROVE  parent[Current(r).id] \in {NoPub, Current(r).supersedes}
<1> DEFINE child == Current(r).id
           pred == Current(r).supersedes
<1>1. child \in Pub /\ pred \in Pub /\ Named(child, pred)
  BY LinkStep, LinkNamed
<1>2. parent[child] \in Pub \cup {NoPub}
  BY <1>1 DEF IInv, TypeOK, ParentMap
<1>3. QED
  BY <1>1, <1>2 DEF PlacedInv, ListsAgree

LEMMA WholeStep ==
    ASSUME IInv, PlacedInv, WholeListsNewestLatest, NEW r \in Run, Step(r), FeedInv(r)
    PROVE  WholeListsNewestLatest'
<1> SUFFICES ASSUME \A q \in Run : Whole(feed'[q]), ListsAgree'
             PROVE  NewestLeaf(parent', latest')
  BY DEF WholeListsNewestLatest, NewestLeafLatest, NewestLeaf, Whole, Root, LatestLeaf, Leaves,
         Subtree, ClosedUnderChildren
<1>1. TypeOK /\ RunInv(r)
  BY DEF IInv
<1>2. \A q \in Run : Whole(feed[q])
  <2>1. Whole(<< >>)
    BY DEF Whole
  <2>2. QED
    BY <1>1, <2>1, FeedsKept
<1>3. ListsAgree
  BY <1>1, AgreedBefore
<1>4. NewestLeaf(parent, latest)
  BY <1>2, <1>3 DEF WholeListsNewestLatest, NewestLeafLatest, NewestLeaf
<1>5. ASSUME parent' = parent, latest \subseteq latest'
      PROVE  NewestLeaf(parent', latest')
  BY <1>4, <1>5 DEF NewestLeaf
<1>6. CASE EnsurePublication(r)
  BY <1>5, <1>6 DEF EnsurePublication
<1>7. CASE LinkNothing(r)
  <2>1. MoreDocs(r) /\ Current(r).supersedes = NoPub
    BY <1>7 DEF LinkNothing
  <2>2. ~ Current(r).correction
    BY <1>1, <1>2, <2>1, CurrentDoc DEF Whole, Current
  <2>3. QED
    BY <1>5, <1>7, <2>2 DEF LinkNothing
<1>8. CASE LinkPredecessor(r)
  <2> DEFINE child == Current(r).id
             pred == Current(r).supersedes
  <2>1. /\ child \in Pub /\ pred \in Pub
        /\ parent' = Linked(parent, child, pred)
        /\ latest' = LatestAfterLink(parent, latest, child, pred)
        /\ parent' \in ParentMap
    BY <1>8, LinkStep
  <2>2. LinksInv /\ LinksInv'
    BY <1>8, LinksStep DEF Step, Progress, IInv
  <2>3. parent \in ParentMap /\ latest \in SUBSET Pub
    BY <1>1 DEF TypeOK
  <2>4. Acyclic(parent) /\ Acyclic(parent')
    BY <2>1, <2>2, <2>3, DeclaredAcyclic DEF LinksInv
  <2>5. parent[child] \in {NoPub, pred}
    BY <1>3, <1>8, LinkPlaces
  <2> HIDE DEF child, pred
  <2>6. Acyclic(Linked(parent, child, pred))
    BY <2>1, <2>4
  <2>7. NewestLeaf(Linked(parent, child, pred), LatestAfterLink(parent, latest, child, pred))
    BY <1>4, <2>1, <2>3, <2>4, <2>5, <2>6, LinkKeepsNewestLeaf
  <2>8. QED
    BY <2>1, <2>7
<1>9. CASE MarkUnresolved(r)
  <2>1. MoreDocs(r) /\ Current(r).supersedes \notin Batch(r) \cup {NoPub}
    BY <1>1, <1>9 DEF MarkUnresolved, Jump, RunInv, FeedInv
  <2>2. Current(r).supersedes = NoPub \/ Current(r).supersedes \in Batch(r)
    BY <1>1, <1>2, <2>1, CurrentDoc DEF Whole, Current, Batch
  <2>3. QED
    BY <2>1, <2>2
<1>10. CASE UNCHANGED lineageVars
  BY <1>5, <1>10 DEF lineageVars
<1>11. QED
  BY <1>6, <1>7, <1>8, <1>9, <1>10, LineageFrame

-----------------------------------------------------------------------------
(* Versions named in lists that are oldest first.                          *)

\* A latest version without a predecessor was given without one by some list.
FirstInv ==
    \A p \in latest : parent[p] = NoPub =>
        \E r \in Run : \E d \in Docs(r) : d.id = p /\ d.supersedes = NoPub

LEMMA FirstStep ==
    ASSUME IInv, FirstInv, NEW r \in Run, Step(r), FeedInv(r)
    PROVE  FirstInv'
<1>1. TypeOK /\ LinksInv
  BY DEF IInv
<1>2. \A q \in Run : Docs(q) \subseteq Docs(q)'
  BY <1>1, DocsGrow
<1>3. \A p \in latest : parent[p] = NoPub =>
          \E q \in Run : \E d \in Docs(q)' : d.id = p /\ d.supersedes = NoPub
  BY <1>2 DEF FirstInv
<1>4. CASE EnsurePublication(r)
  <2>1. MoreDocs(r) /\ parent' = parent
    BY <1>4 DEF EnsurePublication
  <2>2. Current(r) \in Docs(r)
    BY <1>1, <2>1, CurrentDoc DEF Docs, Current
  <2>3. latest' = latest \/ (LatestOnInsert(Current(r)) /\ latest' = latest \cup {Current(r).id})
    BY <1>4 DEF EnsurePublication
  <2>4. QED
    BY <1>2, <1>3, <2>1, <2>2, <2>3 DEF FirstInv, LatestOnInsert
<1>5. CASE LinkPredecessor(r)
  <2> DEFINE child == Current(r).id
             pred == Current(r).supersedes
             leaf == LatestLeaf(parent', Root(parent, pred))
  <2>1. /\ child \in Pub /\ pred \in Pub
        /\ parent' = Linked(parent, child, pred)
        /\ latest' = LatestAfterLink(parent, latest, child, pred)
        /\ parent'[child] = pred /\ \A p \in Pub \ {child} : parent'[p] = parent[p]
        /\ parent' \in ParentMap
    BY <1>5, LinkStep
  <2>2. LinksInv'
    BY <1>5, LinksStep DEF Step, Progress
  <2>3. /\ parent \in ParentMap /\ latest \subseteq Pub
        /\ Acyclic(parent) /\ Acyclic(parent')
    BY <1>1, <2>1, <2>2, DeclaredAcyclic DEF LinksInv, TypeOK
  <2>4. leaf \in Pub /\ parent'[leaf] # NoPub
    BY <1>1, <2>1, <2>3, ElectedIsLinked
  <2>5. latest' \subseteq latest \cup {leaf}
    BY <2>1 DEF LatestAfterLink
  <2>6. \A p \in Pub : parent'[p] = NoPub => parent[p] = NoPub
    BY <2>1, LineageAssumption
  <2> HIDE DEF leaf, child, pred
  <2>7. QED
    BY <1>3, <2>3, <2>4, <2>5, <2>6 DEF FirstInv
<1>6. CASE parent' = parent /\ latest' \subseteq latest
  BY <1>3, <1>6 DEF FirstInv
<1>7. QED
  BY <1>4, <1>5, <1>6, LineageFrame DEF LinkNothing, MarkUnresolved, MarkNeedsReview, lineageVars

OldestFirstLists == (\A r \in Run : OldestFirst(feed[r])) /\ SamePredecessors

\* In lists that are oldest first, a version is linked after its predecessor is.
ChainInv ==
    OldestFirstLists =>
        \A p, m, q \in Pub : parent[p] = m /\ Named(m, q) => parent[m] = q

LEMMA OneName ==
    ASSUME SamePredecessors
    PROVE  ListsAgree
BY DEF SamePredecessors, ListsAgree, Named

\* The lists that name a version name its predecessor with it.
LEMMA NamedInList ==
    ASSUME TypeOK, OldestFirstLists, NEW r \in Run, NEW k \in DOMAIN feed[r],
           NEW m \in Pub, feed[r][k].supersedes = m
    PROVE  \E j \in DOMAIN feed[r] :
              /\ j < k /\ feed[r][j].id = m
              /\ \A s \in Run : \A e \in Docs(s) : e.id = m => feed[r][j].supersedes = e.supersedes
<1>1. m # NoPub
  BY LineageAssumption
<1>2. PICK j \in 1..(k - 1) : feed[r][j].id = m
  BY <1>1 DEF OldestFirstLists, OldestFirst
<1>3. feed[r] \in Seq(Doc)
  BY DEF TypeOK
<1>4. j \in DOMAIN feed[r] /\ j < k
  BY <1>2, <1>3
<1>5. feed[r][j] \in Docs(r)
  BY <1>4 DEF Docs
<1>6. QED
  BY <1>2, <1>4, <1>5 DEF OldestFirstLists, SamePredecessors

LEMMA ListsBefore ==
    ASSUME TypeOK, NEW r \in Run, Step(r), FeedInv(r), OldestFirstLists'
    PROVE  OldestFirstLists
<1>1. \A q \in Run : OldestFirst(feed'[q])
  BY DEF OldestFirstLists, OldestFirst
<1>2. OldestFirst(<< >>)
  BY DEF OldestFirst
<1>3. \A q \in Run : OldestFirst(feed[q])
  BY <1>1, <1>2, FeedsKept
<1>4. SamePredecessors
  BY DocsGrow DEF OldestFirstLists, SamePredecessors
<1>5. QED
  BY <1>3, <1>4 DEF OldestFirstLists

\* What a list newly names for the predecessor of a version was named before.
LEMMA NamedBefore ==
    ASSUME IInv, PlacedInv, NEW r \in Run, Step(r), FeedInv(r), OldestFirstLists',
           NEW p \in Pub, NEW m \in Pub, NEW q \in Pub, parent[p] = m, Named(m, q)'
    PROVE  Named(m, q)
<1>1. TypeOK /\ m # NoPub
  BY LineageAssumption DEF IInv
<1>2. OldestFirstLists
  BY <1>1, ListsBefore
<1>3. PICK s \in Run : \E k \in DOMAIN feed[s] : feed[s][k].supersedes = m
  BY DEF PlacedInv, Named, Docs
<1>4. PICK j \in DOMAIN feed[s] : feed[s][j].id = m
  BY <1>1, <1>2, <1>3, NamedInList
<1>5. feed[s][j] \in Docs(s)
  BY <1>4 DEF Docs
<1>6. feed[s][j] \in Docs(s)'
  BY <1>1, <1>5, DocsGrow
<1>7. feed[s][j].supersedes = q
  BY <1>4, <1>6 DEF OldestFirstLists, SamePredecessors, Named
<1>8. QED
  BY <1>4, <1>5, <1>7, LineageAssumption DEF Named

LEMMA ChainStep ==
    ASSUME IInv, PlacedInv, ChainInv, NEW r \in Run, Step(r), FeedInv(r),
           ListsAgree => LinkedInv(r)
    PROVE  ChainInv'
<1> SUFFICES ASSUME OldestFirstLists',
                    NEW p \in Pub, NEW m \in Pub, NEW q \in Pub,
                    parent'[p] = m, Named(m, q)'
             PROVE  parent'[m] = q
  BY DEF ChainInv
<1>1. TypeOK
  BY DEF IInv
<1>2. OldestFirstLists /\ ListsAgree
  BY <1>1, ListsBefore, OneName DEF OldestFirstLists
<1>3. \A x, y, z \in Pub : parent[x] = y /\ Named(y, z) => parent[y] = z
  BY <1>2 DEF ChainInv
<1>4. CASE parent' = parent
  BY <1>3, <1>4, NamedBefore
<1>5. CASE LinkPredecessor(r)
  <2> DEFINE child == Current(r).id
             pred == Current(r).supersedes
  <2>1. /\ child \in Pub /\ pred \in Pub
        /\ parent'[child] = pred /\ Declares(child, pred)
        /\ \A x \in Pub \ {child} : parent'[x] = parent[x]
    BY <1>5, LinkStep
  <2>2. feed' = feed /\ pc[r] = "link" /\ MoreDocs(r)
    BY <1>5 DEF LinkPredecessor, NextDocOf
  <2>3. Named(m, q)
    BY <2>2 DEF Named, Docs
  <2>4. child # pred
    <3>1. {child} \in SUBSET Pub /\ {child} # {}
      BY <2>1
    <3>2. ~ Declares(child, child)
      BY <3>1, IngestionAssumption
    <3>3. QED
      BY <2>1, <3>2
  <2>5. CASE p = child
    <3>1. doc[r] \in DOMAIN feed[r] /\ feed[r][doc[r]].supersedes = m
      BY <1>1, <2>1, <2>2, <2>5, CurrentDoc DEF Current
    <3>2. PICK j \in DOMAIN feed[r] :
             /\ j < doc[r] /\ feed[r][j].id = m
             /\ \A s \in Run : \A e \in Docs(s) : e.id = m => feed[r][j].supersedes = e.supersedes
      BY <1>1, <1>2, <3>1, NamedInList
    <3>3. feed[r][j].supersedes = q
      BY <2>3, <3>2 DEF Named
    <3>4. q \in Batch(r)
      BY <1>1, <1>2, <3>2, <3>3, NamedInList DEF Batch
    <3>5. parent[m] = q
      BY <1>2, <2>2, <3>2, <3>3, <3>4 DEF LinkedInv, LinkedSoFar, IsLinked
    <3>6. QED
      BY <2>1, <2>4, <2>5, <3>5
  <2>6. CASE p # child
    <3>1. parent[m] = q
      BY <1>3, <2>1, <2>3, <2>6
    <3>2. CASE m # child
      BY <2>1, <3>1, <3>2
    <3>3. CASE m = child
      <4>1. Named(child, pred)
        BY <1>5, LinkNamed
      <4>2. QED
        BY <1>2, <2>1, <2>3, <3>3, <4>1 DEF ListsAgree
    <3>4. QED
      BY <3>2, <3>3
  <2>7. QED
    BY <2>5, <2>6
<1>6. QED
  BY <1>4, <1>5, ParentsKept

\* The links still to be made reach no latest version from another one.
LEMMA DeclaredApart ==
    ASSUME IInv, PlacedInv, FirstInv, ChainInv
    PROVE  OldestFirstOneDeclared
<1> SUFFICES ASSUME OldestFirstLists, NEW p \in latest, NEW q \in latest,
                    q \in Subtree(NamedParent, p)
             PROVE  p = q
  BY DEF OldestFirstOneDeclared, OldestFirstLists, NoTwoDeclaredLatest
<1>1. /\ latest \subseteq Pub /\ parent \in ParentMap
      /\ OneLatest(parent, latest)
  BY DEF IInv, TypeOK, OneLatestPerLineage
<1>2. ListsAgree
  BY OneName DEF OldestFirstLists
<1>3. NoPub \notin Pub
  BY LineageAssumption
<1>4. \A x, y \in Pub : NamedParent[x] = y <=> Named(x, y)
  <2> SUFFICES ASSUME NEW x \in Pub, NEW y \in Pub
               PROVE  NamedParent[x] = y <=> Named(x, y)
    OBVIOUS
  <2>1. CASE \E z \in Pub : Named(x, z)
    <3>1. PICK z \in Pub : Named(x, z)
      BY <2>1
    <3>2. \A w \in Pub : Named(x, w) <=> w = z
      BY <1>2, <3>1 DEF ListsAgree
    <3>3. NamedParent[x] = z
      BY <3>1, <3>2 DEF NamedParent
    <3>4. QED
      BY <3>2, <3>3
  <2>2. CASE \A z \in Pub : ~ Named(x, z)
    BY <1>3, <2>2 DEF NamedParent
  <2>3. QED
    BY <2>1, <2>2
<1> DEFINE S == {x \in Pub : \/ x \in Subtree(parent, p)
                             \/ parent[x] = NoPub /\ \E y \in Pub : Named(x, y)}
<1>5. p \in S
  BY <1>1, SubtreeClosed
<1>6. ClosedUnderChildren(NamedParent, S)
  <2> SUFFICES ASSUME NEW x \in Pub, NamedParent[x] \in S
               PROVE  x \in S
    BY DEF ClosedUnderChildren
  <2> DEFINE y == NamedParent[x]
  <2>1. y \in Pub /\ Named(x, y)
    BY <1>4
  <2>2. CASE parent[x] = NoPub
    BY <2>1, <2>2
  <2>3. CASE parent[x] # NoPub
    <3>1. parent[x] \in Pub
      BY <1>1, <2>3 DEF ParentMap
    <3>2. parent[x] = y
      BY <1>2, <2>1, <3>1 DEF PlacedInv, ListsAgree
    <3>3. CASE y \in Subtree(parent, p)
      BY <1>1, <3>2, <3>3, SubtreeClosed DEF ClosedUnderChildren
    <3>4. ASSUME parent[y] = NoPub, NEW z \in Pub, Named(y, z)
          PROVE  FALSE
      <4>1. parent[y] = z
        BY <2>1, <3>2, <3>4 DEF ChainInv
      <4>2. QED
        BY <1>3, <3>4, <4>1
    <3>5. QED
      BY <3>3, <3>4
  <2>4. QED
    BY <2>2, <2>3
<1>7. q \in S
  <2>1. Subtree(NamedParent, p) \subseteq S
    <3>1. S \in SUBSET Pub /\ p \in Pub
      BY <1>1
    <3>2. QED
      BY <1>5, <1>6, <3>1, SubtreeLeast
  <2>2. QED
    BY <2>1
<1>8. CASE q \in Subtree(parent, p)
  <2>1. p \in Subtree(parent, p)
    BY <1>1, SubtreeClosed
  <2>2. QED
    BY <1>1, <1>8, <2>1 DEF OneLatest
<1>9. ASSUME parent[q] = NoPub, NEW y \in Pub, Named(q, y)
      PROVE  FALSE
  <2>1. PICK s \in Run : \E d \in Docs(s) : d.id = q /\ d.supersedes = NoPub
    BY <1>9 DEF FirstInv
  <2>2. QED
    BY <1>9, <2>1 DEF OldestFirstLists, SamePredecessors, Named
<1>10. QED
  BY <1>7, <1>8, <1>9

-----------------------------------------------------------------------------
(* The versions of every run, together.                                    *)

\* Inductive, given the invariant behind the other theorems.
VersionsInv ==
    /\ \A r \in Run : FeedInv(r)
    /\ ListsAgree => \A r \in Run : LinkedInv(r)
    /\ PlacedInv
    /\ WholeListsNewestLatest
    /\ FirstInv
    /\ ChainInv

LEMMA InitVersions == Init => VersionsInv
<1> SUFFICES ASSUME Init
             PROVE  VersionsInv
  OBVIOUS
<1>1. \A r \in Run : FeedInv(r) /\ LinkedInv(r)
  BY DEF Init, FeedInv, LinkedInv, Completed, Attaching, NoRow
<1>2. latest = {} /\ \A p \in Pub : parent[p] = NoPub
  BY DEF Init
<1>3. PlacedInv /\ WholeListsNewestLatest /\ FirstInv /\ ChainInv
  BY <1>2, LineageAssumption DEF PlacedInv, WholeListsNewestLatest, NewestLeafLatest, FirstInv,
                                 ChainInv
<1>4. QED
  BY <1>1, <1>3 DEF VersionsInv

LEMMA VersionsStep ==
    ASSUME IInv, VersionsInv, NEW r \in Run, Step(r)
    PROVE  VersionsInv'
<1>1. TypeOK /\ FeedInv(r)
  BY DEF VersionsInv, IInv
<1>2. \A q \in Run : FeedInv(q)'
  BY FeedInvStep DEF VersionsInv
<1>3. ASSUME ListsAgree'
      PROVE  \A q \in Run : LinkedInv(q)'
  <2>1. ListsAgree
    BY <1>1, <1>3, AgreedBefore
  <2>2. QED
    BY <1>1, <2>1, LinkedInvSelf, LinkedInvOthers DEF VersionsInv
<1>4. PlacedInv'
  BY <1>1, PlacedStep DEF VersionsInv
<1>5. WholeListsNewestLatest'
  BY <1>1, WholeStep DEF VersionsInv
<1>6. FirstInv'
  BY <1>1, FirstStep DEF VersionsInv
<1>7. ChainInv'
  BY <1>1, ChainStep DEF VersionsInv
<1>8. QED
  BY <1>2, <1>3, <1>4, <1>5, <1>6, <1>7 DEF VersionsInv

LEMMA VersionsStutter ==
    ASSUME VersionsInv, UNCHANGED vars
    PROVE  VersionsInv'
<1>1. /\ UNCHANGED <<parent, latest, pc, feed, doc, verdict, runRow>>
  BY DEF vars, dbVars, localVars
<1>2. \A r \in Run : (FeedInv(r) => FeedInv(r)') /\ (LinkedInv(r) => LinkedInv(r)')
  BY <1>1 DEF FeedInv, LinkedInv, LinkedSoFar, AllLinked, IsLinked, Completed, Current, Batch
<1>3. (ListsAgree' => ListsAgree) /\ (OldestFirstLists' => OldestFirstLists)
  BY <1>1 DEF ListsAgree, OldestFirstLists, OldestFirst, SamePredecessors, Named, Docs
<1>4. PlacedInv' /\ FirstInv' /\ ChainInv'
  BY <1>1, <1>3 DEF VersionsInv, PlacedInv, FirstInv, ChainInv, Named, Docs
<1>5. WholeListsNewestLatest'
  BY <1>1, <1>3 DEF VersionsInv, WholeListsNewestLatest, NewestLeafLatest, Whole, Root,
                    LatestLeaf, Leaves, Subtree, ClosedUnderChildren
<1>6. QED
  BY <1>2, <1>3, <1>4, <1>5 DEF VersionsInv

LEMMA VersionsInductive == Spec => []VersionsInv
<1>1. ASSUME IInv, VersionsInv, [Next]_vars
      PROVE  VersionsInv'
  BY <1>1, VersionsStep, VersionsStutter DEF Next, AllStopped, Step
<1>2. QED
  BY <1>1, InitVersions, Inductive, PTL DEF Spec

\* A run recorded COMPLETED has linked each version to the predecessor its list holds, and
\* no later run undoes that unless its list says otherwise.
THEOREM CompletedLinked == Spec => []CompletedLinksVersions
<1>1. VersionsInv => CompletedLinksVersions
  BY DEF VersionsInv, LinkedInv, AllLinked, IsLinked, CompletedLinksVersions, Docs
<1>2. QED
  BY <1>1, VersionsInductive, PTL

\* While every list is whole and none moves a version, each lineage with links has its
\* newest leaf as latest version, whichever runs were interrupted, repeated or concurrent.
THEOREM WholeListsElect == Spec => []WholeListsNewestLatest
<1>1. VersionsInv => WholeListsNewestLatest
  BY DEF VersionsInv
<1>2. QED
  BY <1>1, VersionsInductive, PTL

\* While every list is oldest first and none names other predecessors, a version and one it
\* supersedes are never latest together, between no two steps of any runs.
THEOREM OldestFirstApart == Spec => []OldestFirstOneDeclared
<1>1. IInv /\ VersionsInv => OldestFirstOneDeclared
  BY DeclaredApart DEF VersionsInv
<1>2. QED
  BY <1>1, VersionsInductive, Inductive, PTL
-----------------------------------------------------------------------------
(* What a run leaves on record.                                            *)

\* A run that has returned or raised is not RUNNING, and one yet to start has no row.
RecordInv(r) ==
    /\ pc[r] = "idle" => runRow[r].status = "none"
    /\ pc[r] \in {"done", "raised"} => runRow[r].status # "RUNNING"

LEMMA RecordInvSelf ==
    ASSUME "escape" \notin Faults, TypeOK, NEW r \in Run, RecordInv(r), Step(r)
    PROVE  RecordInv(r)'
<1> USE DEF TypeOK, Jump, Goto, RecordInv
<1>1. CASE Start(r)
  BY <1>1 DEF Start, StartRun
<1>2. CASE FinishRun(r)
  <2>1. runRow'[r].status = verdict[r] /\ verdict[r] # "RUNNING" /\ pc'[r] # "idle"
    BY <1>2 DEF FinishRun, Terminal
  <2>2. QED
    BY <2>1
<1>3. CASE RefuseRun(r)
  BY <1>3 DEF RefuseRun, dbVars
<1>4. CASE (Progress(r) /\ ~ FinishRun(r)) \/ (Fault(r) /\ ~ RefuseRun(r))
  <2>1. pc'[r] \notin {"idle", "done", "raised"}
    BY <1>4 DEF Progress, EnsureReady, Discover, EnsurePublication, UpsertsDone, LinkNothing,
                LinkPredecessor, PredecessorMissing, MarkUnresolved, NextDocOf, LinksDone,
                SkipAttachment, NeedAttachment, Download, FindRawObject, PutBlob,
                InsertRawObject, BindArtifact, AttachmentEnds, NextDocument, AttachmentsDone,
                Fault, StorageNotReady, SourceFails, DatabaseFails, AttachmentFails, Escape,
                Crash, Attaching, localVars
  <2>2. QED
    BY <2>1
<1>5. QED
  BY <1>1, <1>2, <1>3, <1>4 DEF Step

\* Where no exception passes the handlers of ingest, an exception that leaves it is on the
\* record of the run: StorageError, SourceError, SQLAlchemyError and the failures of
\* attachments all reach _finish_run, before or instead of the raise. The run escape shows
\* the one way round it.
THEOREM HandledIsRecorded ==
    ASSUME "escape" \notin Faults
    PROVE  Spec => []FailureRecorded
<1>1. Init => \A r \in Run : RecordInv(r)
  BY DEF Init, RecordInv, NoRow
<1>2. ASSUME TypeOK, \A r \in Run : RecordInv(r), [Next]_vars
      PROVE  (\A r \in Run : RecordInv(r))'
  <2>1. CASE \E r \in Run : Step(r)
    <3>1. PICK r \in Run : Step(r)
      BY <2>1
    <3>2. ASSUME NEW q \in Run \ {r}
          PROVE  RecordInv(q)'
      <4>1. pc'[q] = pc[q] /\ runRow'[q] = runRow[q]
        BY <1>2, <3>1, OthersUntouched, OthersRecorded
      <4>2. QED
        BY <1>2, <4>1 DEF RecordInv
    <3>3. RecordInv(r)'
      BY <1>2, <3>1, RecordInvSelf
    <3>4. QED
      BY <3>2, <3>3
  <2>2. CASE UNCHANGED vars
    BY <1>2, <2>2 DEF vars, dbVars, RecordInv
  <2>3. QED
    BY <1>2, <2>1, <2>2 DEF Next, AllStopped, Step
<1>3. (\A r \in Run : RecordInv(r)) => FailureRecorded
  BY DEF RecordInv, FailureRecorded
<1>4. QED
  BY <1>1, <1>2, <1>3, TypeCorrect, PTL DEF Spec

=============================================================================
