------------------------- MODULE PublishDialogProofs -------------------------
(***************************************************************************)
(* Proofs about the dialog of PublishLayer, for every number of publishes  *)
(* and every environment: what its user is told, and what is left running  *)
(* or lying about once it is closed.                                       *)
(***************************************************************************)
EXTENDS PublishProofs

USE DEF Uploads, Algorithms

\* Publishes are numbered in the order they are begun.
StartedInOrder == \A a, b \in Attempts : a < b /\ kind[a] = "none" => kind[b] = "none"

\* Nothing is said of a publish before its end.  An open dialog owes its user
\* word of one publish at most: the one in course or the one it watches.
ToldInv ==
    /\ \A a \in Attempts : kind[a] = "none" \/ InCourse(a) => told[a] = "nothing"
    /\ dlg = "open" =>
          /\ \A a \in Dialog : told[a] = "nothing" => busy /\ (InCourse(a) \/ watch = a)
          /\ \A a, b \in Dialog : told[a] = "nothing" /\ told[b] = "nothing" => a = b

\* Only an open dialog's timer runs, and one that was accepted is done.
WatchInv ==
    /\ timer => dlg = "open"
    /\ dlg = "accepted" => \A a \in Attempts : ~InCourse(a)

\* The publish went well, and its import runs.
Importing(a) == job[a][1] = "active" /\ pc[a] = "over" /\ cause[a] = "none"

\* A job the dialog takes for ended has ended; an open dialog watches every
\* import of its own that runs, or has said that it does not.
ImportInv ==
    /\ \A a \in Attempts : kind[a] \in {"none", "raster"} => job[a][1] # "active"
    /\ \A a \in Dialog : told[a] \in {"published", "error"} => ~Importing(a)
    /\ watch # 0 /\ (seen \in Terminal \/ poll \in Terminal) => job[watch][1] # "active"
    /\ dlg = "open" => \A a \in Dialog : Importing(a) => watch = a \/ told[a] = "pollerror"

\* What is exported whole is staged next, and goes there or is stuck; a half is
\* left by the failed writing of a single layer.
ExportInv(a) ==
    \/ temp[a] = "none"
    \/ temp[a] = "whole" /\ pc[a] = "stage"
    \/ temp[a] = "stuck" /\ May("unlinkfail") /\ pc[a] \notin {"idle", "export", "stage"}
    \/ /\ temp[a] = "half" /\ pc[a] \in {"raised", "over"}
       /\ kind[a] # "batch" /\ cause[a] = "failed" /\ item[a] = "none"

ExportsInv == \A a \in Attempts : ExportInv(a)

UserInv ==
    /\ StartedInOrder /\ ToldInv /\ ToldBeforeNext
    /\ WatchInv /\ ImportInv /\ ClosedLeavesNoImport
PublishInv == IInv /\ UserInv

-----------------------------------------------------------------------------
(* The temporary file                                                      *)

\* Staging, done or failed or cancelled, removes the file or leaves it stuck.
LEMMA StageUnlinks ==
    ASSUME PipelineTypeOK, NEW b \in Attempts, UnlinkStaged(b), ExportInv(b), UNCHANGED env,
           pc'[b] \notin {"idle", "export", "stage"},
           temp[b] # "half"
    PROVE  ExportInv(b)'
<1>1. CASE pc[b] = "stage"
  <2>1. PICK t \in Unlinked : temp' = [temp EXCEPT ![b] = t]
    BY <1>1 DEF UnlinkStaged
  <2>2. temp'[b] = t
    BY <2>1 DEF PipelineTypeOK
  <2> QED
    BY <2>2 DEF Unlinked, ExportInv, May
<1>2. CASE pc[b] # "stage"
  BY <1>2 DEF UnlinkStaged, ExportInv, May
<1> QED
  BY <1>1, <1>2

\* A step of a pipeline, an end or a begin keeps what holds of an export.
LEMMA ExportStep ==
    ASSUME IInv, ExportsInv, [Next]_vars, NEW b \in Attempts
    PROVE  ExportInv(b)'
<1>0. /\ PipelineTypeOK /\ ExportInv(b) /\ CauseAndPlace(b) /\ ItemIsHeld(b)
      /\ UNCHANGED env
  BY DEF IInv, TypeOK, AttemptInv, ExportsInv, Next, vars, pipelineVars
<1>1. ASSUME UNCHANGED <<item, kind, pc, temp, cause>> PROVE ExportInv(b)'
  BY <1>0, <1>1 DEF ExportInv, May
<1>2. ASSUME NEW a \in Attempts, PipelineStep(a) PROVE ExportInv(b)'
  <2>1. CASE a # b
    <3>1. /\ item'[b] = item[b] /\ kind' = kind /\ pc'[b] = pc[b]
          /\ temp'[b] = temp[b] /\ cause'[b] = cause[b]
      BY <1>0, <1>2, <2>1
         DEF PipelineTypeOK, PipelineStep, SeeCancel, CallFails, DeleteItemQuietly, CreateItem,
             Export, Stage, Probe, Enqueue, EnqueuedAll, CheckSpace, Presign, Upload, Finalize, Go,
             Raise, UnlinkStaged, portalVars
    <3> QED
      BY <1>0, <3>1 DEF ExportInv, May
  <2>2. CASE SeeCancel(b) \/ CallFails(b) \/ Stage(b)
    <3>1. UnlinkStaged(b) /\ pc'[b] \in {"clean", "raised", "probe"} /\ temp[b] # "half"
      BY <1>0, <2>2 DEF SeeCancel, CallFails, Stage, Raise, Go, PipelineTypeOK, ExportInv
    <3> QED
      BY <1>0, <3>1, StageUnlinks
  <2>3. CASE Export(b)
    <3>1. pc[b] = "export" /\ item'[b] = "none" /\ kind' = kind
      BY <1>0, <2>3 DEF Export, ItemIsHeld, Early, portalVars
    <3>2. CASE Go(b, "export", "stage") /\ temp' = [temp EXCEPT ![b] = "whole"]
      BY <1>0, <3>2 DEF Go, ExportInv, PipelineTypeOK
    <3>3. ASSUME Raise(b, "failed"), NEW t \in HalfWritten(kind[b]), temp' = [temp EXCEPT ![b] = t]
          PROVE  ExportInv(b)'
      <4>1. pc'[b] = "raised" /\ cause'[b] = "failed" /\ temp'[b] = t
        BY <1>0, <3>1, <3>3 DEF Raise, Guarded, PipelineTypeOK
      <4> QED
        BY <1>0, <3>1, <4>1 DEF HalfWritten, Unlinked, ExportInv, May
    <3> QED
      BY <2>3, <3>2, <3>3 DEF Export
  <2>4. CASE DeleteItemQuietly(b) \/ CreateItem(b) \/ Probe(b) \/ Enqueue(b) \/ EnqueuedAll(b)
             \/ CheckSpace(b) \/ Presign(b) \/ Upload(b) \/ Finalize(b)
    <3>1. /\ pc[b] \notin {"stage", "raised", "over"} /\ temp' = temp
          /\ pc'[b] \notin {"idle", "export", "stage"}
      BY <1>0, <2>4 DEF DeleteItemQuietly, CreateItem, Probe, Enqueue, EnqueuedAll, CheckSpace,
                        Presign, Upload, Finalize, Go, Raise, PipelineTypeOK
    <3> QED
      BY <1>0, <3>1 DEF ExportInv, May
  <2> QED
    BY <1>2, <2>1, <2>2, <2>3, <2>4 DEF PipelineStep
<1>3. ASSUME NEW a \in Attempts, Callback(a) \/ WaitForImportJob(a) PROVE ExportInv(b)'
  <2>1. /\ UNCHANGED <<item, kind, temp, cause>>
        /\ pc'[b] = pc[b] \/ (pc[b] \in {"returned", "raised", "waiting"} /\ pc'[b] \in {"waiting", "over"})
        /\ pc[b] = "raised" => pc'[b] \in {"raised", "over"}
    BY <1>0, <1>3 DEF Callback, VectorDone, PublishFailed, RasterDone, AlgorithmFailed,
                      AlgorithmReturned, AlgorithmPublished, WaitForImportJob, Ended, EndedQuietly,
                      Go, portalVars, PipelineTypeOK
  <2> QED
    BY <1>0, <2>1 DEF ExportInv, May
<1>4. ASSUME NEW a \in Attempts, NEW k, Begin(a, k) PROVE ExportInv(b)'
  <2>1. CASE a = b
    <3>1. pc[b] = "idle" /\ temp' = temp
      BY <1>0, <1>4, <2>1 DEF Begin, Fresh, CauseAndPlace
    <3> QED
      BY <1>0, <3>1 DEF ExportInv
  <2>2. CASE a # b
    <3>1. /\ item' = item /\ kind'[b] = kind[b] /\ pc'[b] = pc[b] /\ temp' = temp /\ cause' = cause
      BY <1>0, <1>4, <2>2 DEF Begin, PipelineTypeOK, portalVars
    <3> QED
      BY <1>0, <3>1 DEF ExportInv, May
  <2> QED
    BY <2>1, <2>2
<1>5. ASSUME NEW a \in Attempts, Portal(a) \/ CancelJob(a) PROVE ExportInv(b)'
  BY <1>1, <1>5 DEF Portal, JobEnds, CancelJob, workerVars
<1>6. CASE Poll
  BY <1>1, <1>6 DEF Poll, PollOnce, PollRead, PollDone, PollFailed, pipelineVars
<1>7. CASE User
  BY <1>1, <1>4, <1>7 DEF User, PressPublish, StartAlgorithm, CancelTask, Reject, RemoveConnection,
                          portalVars, pipelineVars
<1>8. CASE UNCHANGED vars
  BY <1>1, <1>8 DEF vars, pipelineVars
<1> QED
  BY <1>2, <1>3, <1>5, <1>6, <1>7, <1>8 DEF Next, Worker

\* A temporary GeoPackage outlives its publish in two cases only: it is the half
\* of a single layer whose writing failed, or its removal failed.  A whole export
\* is never left, nor is a half of several layers, on any path.
THEOREM ExportsGo == Spec => []ExportIsRemoved
<1>1. Init => ExportsInv
  BY DEF Init, PipelineInit, ExportsInv, ExportInv
<1>2. IInv /\ ExportsInv /\ [Next]_vars => ExportsInv'
  BY ExportStep DEF ExportsInv
<1>3. ExportsInv => ExportIsRemoved
  BY DEF ExportsInv, ExportInv, ExportIsRemoved
<1> QED
  BY <1>1, <1>2, <1>3, InvHolds, PTL DEF Spec

-----------------------------------------------------------------------------
(* What the dialog says and leaves                                         *)

\* A step beside the dialog, one that says nothing of a publish of its own,
\* begins, ends or imports none, and withdraws no cancel request.
LEMMA Aside ==
    ASSUME PublishInv, UNCHANGED <<dlg, busy, watch, seen, timer, poll, kind>>,
           connected' => connected,
           \A b \in Attempts : kind[b] \notin Algorithms => told'[b] = told[b],
           \A b \in Attempts : InCourse(b)' <=> InCourse(b),
           \A b \in Dialog : Importing(b)' => Importing(b),
           \A b \in Attempts : kind[b] \in {"none", "raster"} \/ b = watch =>
               (job'[b][1] = "active" => job[b][1] = "active"),
           \A b \in Attempts : cancelReq[b] \in {"sent", "failed"} =>
               cancelReq'[b] \in {"sent", "failed"} \/ job'[b][1] # "active"
    PROVE  UserInv'
<1>1. /\ IInv /\ StartedInOrder /\ ToldInv /\ ToldBeforeNext /\ WatchInv /\ ImportInv
      /\ ClosedLeavesNoImport
  BY DEF PublishInv, UserInv
<1>2. watch # 0 => watch \in Attempts
  BY <1>1, WatchIsOver
<1>3. Dialog' = Dialog /\ \A b \in Dialog : b \in Attempts /\ kind[b] \in {"vector", "raster"}
  BY DEF Dialog
<1>4. StartedInOrder'
  BY <1>1 DEF StartedInOrder
<1>5. ToldInv'
  <2>1. \A b \in Attempts : kind[b] = "none" \/ InCourse(b) => told'[b] = told[b]
    BY DEF InCourse
  <2> QED
    BY <1>1, <1>3, <2>1 DEF ToldInv
<1>6. ToldBeforeNext'
  BY <1>1, <1>3 DEF ToldBeforeNext
<1>7. WatchInv'
  BY <1>1 DEF WatchInv
<1>8. ImportInv'
  BY <1>1, <1>2, <1>3 DEF ImportInv
<1>9. ClosedLeavesNoImport'
  <2> SUFFICES ASSUME dlg = "closed", connected', NEW b \in Dialog, Importing(b)'
               PROVE  cancelReq'[b] \in {"sent", "failed"} \/ told'[b] = "pollerror"
    BY <1>3 DEF ClosedLeavesNoImport, Importing
  <2>1. Importing(b)
    BY <1>3
  <2>2. cancelReq[b] \in {"sent", "failed"} \/ told[b] = "pollerror"
    BY <1>1, <2>1 DEF ClosedLeavesNoImport, Importing
  <2> QED
    BY <1>3, <2>2 DEF Importing
<1> QED
  BY <1>4, <1>5, <1>7, <1>8, <1>9, <1>6 DEF UserInv

\* The worker of a publish, the portal's, and whoever cancels: all beside it.
LEMMA WorkAside ==
    ASSUME PublishInv, NEW a \in Attempts,
           \/ PipelineStep(a) /\ UNCHANGED <<dialogVars, connected, toldVars>>
           \/ AlgorithmFailed(a) \/ AlgorithmReturned(a) \/ AlgorithmPublished(a) \/ WaitForImportJob(a)
           \/ Portal(a) \/ CancelJob(a)
           \/ CancelTask(a) /\ UNCHANGED <<dialogVars, connected, toldVars>>
    PROVE  UserInv'
<1>0. /\ IInv /\ TypeOK /\ PipelineTypeOK /\ CauseAndPlace(a)
      /\ watch # 0 => watch \in Attempts /\ pc[watch] = "over"
  BY WatchIsOver DEF PublishInv, IInv, TypeOK, AttemptInv
<1>1. 1 \in Layers
  BY BoundAssumption DEF Layers
<1>2. CASE PipelineStep(a) /\ UNCHANGED <<dialogVars, connected, toldVars>>
  <2>1. /\ kind' = kind /\ pc[a] # "over" /\ pc'[a] # "over"
        /\ \A b \in Attempts : b # a => pc'[b] = pc[b] /\ cause'[b] = cause[b] /\ job'[b] = job[b]
    BY <1>0, <1>2
       DEF PipelineTypeOK, PipelineStep, SeeCancel, CallFails, DeleteItemQuietly, CreateItem,
           Export, Stage, Probe, Enqueue, EnqueuedAll, CheckSpace, Presign, Upload, Finalize, Go,
           Raise, Guarded, portalVars
  <2>2. kind[a] \in {"none", "raster"} /\ job'[a][1] = "active" => job[a][1] = "active"
    <3>1. CASE DeleteItemQuietly(a)
      BY <1>0, <1>1, <3>1 DEF DeleteItemQuietly, PipelineTypeOK
    <3>2. CASE ~DeleteItemQuietly(a)
      BY <1>0, <1>2, <3>2
         DEF PipelineStep, SeeCancel, CallFails, CreateItem, Export, Stage, Probe, Enqueue,
             EnqueuedAll, CheckSpace, Presign, Upload, Finalize, portalVars, CauseAndPlace
    <3> QED
      BY <3>1, <3>2
  <2>3. \A b \in Attempts : (InCourse(b)' <=> InCourse(b)) /\ (Importing(b)' => Importing(b))
    BY <2>1 DEF InCourse, Importing
  <2>4. \A b \in Attempts : kind[b] \in {"none", "raster"} \/ b = watch =>
            (job'[b][1] = "active" => job[b][1] = "active")
    <3>1. a # watch
      BY <1>0, <2>1 DEF Attempts
    <3> QED
      BY <2>1, <2>2, <3>1
  <2>5. UNCHANGED <<dlg, busy, watch, seen, timer, poll, kind, connected, told, cancelReq>>
    BY <1>2, <2>1 DEF dialogVars, toldVars
  <2> QED
    BY <2>3, <2>4, <2>5, Aside DEF Dialog
<1>3. CASE AlgorithmFailed(a) \/ AlgorithmReturned(a) \/ AlgorithmPublished(a) \/ WaitForImportJob(a)
  <2>1. kind[a] \in Algorithms
    BY <1>0, <1>3 DEF AlgorithmFailed, AlgorithmReturned, AlgorithmPublished, WaitForImportJob, Go, CauseAndPlace
  <2>2. /\ UNCHANGED <<dialogVars, connected, kind, job, cause>>
        /\ \A b \in Attempts : b # a => pc'[b] = pc[b] /\ told'[b] = told[b]
    BY <1>0, <1>3 DEF AlgorithmFailed, AlgorithmReturned, AlgorithmPublished, WaitForImportJob, Ended, Go, Tell,
                      EndedQuietly, portalVars, toldVars, TypeOK, PipelineTypeOK
  <2>3. \A b \in Attempts : (InCourse(b)' <=> InCourse(b)) /\ (kind[b] \notin Algorithms => told'[b] = told[b])
    BY <2>1, <2>2 DEF InCourse
  <2>4. \A b \in Dialog : Importing(b)' => Importing(b)
    BY <2>1, <2>2 DEF Importing, Dialog
  <2> QED
    BY <2>1, <2>2, <2>3, <2>4, Aside DEF dialogVars
<1>4. CASE Portal(a)
  <2>1. PICK k \in Layers, s \in {"succeeded", "failed"} : job' = [job EXCEPT ![a][k] = s]
    BY <1>4 DEF Portal, JobEnds
  <2>2. \A b \in Attempts : job'[b][1] = "active" => job[b][1] = "active"
    BY <1>0, <1>1, <2>1 DEF PipelineTypeOK
  <2>3. UNCHANGED <<dialogVars, connected, toldVars, workerVars>>
    BY <1>4 DEF Portal, JobEnds
  <2> QED
    BY <2>2, <2>3, Aside DEF Dialog, InCourse, Importing, dialogVars, toldVars, workerVars
<1>5. CASE CancelJob(a)
  <2>1. \A b \in Attempts : job'[b][1] = "active" => job[b][1] = "active"
    BY <1>0, <1>1, <1>5 DEF CancelJob, PipelineTypeOK
  <2>2. /\ UNCHANGED <<dlg, busy, watch, seen, timer, poll, connected, toldVars, workerVars>>
        /\ cancelReq'[a] = "failed" \/ job'[a][1] # "active"
        /\ \A b \in Attempts : b # a => cancelReq'[b] = cancelReq[b]
    BY <1>0, <1>1, <1>5 DEF CancelJob, TypeOK, PipelineTypeOK
  <2> QED
    BY <2>1, <2>2, Aside DEF Dialog, InCourse, Importing, toldVars, workerVars
<1>6. CASE CancelTask(a) /\ UNCHANGED <<dialogVars, connected, toldVars>>
  BY <1>6, Aside DEF CancelTask, InCourse, Importing, dialogVars, toldVars, portalVars
<1> QED
  BY <1>2, <1>3, <1>4, <1>5, <1>6

\* A publish begins: of the dialog only when nothing is owed, or of an algorithm.
LEMMA BeginTells ==
    ASSUME PublishInv, NEW a \in Attempts, NEW k,
           \/ k \in {"vector", "raster"} /\ PressPublish(a, k)
           \/ k \in Algorithms /\ StartAlgorithm(a, k)
    PROVE  UserInv'
<1>0. /\ IInv /\ TypeOK /\ PipelineTypeOK /\ DialogInv
      /\ StartedInOrder /\ ToldInv /\ ToldBeforeNext /\ WatchInv /\ ImportInv
      /\ ClosedLeavesNoImport
  BY DEF PublishInv, UserInv, IInv, TypeOK
<1>1. /\ kind[a] = "none" /\ kind'[a] \in {"raster"} \cup Uploads
      /\ pc'[a] # "over" /\ pc'[a] # "idle"
      /\ \A b \in Attempts : b # a => kind'[b] = kind[b] /\ pc'[b] = pc[b]
      /\ \A b \in 1 .. a - 1 : kind[b] # "none"
      /\ UNCHANGED <<job, cause, told, dlg, watch, seen, timer, poll, cancelReq, connected>>
  BY <1>0 DEF PressPublish, StartAlgorithm, Begin, Fresh, FirstStep, portalVars, toldVars, dialogVars,
              PipelineTypeOK
<1>2. watch # 0 => watch \in Attempts /\ watch # a
  BY <1>0, <1>1, WatchIsOver
<1>3. told[a] = "nothing" /\ job[a][1] # "active"
  BY <1>0, <1>1 DEF ToldInv, ImportInv
<1>4. StartedInOrder'
  <2> SUFFICES ASSUME NEW b \in Attempts, NEW c \in Attempts, b < c, kind'[b] = "none"
               PROVE  kind'[c] = "none"
    BY DEF StartedInOrder
  <2>1. b # a /\ kind[b] = "none"
    BY <1>1
  <2>2. c # a
    BY <1>1, <2>1 DEF Attempts
  <2> QED
    BY <1>0, <1>1, <2>1, <2>2 DEF StartedInOrder
<1>5. \A b \in Dialog' : b # a => b \in Dialog
  BY <1>1 DEF Dialog
<1>6. ToldInv'
  <2>1. \A b \in Attempts : b # a => InCourse(b)' = InCourse(b)
    BY <1>1 DEF InCourse
  <2>2. CASE k \in {"vector", "raster"} /\ PressPublish(a, k)
    <3>1. ~busy /\ busy' /\ kind'[a] = k
      BY <1>0, <2>2 DEF PressPublish, Begin, PipelineTypeOK
    <3>2. dlg = "open" => \A b \in Dialog' : b # a => told[b] # "nothing"
      BY <1>0, <1>5, <3>1 DEF ToldInv
    <3>3. InCourse(a)'
      BY <1>1, <2>2, <3>1 DEF InCourse
    <3> QED
      BY <1>0, <1>1, <1>3, <2>1, <3>1, <3>2, <3>3 DEF ToldInv
  <2>3. CASE k \in Algorithms /\ StartAlgorithm(a, k)
    <3>1. busy' = busy /\ kind'[a] \in Algorithms
      BY <1>0, <2>3 DEF StartAlgorithm, Begin, dialogVars, PipelineTypeOK
    <3>2. Dialog' = Dialog /\ a \notin Dialog
      BY <1>1, <3>1 DEF Dialog
    <3> QED
      BY <1>0, <1>1, <1>3, <2>1, <3>1, <3>2 DEF ToldInv, Dialog
  <2> QED
    BY <2>2, <2>3
<1>7. ToldBeforeNext'
  <2> SUFFICES ASSUME NEW b \in Dialog', NEW c \in Dialog', b < c PROVE told[b] # "nothing"
    BY <1>1 DEF ToldBeforeNext
  <2>1. CASE c = a
    <3>1. PressPublish(a, k)
      BY <1>0, <2>1 DEF StartAlgorithm, Begin, Dialog, PipelineTypeOK
    <3>2. b # a
      BY <2>1 DEF Dialog, Attempts
    <3> QED
      BY <1>0, <1>5, <3>1, <3>2 DEF PressPublish, ToldInv
  <2>2. CASE c # a
    <3>1. c \in Dialog /\ kind[c] # "none" /\ b # a
      BY <1>0, <1>1, <1>5, <2>2 DEF Dialog, StartedInOrder
    <3> QED
      BY <1>0, <1>5, <3>1 DEF ToldBeforeNext
  <2> QED
    BY <2>1, <2>2
<1>8. WatchInv'
  <2>1. dlg = "accepted" => k \in Algorithms /\ StartAlgorithm(a, k)
    BY DEF PressPublish
  <2>2. k \in Algorithms /\ StartAlgorithm(a, k) => kind'[a] \in Algorithms
    BY <1>0 DEF StartAlgorithm, Begin, PipelineTypeOK
  <2> QED
    BY <1>0, <1>1, <2>1, <2>2 DEF WatchInv, InCourse
<1>9. \A b \in Attempts : Importing(b)' => Importing(b) /\ b # a
  BY <1>1, <1>3 DEF Importing
<1>10. ImportInv'
  BY <1>0, <1>1, <1>2, <1>3, <1>5, <1>9 DEF ImportInv, Dialog
<1>11. ClosedLeavesNoImport'
  BY <1>0, <1>1, <1>3, <1>5 DEF ClosedLeavesNoImport, Dialog
<1> QED
  BY <1>4, <1>6, <1>8, <1>10, <1>11, <1>7 DEF UserInv

\* A publish of the dialog ends.
LEMMA EndTells ==
    ASSUME PublishInv, NEW a \in Attempts, VectorDone(a) \/ PublishFailed(a) \/ RasterDone(a)
    PROVE  UserInv'
<1>0. /\ IInv /\ TypeOK /\ PipelineTypeOK /\ DialogInv /\ CauseAndPlace(a)
      /\ StartedInOrder /\ ToldInv /\ ToldBeforeNext /\ WatchInv /\ ImportInv
      /\ ClosedLeavesNoImport
  BY DEF PublishInv, UserInv, IInv, TypeOK, AttemptInv
<1>1. /\ kind[a] \in {"vector", "raster"} /\ pc[a] # "over" /\ pc'[a] = "over"
      /\ UNCHANGED <<kind, job, cause, poll, connected>>
      /\ \A b \in Attempts : b # a => pc'[b] = pc[b] /\ told'[b] = told[b]
  BY <1>0 DEF VectorDone, PublishFailed, RasterDone, Ended, Go, EndedQuietly, portalVars, toldVars,
              Tell, PipelineTypeOK, TypeOK
<1>2. /\ InCourse(a) /\ a \in Dialog /\ a # 0
  BY <1>1 DEF InCourse, Dialog, Attempts
<1>3. /\ told[a] = "nothing" /\ busy /\ poll = "none" /\ ~timer /\ watch # a
      /\ \A b \in Attempts : InCourse(b) => b = a
      /\ dlg # "accepted"
      /\ dlg = "open" => \A b \in Dialog : b # a => told[b] # "nothing"
  BY <1>0, <1>1, <1>2, WatchIsOver DEF DialogInv, ToldInv, WatchInv
<1>4. Dialog' = Dialog /\ \A b \in Attempts : ~InCourse(b)'
  BY <1>1, <1>3 DEF Dialog, InCourse
<1>5. \A b \in Attempts : b # a => Importing(b)' = Importing(b)
  BY <1>1 DEF Importing
<1>6. StartedInOrder'
  BY <1>0, <1>1 DEF StartedInOrder
<1>7. \A b \in Attempts : kind'[b] = "none" => told'[b] = "nothing"
  BY <1>0, <1>1 DEF ToldInv
<1>8. ToldBeforeNext'
  <2>1. \A b \in Dialog : told'[b] = told[b] \/ told'[b] # "nothing"
    BY <1>0, <1>1 DEF VectorDone, PublishFailed, RasterDone, Tell, toldVars, TypeOK, Dialog
  <2> QED
    BY <1>0, <1>4, <2>1 DEF ToldBeforeNext
<1>9. CASE VectorDone(a)
  <2>1. /\ watch' = a /\ seen' = "active" /\ UNCHANGED <<dlg, busy, told>>
        /\ timer' => dlg = "open"
        /\ \A b \in Attempts : b # a => cancelReq'[b] = cancelReq[b]
        /\ dlg = "closed" /\ connected => cancelReq'[a] = "sent"
    BY <1>0, <1>2, <1>3, <1>9 DEF VectorDone, RequestJobCancel, Terminal, toldVars, TypeOK
  <2>2. ToldInv'
    BY <1>3, <1>4, <1>7, <2>1 DEF ToldInv
  <2>3. WatchInv'
    BY <1>3, <1>4, <2>1 DEF WatchInv
  <2>4. ImportInv'
    <3>1. dlg = "open" => \A b \in Dialog : b # a /\ Importing(b) => told[b] = "pollerror"
      BY <1>0, <1>3, WatchIsOver DEF ImportInv, Dialog, TypeOK
    <3> QED
      BY <1>0, <1>1, <1>3, <1>4, <1>5, <2>1, <3>1 DEF ImportInv, Terminal, Dialog
  <2>5. ClosedLeavesNoImport'
    BY <1>0, <1>1, <1>4, <2>1 DEF ClosedLeavesNoImport, Dialog
  <2> QED
    BY <1>6, <1>8, <2>2, <2>3, <2>4, <2>5 DEF UserInv
<1>10. CASE PublishFailed(a) \/ RasterDone(a)
  <2>1. /\ UNCHANGED <<watch, seen, timer, cancelReq>> /\ ~Importing(a)'
        /\ dlg = "open" => dlg' # "open" \/ told'[a] # "nothing"
        /\ dlg # "open" => dlg' = dlg
        /\ dlg' \in {dlg, "accepted"}
    BY <1>0, <1>1, <1>10
       DEF PublishFailed, RasterDone, Ended, Go, Tell, TypeOK, CauseAndPlace, Importing, ImportInv
  <2>2. ToldInv'
    BY <1>0, <1>3, <1>4, <1>7, <2>1, <1>1 DEF ToldInv, Dialog
  <2>3. WatchInv'
    BY <1>3, <1>4, <2>1 DEF WatchInv
  <2>4. ImportInv'
    BY <1>0, <1>1, <1>3, <1>4, <1>5, <2>1 DEF ImportInv, Dialog
  <2>5. ClosedLeavesNoImport'
    <3> SUFFICES ASSUME dlg' = "closed", connected', NEW b \in Dialog, Importing(b)'
                 PROVE  cancelReq'[b] \in {"sent", "failed"} \/ told'[b] = "pollerror"
      BY <1>4 DEF ClosedLeavesNoImport, Importing
    <3>1. b # a /\ b \in Attempts /\ dlg = "closed" /\ connected /\ Importing(b)
      BY <1>1, <1>3, <1>5, <2>1, <1>0 DEF Dialog, TypeOK
    <3> QED
      BY <1>0, <1>1, <2>1, <3>1 DEF ClosedLeavesNoImport, Importing
  <2> QED
    BY <1>6, <1>8, <2>2, <2>3, <2>4, <2>5 DEF UserInv
<1> QED
  BY <1>9, <1>10

\* The timer fires, an answer comes, the user closes the dialog.
LEMMA PollTells ==
    ASSUME PublishInv, Poll \/ Reject \/ RemoveConnection
    PROVE  UserInv'
<1>0. /\ IInv /\ TypeOK /\ PipelineTypeOK /\ DialogInv
      /\ StartedInOrder /\ ToldInv /\ ToldBeforeNext /\ WatchInv /\ ImportInv
      /\ ClosedLeavesNoImport
  BY DEF PublishInv, UserInv, IInv, TypeOK
<1>1. /\ UNCHANGED <<kind, pc, cause, job>> /\ connected' \in {connected, FALSE}
      /\ watch # 0 => watch \in Dialog /\ ~InCourse(watch)
  BY WatchIsOver, <1>0
     DEF Poll, PollOnce, PollRead, PollDone, PollFailed, Reject, RemoveConnection, pipelineVars,
         Dialog, InCourse
<1>2. /\ Dialog' = Dialog /\ Dialog \subseteq Attempts
      /\ \A b \in Attempts : InCourse(b)' = InCourse(b) /\ Importing(b)' = Importing(b)
  BY <1>1 DEF Dialog, InCourse, Importing
<1>3. StartedInOrder'
  BY <1>0, <1>1 DEF StartedInOrder
<1>4. ToldBeforeNext'
  <2>1. \A b \in Dialog : told'[b] = told[b] \/ told'[b] # "nothing"
    BY <1>0, <1>1, <1>2
       DEF Poll, PollOnce, PollRead, PollDone, PollFailed, JobFinished, Reject, RemoveConnection,
           Tell, toldVars, TypeOK
  <2> QED
    BY <1>0, <1>2, <2>1 DEF ToldBeforeNext
<1>5. CASE PollOnce
  <2>1. /\ UNCHANGED <<dlg, busy, watch, seen, cancelReq, connected, told>>
        /\ timer' => timer
        /\ poll' \in {poll, "sent"}
    BY <1>0, <1>5 DEF PollOnce, toldVars
  <2> QED
    BY <1>0, <1>1, <1>2, <1>3, <1>4, <2>1
       DEF UserInv, ToldInv, WatchInv, ImportInv, ClosedLeavesNoImport, Terminal
<1>6. CASE PollRead
  <2>1. /\ UNCHANGED <<dlg, busy, watch, seen, timer, cancelReq, connected, told>>
        /\ poll' \in Terminal => poll' = job[watch][1]
    BY <1>0, <1>6 DEF PollRead, toldVars, Terminal
  <2>2. ImportInv'
    BY <1>0, <1>1, <1>2, <2>1 DEF ImportInv, Terminal
  <2> QED
    BY <1>0, <1>1, <1>2, <1>3, <1>4, <2>1, <2>2
       DEF UserInv, ToldInv, WatchInv, ClosedLeavesNoImport
<1>7. CASE PollDone /\ ~timer
  <2>1. /\ UNCHANGED <<dlg, busy, watch, seen, timer, cancelReq, connected, told>>
        /\ poll' = "none"
    BY <1>7 DEF PollDone
  <2> QED
    BY <1>0, <1>1, <1>2, <1>3, <1>4, <2>1
       DEF UserInv, ToldInv, WatchInv, ImportInv, ClosedLeavesNoImport, Terminal
<1>8. CASE PollDone /\ timer /\ poll \notin Terminal
  <2>1. /\ UNCHANGED <<dlg, busy, watch, timer, cancelReq, connected, told>>
        /\ poll' = "none" /\ seen' = poll
    BY <1>0, <1>8 DEF PollDone, TypeOK
  <2> QED
    BY <1>0, <1>1, <1>2, <1>3, <1>4, <1>8, <2>1
       DEF UserInv, ToldInv, WatchInv, ImportInv, ClosedLeavesNoImport, Terminal
<1>9. CASE PollDone /\ timer /\ poll \in Terminal
  <2>1. /\ UNCHANGED <<watch, cancelReq, connected>>
        /\ poll' = "none" /\ seen' = poll /\ ~timer'
        /\ dlg = "open" /\ watch # 0
        /\ dlg' \in {"open", "accepted"} /\ told'[watch] \in {"published", "error"}
        /\ \A b \in Attempts : b # watch => told'[b] = told[b]
    BY <1>0, <1>1, <1>2, <1>9 DEF PollDone, JobFinished, Tell, TypeOK, WatchInv, DialogInv
  <2>2. \A b \in Attempts : ~InCourse(b)
    BY <1>0, <1>9 DEF DialogInv
  <2>3. /\ job[watch][1] # "active" /\ ~Importing(watch)
        /\ \A b \in Dialog : b # watch => told[b] # "nothing"
    BY <1>0, <1>1, <1>2, <1>9, <2>1, <2>2 DEF ImportInv, Importing, ToldInv
  <2>4. ToldInv'
    BY <1>0, <1>1, <1>2, <2>1, <2>2, <2>3 DEF ToldInv, Dialog
  <2>5. WatchInv'
    BY <1>2, <2>1, <2>2 DEF WatchInv
  <2>6. ImportInv'
    BY <1>0, <1>1, <1>2, <2>1, <2>2, <2>3 DEF ImportInv, Terminal
  <2>7. ClosedLeavesNoImport'
    BY <2>1 DEF ClosedLeavesNoImport
  <2> QED
    BY <1>3, <1>4, <2>4, <2>5, <2>6, <2>7 DEF UserInv
<1>10. CASE PollFailed
  <2>1. /\ UNCHANGED <<dlg, seen, cancelReq, connected>>
        /\ poll' = "none" /\ ~timer' /\ watch' = 0 /\ watch # 0
        /\ dlg # "open" => told' = told
        /\ dlg = "open" => told'[watch] = "pollerror"
        /\ \A b \in Attempts : b # watch => told'[b] = told[b]
    BY <1>0, <1>1, <1>2, <1>10 DEF PollFailed, Tell, TypeOK, DialogInv
  <2>2. \A b \in Attempts : ~InCourse(b)
    BY <1>0, <1>10 DEF PollFailed, DialogInv
  <2>3. dlg = "open" => \A b \in Dialog : b # watch => told[b] # "nothing"
    BY <1>0, <1>2, <2>2 DEF ToldInv
  <2>4. ToldInv'
    BY <1>0, <1>1, <1>2, <2>1, <2>2, <2>3 DEF ToldInv, Dialog
  <2>5. WatchInv'
    BY <1>2, <2>1, <2>2 DEF WatchInv
  <2>6. ImportInv'
    BY <1>0, <1>1, <1>2, <2>1, <2>2, <2>3 DEF ImportInv, Terminal
  <2>7. ClosedLeavesNoImport'
    BY <1>0, <1>1, <1>2, <2>1 DEF ClosedLeavesNoImport
  <2> QED
    BY <1>3, <1>4, <2>4, <2>5, <2>6, <2>7 DEF UserInv
<1>11. CASE Reject
  <2>1. /\ UNCHANGED <<busy, watch, seen, poll, connected, told>>
        /\ dlg = "open" /\ dlg' = "closed" /\ ~timer'
        /\ \A b \in Attempts : b # watch => cancelReq'[b] = cancelReq[b]
        /\ connected /\ watch # 0 /\ seen \notin Terminal => cancelReq'[watch] = "sent"
    BY <1>0, <1>1, <1>2, <1>11 DEF Reject, RequestJobCancel, toldVars, TypeOK
  <2>2. ToldInv' /\ WatchInv' /\ ImportInv'
    BY <1>0, <1>1, <1>2, <2>1 DEF ToldInv, WatchInv, ImportInv
  <2>3. ClosedLeavesNoImport'
    <3> SUFFICES ASSUME connected, NEW b \in Dialog, Importing(b), told[b] # "pollerror"
                 PROVE  cancelReq'[b] = "sent"
      BY <1>1, <1>2, <2>1 DEF ClosedLeavesNoImport, Importing
    <3>1. b = watch /\ b # 0
      BY <1>0, <1>2, <2>1 DEF ImportInv, Attempts
    <3> QED
      BY <1>0, <2>1, <3>1 DEF ImportInv, Importing
  <2> QED
    BY <1>3, <1>4, <2>2, <2>3 DEF UserInv
<1>12. CASE RemoveConnection
  BY <1>2, <1>12, Aside DEF RemoveConnection, pipelineVars, dialogVars, toldVars, Dialog
<1> QED
  BY <1>0, <1>5, <1>6, <1>7, <1>8, <1>9, <1>10, <1>11, <1>12 DEF Poll, TypeOK

-----------------------------------------------------------------------------
\* All of it is inductive.
LEMMA UserInvHolds == Spec => []PublishInv
<1>1. Init => UserInv
  <2> SUFFICES ASSUME Init PROVE UserInv
    OBVIOUS
  <2> USE DEF Init, PipelineInit
  <2>1. Dialog = {} /\ \A a \in Attempts : ~InCourse(a)
    BY DEF Dialog, InCourse
  <2>2. StartedInOrder /\ ToldInv /\ ToldBeforeNext /\ WatchInv /\ ClosedLeavesNoImport
    BY <2>1 DEF StartedInOrder, ToldInv, ToldBeforeNext, WatchInv, ClosedLeavesNoImport
  <2>3. ImportInv
    BY <2>1, BoundAssumption DEF ImportInv, Layers
  <2> QED
    BY <2>2, <2>3 DEF UserInv
<1>2. PublishInv /\ [Next]_vars => UserInv'
  <2> SUFFICES ASSUME PublishInv, [Next]_vars PROVE UserInv'
    OBVIOUS
  <2>1. CASE UNCHANGED vars
    BY <2>1, Aside DEF vars, dialogVars, pipelineVars, toldVars, InCourse, Importing, Dialog
  <2>2. ASSUME NEW a \in Attempts, Worker(a) \/ Portal(a) \/ CancelJob(a) PROVE UserInv'
    BY <2>2, WorkAside, EndTells DEF Worker, Callback
  <2>3. CASE User
    <3>1. ASSUME NEW a \in Attempts, NEW k \in {"vector", "raster"}, PressPublish(a, k) PROVE UserInv'
      BY <3>1, BeginTells
    <3>2. ASSUME NEW a \in Attempts, NEW k \in Algorithms, StartAlgorithm(a, k) PROVE UserInv'
      BY <3>2, BeginTells
    <3> QED
      BY <2>3, <3>1, <3>2, WorkAside, PollTells DEF User
  <2> QED
    BY <2>1, <2>2, <2>3, PollTells DEF Next
<1>3. PublishInv /\ [Next]_vars => IInv'
  BY InvStep DEF PublishInv
<1> QED
  BY <1>1, <1>2, <1>3, InvInit, PTL DEF Spec, PublishInv

\* A dialog that was closed leaves no import running unwatched, unless the
\* cancel failed, the connection was removed, or the dialog had said that it
\* lost sight of the job.
THEOREM ClosedStopsImports == Spec => []ClosedLeavesNoImport
<1>1. PublishInv => ClosedLeavesNoImport
  BY DEF PublishInv, UserInv
<1> QED
  BY <1>1, UserInvHolds, PTL

\* The dialog begins a publish only when its user knows how the one before ended.
THEOREM ToldFirst == Spec => []ToldBeforeNext
<1>1. PublishInv => ToldBeforeNext
  BY DEF PublishInv, UserInv
<1> QED
  BY <1>1, UserInvHolds, PTL

\* Nothing is said to a user who has closed the dialog, of a publish or of a
\* poll: a late answer finds the timer stopped.
THEOREM ClosedIsQuiet == Spec => QuietAfterClose
<1>1. PublishInv /\ [Next]_vars =>
        [\A a \in Attempts :
            dlg = "closed" /\ kind[a] \in {"vector", "raster"} => told'[a] = told[a]]_vars
  <2> SUFFICES ASSUME PublishInv, Next, dlg = "closed", NEW a \in Attempts,
                      kind[a] \in {"vector", "raster"}
               PROVE  told'[a] = told[a]
    OBVIOUS
  <2>0. TypeOK /\ CauseAndPlace(a) /\ ~timer
    BY DEF PublishInv, UserInv, IInv, WatchInv, AttemptInv
  <2>1. ASSUME NEW b \in Attempts, Worker(b) PROVE told'[a] = told[a]
    <3>1. CASE PipelineStep(b) /\ UNCHANGED <<dialogVars, connected, toldVars>>
      BY <3>1 DEF toldVars
    <3>2. CASE VectorDone(b) \/ PublishFailed(b) \/ RasterDone(b)
      BY <3>2 DEF VectorDone, PublishFailed, RasterDone, toldVars
    <3>3. CASE AlgorithmFailed(b) \/ AlgorithmReturned(b) \/ AlgorithmPublished(b) \/ WaitForImportJob(b)
      <4>1. kind[b] \in Algorithms
        BY <3>3 DEF AlgorithmFailed, AlgorithmReturned, AlgorithmPublished, WaitForImportJob, Go, PublishInv, IInv,
                    AttemptInv, CauseAndPlace
      <4> QED
        BY <2>0, <3>3, <4>1 DEF AlgorithmFailed, AlgorithmReturned, AlgorithmPublished, WaitForImportJob, Tell,
                                TypeOK, toldVars
    <3> QED
      BY <2>1, <3>1, <3>2, <3>3 DEF Worker, Callback
  <2>2. ASSUME NEW b \in Attempts, Portal(b) \/ CancelJob(b) PROVE told'[a] = told[a]
    BY <2>2 DEF Portal, CancelJob, toldVars
  <2>3. CASE Poll
    BY <2>0, <2>3 DEF Poll, PollOnce, PollRead, PollDone, PollFailed, toldVars
  <2>4. CASE User
    BY <2>4 DEF User, PressPublish, StartAlgorithm, CancelTask, Reject, RemoveConnection, toldVars
  <2> QED
    BY <2>1, <2>2, <2>3, <2>4 DEF Next
<1> QED
  BY <1>1, UserInvHolds, PTL DEF Spec, QuietAfterClose

-----------------------------------------------------------------------------
(* The promise                                                             *)

Away == dlg = "closed" \/ ~connected

\* The timer runs for a publish its user waits to hear of; an answer is awaited
\* only while it runs.  Until the dialog is closed, what its user has not been
\* told is watched by the timer, unless the connection was removed.
HeardInv ==
    /\ timer => told[watch] = "nothing"
    /\ dlg # "closed" =>
          /\ poll # "none" => timer
          /\ \A a \in Dialog : told[a] = "nothing" /\ pc[a] = "over" =>
                watch = a /\ (timer \/ ~connected)
    /\ \A a \in Attempts : kind[a] \in Algorithms /\ pc[a] # "over" => told[a] = "nothing"

\* A step that leaves the dialog alone, ends no publish of its, and says of no
\* algorithm's publish anything before its end.
LEMMA HeardFrame ==
    ASSUME IInv, HeardInv, UNCHANGED <<dlg, watch, timer, poll>>, connected' => connected,
           \A b \in Attempts : kind'[b] = kind[b] \/ (kind[b] = "none" /\ pc'[b] # "over"),
           \A b \in Attempts : kind[b] \notin Algorithms => told'[b] = told[b],
           \A b \in Dialog : pc'[b] = "over" => pc[b] = "over",
           \A b \in Attempts : kind'[b] \in Algorithms /\ pc'[b] # "over" => told'[b] = "nothing"
    PROVE  HeardInv'
<1>1. timer => watch \in Attempts /\ kind[watch] = "vector"
  BY WatchIsOver DEF IInv, DialogInv
<1>2. timer' => told'[watch'] = "nothing"
  BY <1>1 DEF HeardInv
<1>3. ASSUME dlg' # "closed", NEW a \in Dialog', told'[a] = "nothing", pc'[a] = "over"
      PROVE  watch' = a /\ (timer' \/ ~connected')
  <2>1. a \in Dialog
    BY <1>3 DEF Dialog
  <2>2. told[a] = "nothing" /\ pc[a] = "over"
    BY <1>3, <2>1 DEF Dialog
  <2> QED
    BY <1>3, <2>1, <2>2 DEF HeardInv
<1> QED
  BY <1>2, <1>3 DEF HeardInv

\* A callback of the dialog.
LEMMA EndHeard ==
    ASSUME PublishInv, HeardInv, NEW a \in Attempts, VectorDone(a) \/ PublishFailed(a) \/ RasterDone(a)
    PROVE  HeardInv'
<1>0. /\ IInv /\ TypeOK /\ PipelineTypeOK /\ DialogInv /\ ToldInv /\ WatchInv
  BY DEF PublishInv, UserInv, IInv, TypeOK
<1>1. /\ InCourse(a) /\ kind' = kind /\ poll' = poll /\ connected' = connected /\ pc'[a] = "over"
      /\ \A b \in Attempts : b # a => pc'[b] = pc[b] /\ told'[b] = told[b]
  BY <1>0 DEF VectorDone, PublishFailed, RasterDone, Ended, Go, EndedQuietly, portalVars, toldVars,
              Tell, PipelineTypeOK, TypeOK, InCourse
<1>2. ~timer /\ poll = "none" /\ told[a] = "nothing" /\ dlg # "accepted"
  BY <1>0, <1>1 DEF DialogInv, ToldInv, WatchInv
<1>3. Dialog' = Dialog /\ a \in Dialog /\ a \notin {b \in Attempts : kind[b] \in Algorithms}
  BY <1>1 DEF Dialog, InCourse
<1>4. \A b \in Attempts : kind'[b] \in Algorithms /\ pc'[b] # "over" => told'[b] = "nothing"
  BY <1>1, <1>3 DEF HeardInv
<1>5. CASE VectorDone(a)
  <2>1. watch' = a /\ UNCHANGED <<dlg, told>> /\ (dlg # "closed" => timer') /\ (dlg = "closed" => ~timer')
    BY <1>2, <1>5 DEF VectorDone, toldVars
  <2>2. ASSUME dlg # "closed", NEW b \in Dialog, told[b] = "nothing" PROVE b = a
    BY <1>0, <1>2, <1>3, <2>2 DEF ToldInv, TypeOK
  <2> QED
    BY <1>1, <1>2, <1>3, <1>4, <2>1, <2>2 DEF HeardInv
<1>6. CASE PublishFailed(a) \/ RasterDone(a)
  <2>1. /\ UNCHANGED <<watch, timer>> /\ (dlg = "closed" => dlg' = "closed")
        /\ dlg # "closed" => told'[a] # "nothing"
    BY <1>0, <1>6 DEF PublishFailed, RasterDone, Tell, TypeOK
  <2> QED
    BY <1>1, <1>2, <1>3, <1>4, <2>1 DEF HeardInv, Dialog
<1> QED
  BY <1>5, <1>6

\* The timer, the poll and the user's going away.
LEMMA PollHeard ==
    ASSUME PublishInv, HeardInv, Poll \/ Reject \/ RemoveConnection
    PROVE  HeardInv'
<1>0. /\ IInv /\ TypeOK /\ DialogInv /\ WatchInv
      /\ UNCHANGED <<kind, pc>> /\ (connected' => connected)
  BY DEF PublishInv, UserInv, IInv, Poll, PollOnce, PollRead, PollDone, PollFailed, Reject,
         RemoveConnection, pipelineVars
<1>1. watch # 0 => watch \in Attempts /\ kind[watch] = "vector"
  BY <1>0, WatchIsOver
<1>2. Dialog' = Dialog /\ Dialog \subseteq Attempts
  BY <1>0 DEF Dialog
<1>3. \A b \in Attempts : b # watch => told'[b] = told[b]
  BY <1>0, <1>1 DEF Poll, PollOnce, PollRead, PollDone, PollFailed, JobFinished, Tell, Reject,
                    RemoveConnection, toldVars, TypeOK
<1>4. \A b \in Attempts : kind'[b] \in Algorithms /\ pc'[b] # "over" => told'[b] = "nothing"
  <2>1. \A b \in Attempts : kind[b] \in Algorithms => b # watch
    BY <1>1 DEF Attempts
  <2> QED
    BY <1>0, <1>3, <2>1 DEF HeardInv
<1>5. CASE PollOnce
  <2>1. UNCHANGED <<dlg, watch, told>> /\ timer /\ watch # 0 /\ (poll' # "none" => timer')
        /\ (timer' \/ ~connected')
    BY <1>0, <1>5 DEF PollOnce, toldVars, DialogInv
  <2> QED
    BY <1>0, <1>2, <1>4, <2>1 DEF HeardInv
<1>6. CASE PollRead
  <2>1. UNCHANGED <<dlg, watch, told, timer, connected>> /\ poll = "sent"
    BY <1>6 DEF PollRead, toldVars
  <2> QED
    BY <1>0, <1>2, <1>4, <2>1 DEF HeardInv
<1>7. CASE PollDone /\ ~(timer /\ poll \in Terminal)
  <2>1. UNCHANGED <<dlg, watch, told, timer, connected>> /\ poll' = "none"
    BY <1>0, <1>7 DEF PollDone, TypeOK
  <2> QED
    BY <1>0, <1>2, <1>4, <2>1 DEF HeardInv
<1>8. CASE PollDone /\ timer /\ poll \in Terminal
  <2>1. /\ UNCHANGED <<watch, connected>> /\ poll' = "none" /\ ~timer' /\ dlg = "open"
        /\ told'[watch] # "nothing" /\ watch # 0
    BY <1>0, <1>1, <1>8 DEF PollDone, JobFinished, Tell, TypeOK, WatchInv, DialogInv
  <2> QED
    BY <1>0, <1>2, <1>3, <1>4, <2>1 DEF HeardInv
<1>9. CASE PollFailed
  <2>1. /\ UNCHANGED <<dlg, connected>> /\ poll' = "none" /\ ~timer' /\ watch # 0 /\ poll = "error"
        /\ dlg = "open" => told'[watch] # "nothing"
    BY <1>0, <1>1, <1>9 DEF PollFailed, Tell, TypeOK, DialogInv
  <2>2. dlg # "closed" => dlg = "open"
    BY <1>0, <2>1 DEF HeardInv, WatchInv
  <2> QED
    BY <1>0, <1>2, <1>3, <1>4, <2>1, <2>2 DEF HeardInv
<1>10. CASE Reject
  <2>1. dlg' = "closed" /\ ~timer'
    BY <1>10 DEF Reject
  <2> QED
    BY <1>4, <2>1 DEF HeardInv
<1>11. CASE RemoveConnection
  BY <1>0, <1>4, <1>11, HeardFrame DEF RemoveConnection, dialogVars, toldVars
<1> QED
  BY <1>5, <1>6, <1>7, <1>8, <1>9, <1>10, <1>11 DEF Poll

\* Every step keeps it.
LEMMA HeardStep == PublishInv /\ HeardInv /\ [Next]_vars => HeardInv'
<1> SUFFICES ASSUME PublishInv, HeardInv, [Next]_vars PROVE HeardInv'
  OBVIOUS
<1>0. /\ IInv /\ TypeOK /\ PipelineTypeOK /\ ToldInv /\ \A b \in Attempts : CauseAndPlace(b)
  BY DEF PublishInv, UserInv, IInv, TypeOK, AttemptInv
<1>1. \A b \in Attempts : kind[b] \in Algorithms /\ pc[b] # "over" => told[b] = "nothing"
  BY DEF HeardInv
<1>2. ASSUME NEW a \in Attempts, Worker(a) PROVE HeardInv'
  <2>1. CASE PipelineStep(a) /\ UNCHANGED <<dialogVars, connected, toldVars>>
    <3>1. /\ kind' = kind /\ pc[a] # "over" /\ pc'[a] # "over"
          /\ \A b \in Attempts : b # a => pc'[b] = pc[b]
      BY <1>0, <2>1
         DEF PipelineTypeOK, PipelineStep, SeeCancel, CallFails, DeleteItemQuietly, CreateItem,
             Export, Stage, Probe, Enqueue, EnqueuedAll, CheckSpace, Presign, Upload, Finalize, Go,
             Raise, Guarded
    <3> QED
      BY <1>0, <1>1, <2>1, <3>1, HeardFrame DEF dialogVars, toldVars, Dialog
  <2>2. CASE AlgorithmFailed(a) \/ AlgorithmReturned(a) \/ AlgorithmPublished(a) \/ WaitForImportJob(a)
    <3>1. kind[a] \in Algorithms /\ pc[a] # "over"
      BY <1>0, <2>2 DEF AlgorithmFailed, AlgorithmReturned, AlgorithmPublished, WaitForImportJob,
                        Ended, Go, CauseAndPlace
    <3>2. /\ kind' = kind /\ UNCHANGED <<dialogVars, connected>>
          /\ \A b \in Attempts : b # a => pc'[b] = pc[b] /\ told'[b] = told[b]
          /\ pc'[a] # "over" => told'[a] = told[a]
      BY <1>0, <2>2 DEF AlgorithmFailed, AlgorithmReturned, AlgorithmPublished, WaitForImportJob,
                        Ended, Go, Tell, EndedQuietly, toldVars, TypeOK, PipelineTypeOK
    <3> QED
      BY <1>0, <1>1, <3>1, <3>2, HeardFrame DEF dialogVars, Dialog
  <2> QED
    BY <1>2, <2>1, <2>2, EndHeard DEF Worker, Callback
<1>3. ASSUME UNCHANGED <<dlg, watch, timer, poll, connected, kind, pc, told>> PROVE HeardInv'
  BY <1>0, <1>1, <1>3, HeardFrame
<1>4. ASSUME NEW a \in Attempts, Portal(a) \/ CancelJob(a) PROVE HeardInv'
  BY <1>3, <1>4 DEF Portal, JobEnds, CancelJob, workerVars, dialogVars, toldVars
<1>5. ASSUME NEW a \in Attempts, NEW k \in {"vector", "raster"} \cup Algorithms,
             PressPublish(a, k) \/ StartAlgorithm(a, k)
      PROVE  HeardInv'
  <2>1. /\ kind[a] = "none" /\ pc'[a] # "over" /\ UNCHANGED <<dlg, watch, timer, poll, connected, told>>
        /\ \A b \in Attempts : b # a => kind'[b] = kind[b] /\ pc'[b] = pc[b]
    BY <1>0, <1>5 DEF PressPublish, StartAlgorithm, Begin, Fresh, FirstStep, PipelineTypeOK, toldVars,
                      dialogVars
  <2>2. told[a] = "nothing"
    BY <1>0, <2>1 DEF ToldInv
  <2> QED
    BY <1>0, <1>1, <2>1, <2>2, HeardFrame DEF Dialog
<1>6. ASSUME NEW a \in Attempts, CancelTask(a), UNCHANGED <<dialogVars, connected, toldVars>>
      PROVE  HeardInv'
  BY <1>3, <1>6 DEF CancelTask, dialogVars, toldVars
<1>7. CASE UNCHANGED vars
  BY <1>3, <1>7 DEF vars, pipelineVars, dialogVars, toldVars
<1> QED
  BY <1>2, <1>4, <1>5, <1>6, <1>7, PollHeard DEF Next, User

\* Where a publish may go, written out.
LEMMA AfterIs ==
    /\ Promise!After("none") = {"begun"}
    /\ Promise!After("begun") = {"holding", "withdrawn", "orphaned"}
    /\ Promise!After("holding") = {"importing", "complete", "withdrawn", "reported", "left"}
    /\ Promise!After("importing") = {"complete", "reported", "left"}
<1>1. Promise!After("none") = {"begun"}
  BY DEF Promise!After, Promise!Ends
<1>2. Promise!After("begun") = {"holding", "withdrawn", "orphaned"}
  BY DEF Promise!After, Promise!Ends
<1>3. Promise!After("holding") = {"importing", "complete", "withdrawn", "reported", "left"}
  BY DEF Promise!After, Promise!Ends
<1>4. Promise!After("importing") = {"complete", "reported", "left"}
  BY DEF Promise!After, Promise!Ends
<1> QED
  BY <1>1, <1>2, <1>3, <1>4

\* The step PublishPromise allows of one publish.
MoveOf(x, y) == x = y \/ (y \in Promise!After(x) /\ (y = "left" => Away'))

FateMap == [a \in Attempts |-> Fate(a)]

\* A publish whose pipeline does not move stays where it is, but for an import:
\* of that the user may be told while somebody waits to hear of it, and the
\* portal may end it; nobody waits any more only when the user went away.
LEMMA HearingMoves ==
    ASSUME TypeOK, TypeOK', NEW b \in Attempts,
           kind'[b] = kind[b], pc'[b] = pc[b], cause'[b] = cause[b], item'[b] = item[b],
           note'[b] = note[b],
           told'[b] = told[b] \/ (told[b] = "nothing" /\ cause[b] = "none" /\ ~Unheard(b)),
           job[b][1] \in Terminal => job'[b][1] = job[b][1],
           told'[b] = "nothing" => (Unheard(b) => Unheard(b)') /\ (Unheard(b)' => Away')
    PROVE  MoveOf(Fate(b), Fate(b)')
<1>1. /\ told[b] \in {"nothing", "published", "error", "pollerror"}
      /\ told'[b] \in {"nothing", "published", "error", "pollerror"}
  BY DEF TypeOK
<1>2. Guarded(b)' = Guarded(b)
  BY DEF Guarded
<1>3. told'[b] = told[b] => FailureFate(b)' = FailureFate(b)
  BY DEF FailureFate
<1>4. MoveOf(ImportFate(b), ImportFate(b)')
  <2>1. CASE told'[b] # "nothing"
    <3>1. ImportFate(b)' = IF told'[b] = "published" THEN "complete" ELSE "reported"
      BY <1>1, <2>1 DEF ImportFate
    <3>2. CASE told[b] = "nothing"
      <4>1. ImportFate(b) = "importing"
        BY <2>1, <3>2 DEF ImportFate
      <4> QED
        BY <3>1, <4>1, AfterIs DEF MoveOf
    <3>3. CASE told[b] # "nothing"
      <4>1. ImportFate(b) = IF told[b] = "published" THEN "complete" ELSE "reported"
        BY <1>1, <3>3 DEF ImportFate
      <4> QED
        BY <3>1, <3>3, <4>1 DEF MoveOf
    <3> QED
      BY <3>2, <3>3
  <2>2. CASE told'[b] = "nothing"
    <3>1. told[b] = "nothing"
      BY <2>2
    <3>2. CASE ~Unheard(b) \/ job[b][1] \notin Terminal
      <4>1. ImportFate(b) = "importing"
        BY <3>1, <3>2 DEF ImportFate
      <4>2. ImportFate(b)' \in {"importing", "complete"} \/ (ImportFate(b)' = "left" /\ Unheard(b)')
        BY <2>2 DEF ImportFate
      <4> QED
        BY <2>2, <4>1, <4>2, AfterIs DEF MoveOf
    <3>3. CASE Unheard(b) /\ job[b][1] \in Terminal
      BY <2>2, <3>1, <3>3 DEF ImportFate, MoveOf
    <3> QED
      BY <3>2, <3>3
  <2> QED
    BY <2>1, <2>2
<1>5. CASE kind[b] = "none" \/ pc[b] \in {"export", "stage", "probe", "create"} \/ Guarded(b)
           \/ pc[b] = "clean" \/ (cause[b] = "none" /\ kind[b] = "raster")
  BY <1>2, <1>5 DEF Fate, MoveOf
<1>6. CASE cause[b] # "none"
  BY <1>2, <1>3, <1>5, <1>6 DEF Fate, MoveOf
<1>7. CASE ~(kind[b] = "none" \/ pc[b] \in {"export", "stage", "probe", "create"} \/ Guarded(b)
             \/ pc[b] = "clean" \/ (cause[b] = "none" /\ kind[b] = "raster")) /\ cause[b] = "none"
  <2>1. Fate(b) = ImportFate(b) /\ Fate(b)' = ImportFate(b)'
    BY <1>2, <1>7 DEF Fate
  <2> QED
    BY <1>4, <2>1
<1> QED
  BY <1>5, <1>6, <1>7

\* A step of its pipeline moves a publish, as allowed.
LEMMA PipelineMoves ==
    ASSUME PublishInv, HeardInv, NEW a \in Attempts, PipelineStep(a),
           UNCHANGED <<dialogVars, connected, toldVars>>
    PROVE  MoveOf(Fate(a), Fate(a)')
<1>1. /\ AttemptInv(a)' /\ AttemptInv(a) /\ IInv /\ TypeOK /\ PipelineTypeOK /\ CauseAndPlace(a)
      /\ ItemIsHeld(a)
  BY PipelineKeeps DEF PublishInv, IInv, TypeOK, AttemptInv
<1> USE DEF Go, Raise, Guarded, Early, portalVars
<1>2. pc[a] # "idle" /\ kind' = kind /\ kind[a] # "none" /\ kind[a] \in {"raster"} \cup Uploads
  BY <1>1 DEF PipelineStep, SeeCancel, CallFails, DeleteItemQuietly, CreateItem, Export, Stage,
              Probe, Enqueue, EnqueuedAll, CheckSpace, Presign, Upload, Finalize, CauseAndPlace,
              PipelineTypeOK
<1>3. CASE pc[a] \in Early
  <2>1. /\ Fate(a) = "begun" /\ note'[a] = "none"
        /\ pc'[a] \in Early \cup {"enqueue", "check", "raised"}
        /\ pc'[a] = "raised" => cause'[a] # "none"
    BY <1>1, <1>2, <1>3
       DEF Fate, PipelineStep, SeeCancel, CallFails, DeleteItemQuietly, CreateItem, Export,
           Stage, Probe, Enqueue, EnqueuedAll, CheckSpace, Presign, Upload, Finalize,
           ItemIsHeld, PipelineTypeOK
  <2>2. Fate(a)' \in {"begun", "holding", "withdrawn", "orphaned"}
    BY <1>1, <1>2, <2>1 DEF Fate, FailureFate
  <2> QED
    BY <2>1, <2>2, AfterIs DEF MoveOf
<1>4. CASE Guarded(a)
  <2>1. /\ Fate(a) = "holding"
        /\ pc'[a] \in {"clean", "enqueue", "check", "presign", "upload", "finalize", "returned"}
        /\ pc'[a] = "returned" => cause'[a] = "none"
    BY <1>1, <1>2, <1>4
       DEF Fate, PipelineStep, SeeCancel, CallFails, DeleteItemQuietly, CreateItem, Export,
           Stage, Probe, Enqueue, EnqueuedAll, CheckSpace, Presign, Upload, Finalize,
           AttemptInv, CauseAndPlace, PipelineTypeOK
  <2>2. told'[a] = "nothing"
    <3>1. kind[a] \notin Algorithms => InCourse(a)
      BY <1>2, <1>4 DEF InCourse
    <3> QED
      BY <1>2, <1>4, <3>1 DEF HeardInv, PublishInv, UserInv, ToldInv, toldVars
  <2>3. pc'[a] = "returned" => ImportFate(a)' = "importing"
    BY <2>2 DEF ImportFate, Unheard
  <2>4. Fate(a)' \in {"holding", "importing", "complete"}
    BY <1>2, <2>1, <2>3 DEF Fate
  <2> QED
    BY <2>1, <2>4, AfterIs DEF MoveOf
<1>5. CASE pc[a] = "clean"
  <2>1. DeleteItemQuietly(a)
    BY <1>5 DEF PipelineStep, SeeCancel, CallFails, CreateItem, Export, Stage, Probe, Enqueue,
                EnqueuedAll, CheckSpace, Presign, Upload, Finalize
  <2>2. /\ Fate(a) = "holding" /\ pc'[a] = "raised" /\ cause'[a] # "none"
        /\ item'[a] = "deleted" \/ (note'[a] = "stranded" /\ item'[a] = "live")
    BY <1>1, <1>2, <1>5, <2>1 DEF Fate, DeleteItemQuietly, PipelineTypeOK, CauseAndPlace, ItemIsHeld
  <2>3. Fate(a)' \in {"holding", "withdrawn"}
    BY <1>2, <2>2 DEF Fate, FailureFate
  <2> QED
    BY <2>2, <2>3, AfterIs DEF MoveOf
<1> QED
  BY <1>3, <1>4, <1>5 DEF PipelineStep, SeeCancel, CallFails, DeleteItemQuietly, CreateItem, Export,
                          Stage, Probe, Enqueue, EnqueuedAll, CheckSpace, Presign, Upload, Finalize

\* The end of a publish moves it, as allowed, and so does an algorithm's wait.
LEMMA CallbackMoves ==
    ASSUME PublishInv, HeardInv, TypeOK', NEW a \in Attempts, Callback(a) \/ WaitForImportJob(a)
    PROVE  MoveOf(Fate(a), Fate(a)')
<1>1. /\ IInv /\ TypeOK /\ PipelineTypeOK /\ CauseAndPlace(a) /\ DialogInv /\ ToldInv
  BY DEF PublishInv, UserInv, IInv, TypeOK, AttemptInv
<1>2. /\ UNCHANGED <<item, cause, note, kind, job>>
      /\ pc[a] \in {"returned", "waiting", "raised"} /\ pc'[a] \in {"waiting", "over"}
      /\ pc[a] = "raised" <=> cause[a] # "none"
  BY <1>1 DEF Callback, WaitForImportJob, VectorDone, PublishFailed, RasterDone, AlgorithmFailed,
         AlgorithmReturned, AlgorithmPublished, Ended, Go, EndedQuietly, portalVars,
         PipelineTypeOK, CauseAndPlace
<1>3. kind[a] # "none" /\ ~Guarded(a) /\ ~Guarded(a)'
  BY <1>1, <1>2 DEF CauseAndPlace, Guarded
<1>4. told[a] = "nothing"
  <2>1. kind[a] \notin Algorithms => InCourse(a)
    BY <1>1, <1>2, <1>3 DEF InCourse, PipelineTypeOK
  <2> QED
    BY <1>1, <1>2, <2>1 DEF HeardInv, ToldInv
<1>5. CASE cause[a] # "none"
  <2>1. /\ pc[a] = "raised" /\ pc'[a] = "over"
        /\ told'[a] = "error" \/ dlg' = "closed"
    BY <1>1, <1>2, <1>5
       DEF Callback, WaitForImportJob, VectorDone, PublishFailed, RasterDone, AlgorithmFailed,
           AlgorithmReturned, AlgorithmPublished, Ended, Go, Tell, TypeOK, PipelineTypeOK
  <2>2. Fate(a) = FailureFate(a) /\ Fate(a)' = FailureFate(a)'
    BY <1>2, <1>3, <1>5, <2>1 DEF Fate
  <2>3. CASE item[a] = "live" /\ note[a] = "stranded"
    <3>1. FailureFate(a) = "holding" /\ FailureFate(a)' = IF told'[a] = "error" THEN "reported" ELSE "left"
      BY <1>2, <2>1, <2>3 DEF FailureFate
    <3> QED
      BY <2>1, <2>2, <3>1, AfterIs DEF MoveOf, Away
  <2>4. CASE ~(item[a] = "live" /\ note[a] = "stranded")
    <3>1. FailureFate(a) = FailureFate(a)'
      BY <1>2, <2>4 DEF FailureFate
    <3> QED
      BY <2>2, <3>1 DEF MoveOf
  <2> QED
    BY <2>3, <2>4
<1>6. CASE cause[a] = "none" /\ kind[a] = "raster"
  BY <1>2, <1>3, <1>6 DEF Fate, MoveOf
<1>7. CASE cause[a] = "none" /\ kind[a] # "raster"
  <2>1. Fate(a) = ImportFate(a) /\ Fate(a)' = ImportFate(a)'
    BY <1>2, <1>3, <1>7 DEF Fate
  <2>2. ImportFate(a) = "importing"
    BY <1>2, <1>4, <1>1 DEF ImportFate, Unheard, CauseAndPlace
  <2>3. Unheard(a)' => dlg' = "closed"
    <3>1. kind[a] = "vector" => VectorDone(a)
      BY <1>1, <1>2, <1>7
         DEF Callback, WaitForImportJob, PublishFailed, RasterDone, AlgorithmFailed,
             AlgorithmReturned, AlgorithmPublished, Ended, Go, CauseAndPlace
    <3>2. VectorDone(a) => dlg' = "closed" \/ timer'
      BY DEF VectorDone
    <3> QED
      BY <1>2, <3>1, <3>2 DEF Unheard
  <2>4. told'[a] \in {"nothing", "published", "error", "pollerror"}
    BY DEF TypeOK
  <2>5. ImportFate(a)' \in {"importing", "complete", "reported"} \/ (ImportFate(a)' = "left" /\ Unheard(a)')
    BY <2>4 DEF ImportFate
  <2> QED
    BY <2>1, <2>2, <2>3, <2>5, AfterIs DEF MoveOf, Away
<1> QED
  BY <1>5, <1>6, <1>7

\* Nobody waits to hear of a publish only when the user went away: after a step.
LEMMA UnheardWillBeAway ==
    ASSUME HeardInv', NEW b \in Attempts, told'[b] = "nothing", Unheard(b)'
    PROVE  Away'
BY DEF HeardInv, Unheard, Away, Dialog

\* A step moves every publish as the promise allows.
LEMMA EveryMove ==
    ASSUME PublishInv, HeardInv, [Next]_vars, HeardInv', TypeOK', NEW b \in Attempts
    PROVE  MoveOf(Fate(b), Fate(b)')
<1>0. /\ IInv /\ TypeOK /\ PipelineTypeOK /\ CauseAndPlace(b) /\ DialogInv /\ ToldInv /\ WatchInv
  BY DEF PublishInv, UserInv, IInv, TypeOK, AttemptInv
<1>1. ASSUME kind'[b] = kind[b], pc'[b] = pc[b], cause'[b] = cause[b], item'[b] = item[b],
             note'[b] = note[b],
             told'[b] = told[b] \/ (told[b] = "nothing" /\ cause[b] = "none" /\ ~Unheard(b)),
             job[b][1] \in Terminal => job'[b][1] = job[b][1],
             told'[b] = "nothing" => (Unheard(b) => Unheard(b)')
      PROVE  MoveOf(Fate(b), Fate(b)')
  BY <1>0, <1>1, HearingMoves, UnheardWillBeAway
<1>2. ASSUME NEW a \in Attempts, Worker(a) PROVE MoveOf(Fate(b), Fate(b)')
  <2>1. CASE PipelineStep(a) /\ UNCHANGED <<dialogVars, connected, toldVars>>
    <3>1. CASE a # b
      <4>1. SameOf(b) /\ Unheard(b)' = Unheard(b)
        BY <1>0, <2>1, <3>1, PipelineKeeps DEF toldVars, dialogVars, SameOf, Unheard
      <4> QED
        BY <1>1, <4>1 DEF SameOf
    <3> QED
      BY <2>1, <3>1, PipelineMoves
  <2>2. CASE Callback(a) \/ WaitForImportJob(a)
    <3>1. CASE a # b
      <4>1. SameOf(b)
        BY <1>0, <2>2, <3>1
           DEF Callback, WaitForImportJob, VectorDone, PublishFailed, RasterDone, AlgorithmFailed,
               AlgorithmReturned, AlgorithmPublished, Ended, Go, Tell, EndedQuietly, portalVars,
               toldVars, TypeOK, PipelineTypeOK, SameOf
      <4>2. told[b] = "nothing" => (Unheard(b) => Unheard(b)')
        <5> SUFFICES ASSUME told[b] = "nothing", Unheard(b) PROVE Unheard(b)'
          OBVIOUS
        <5>1. CASE dlg = "closed"
          <6>1. dlg' = "closed"
            BY <2>2, <5>1 DEF Callback, WaitForImportJob, VectorDone, PublishFailed, RasterDone,
                              AlgorithmFailed, AlgorithmReturned, AlgorithmPublished, dialogVars
          <6> QED
            BY <4>1, <6>1 DEF Unheard, SameOf
        <5>2. CASE dlg # "closed"
          <6>1. ~VectorDone(a)
            <7>1. VectorDone(a) => InCourse(a) /\ told[a] = "nothing"
              BY <1>0 DEF VectorDone, Ended, Go, InCourse, ToldInv
            <7>2. VectorDone(a) => dlg = "open"
              BY <1>0, <5>2, <7>1 DEF WatchInv, TypeOK
            <7> QED
              BY <1>0, <3>1, <7>1, <7>2 DEF ToldInv, Dialog, Unheard, InCourse
          <6>2. UNCHANGED <<timer, poll>>
            BY <2>2, <6>1 DEF Callback, WaitForImportJob, PublishFailed, RasterDone,
                              AlgorithmFailed, AlgorithmReturned, AlgorithmPublished, dialogVars
          <6> QED
            BY <4>1, <5>2, <6>2 DEF Unheard, SameOf
        <5> QED
          BY <5>1, <5>2
      <4> QED
        BY <1>1, <4>1, <4>2 DEF SameOf
    <3> QED
      BY <2>2, <3>1, CallbackMoves
  <2> QED
    BY <1>2, <2>1, <2>2 DEF Worker
<1>3. ASSUME NEW a \in Attempts, Portal(a) \/ CancelJob(a) PROVE MoveOf(Fate(b), Fate(b)')
  <2>1. UNCHANGED <<kind, pc, cause, item, note, told, dlg, timer, poll>>
    BY <1>3 DEF Portal, JobEnds, CancelJob, workerVars, dialogVars, toldVars
  <2>2. job[b][1] \in Terminal => job'[b][1] = job[b][1]
    <3>1. 1 \in Layers
      BY BoundAssumption DEF Layers
    <3>2. CASE Portal(a)
      <4>1. PICK k \in Layers, s \in {"succeeded", "failed"} :
                job[a][k] = "active" /\ job' = [job EXCEPT ![a][k] = s]
        BY <3>2 DEF Portal, JobEnds
      <4> QED
        BY <1>0, <3>1, <4>1 DEF PipelineTypeOK, Terminal
    <3>3. CASE CancelJob(a)
      BY <1>0, <3>1, <3>3 DEF CancelJob, PipelineTypeOK, Terminal
    <3> QED
      BY <1>3, <3>2, <3>3
  <2> QED
    BY <1>1, <2>1, <2>2 DEF Unheard
<1>4. CASE Poll
  <2>1. UNCHANGED pipelineVars
    BY <1>4 DEF Poll, PollOnce, PollRead, PollDone, PollFailed
  <2>2. watch # 0 => watch \in Attempts /\ pc[watch] = "over" /\ cause[watch] = "none"
    BY <1>0, WatchIsOver DEF DialogInv
  <2>3. told'[b] = told[b] \/ (told[b] = "nothing" /\ cause[b] = "none" /\ ~Unheard(b))
    <3> SUFFICES ASSUME told'[b] # told[b] PROVE told[b] = "nothing" /\ cause[b] = "none" /\ ~Unheard(b)
      OBVIOUS
    <3>1. b = watch /\ b # 0 /\ timer
      BY <1>0, <1>4, <2>2
         DEF Poll, PollOnce, PollRead, PollDone, PollFailed, JobFinished, Tell, toldVars, TypeOK,
             HeardInv, Attempts
    <3> QED
      BY <1>0, <2>2, <3>1 DEF HeardInv, WatchInv, Unheard
  <2>4. told'[b] = "nothing" => (Unheard(b) => Unheard(b)')
    <3> SUFFICES ASSUME told'[b] = "nothing", Unheard(b) PROVE Unheard(b)'
      OBVIOUS
    <3>1. told[b] = "nothing"
      BY <2>3
    <3>2. CASE dlg = "closed"
      <4>1. dlg' = "closed"
        BY <1>0, <1>4, <3>2 DEF Poll, PollOnce, PollRead, PollDone, PollFailed, WatchInv
      <4> QED
        BY <2>1, <4>1 DEF Unheard, pipelineVars
    <3>3. CASE dlg # "closed"
      <4>1. ~timer /\ poll = "none"
        BY <3>3 DEF Unheard
      <4>2. FALSE
        BY <1>4, <4>1 DEF Poll, PollOnce, PollRead, PollDone, PollFailed, JobAnswers, Terminal
      <4> QED
        BY <4>2
    <3> QED
      BY <3>2, <3>3
  <2> QED
    BY <1>1, <2>1, <2>3, <2>4 DEF pipelineVars
<1>5. CASE Reject \/ RemoveConnection
  <2>1. /\ UNCHANGED <<pipelineVars, told, poll>> /\ (Unheard(b) => Unheard(b)')
    BY <1>5 DEF Reject, RemoveConnection, dialogVars, toldVars, Unheard, pipelineVars
  <2> QED
    BY <1>1, <2>1 DEF pipelineVars
<1>6. ASSUME NEW a \in Attempts, NEW k \in {"raster"} \cup Uploads, Begin(a, k),
             UNCHANGED <<dlg, timer, poll, told>>
      PROVE  MoveOf(Fate(b), Fate(b)')
  <2>1. CASE a = b
    <3>1. kind[b] = "none" /\ kind'[b] # "none" /\ pc'[b] \in {"export", "create"}
      BY <1>0, <1>6, <2>1 DEF Begin, Fresh, FirstStep, PipelineTypeOK
    <3>2. Fate(b) = "none" /\ Fate(b)' = "begun"
      BY <3>1 DEF Fate
    <3> QED
      BY <3>2, AfterIs DEF MoveOf
  <2>2. CASE a # b
    <3>1. /\ kind'[b] = kind[b] /\ pc'[b] = pc[b] /\ UNCHANGED <<cause, item, note, job>>
          /\ Unheard(b)' = Unheard(b)
      BY <1>0, <1>6, <2>2 DEF Begin, PipelineTypeOK, portalVars, Unheard
    <3> QED
      BY <1>1, <1>6, <3>1
  <2> QED
    BY <2>1, <2>2
<1>7. CASE User
  BY <1>1, <1>5, <1>6, <1>7
     DEF User, PressPublish, StartAlgorithm, CancelTask, dialogVars, toldVars, portalVars, Unheard
<1>8. CASE UNCHANGED vars
  BY <1>1, <1>8 DEF vars, pipelineVars, dialogVars, toldVars, Unheard
<1> QED
  BY <1>2, <1>3, <1>4, <1>7, <1>8 DEF Next

\* Every step of the system is a step of the promise, or none.
LEMMA PromiseStep ==
    ASSUME PublishInv, HeardInv, [Next]_vars, HeardInv', TypeOK'
    PROVE  [Promise!Next]_<<FateMap, Away>>
<1>1. \A a \in Attempts : Fate(a)' \in Promise!Fates
  <2> SUFFICES ASSUME NEW a \in Attempts PROVE Fate(a)' \in Promise!Fates
    OBVIOUS
  <2>1. told'[a] \in {"nothing", "published", "error", "pollerror"}
    BY DEF TypeOK
  <2>2. ImportFate(a)' \in Promise!Fates /\ FailureFate(a)' \in Promise!Fates
    BY <2>1 DEF ImportFate, FailureFate, Promise!Fates, Promise!Underway, Promise!Ends
  <2> QED
    BY <2>2 DEF Fate, Promise!Fates, Promise!Underway, Promise!Ends
<1>2. \A a \in Attempts : MoveOf(Fate(a), Fate(a)')
  BY EveryMove
<1>3. Away => Away'
  BY DEF Away, Next, Worker, Callback, PipelineStep, VectorDone, PublishFailed, RasterDone,
         AlgorithmFailed, AlgorithmReturned, AlgorithmPublished, WaitForImportJob, Portal,
         CancelJob, Poll, PollOnce, PollRead, PollDone, PollFailed, JobFinished, User,
         PressPublish, StartAlgorithm, CancelTask, Reject, RemoveConnection, dialogVars, vars,
         PublishInv, UserInv, WatchInv
<1> QED
  BY <1>1, <1>2, <1>3 DEF FateMap, MoveOf, Promise!Next, Promise!Move, Away

\* The dialog and the algorithms implement the safety of PublishPromise: an item
\* the client has been told of is completed, taken back or reported; it is left
\* unfinished with nothing said only when the dialog was closed or its connection
\* removed; and an end is final.
THEOREM PromiseKept == Spec => Promise!Safety
<1>1. Init => Promise!Init /\ HeardInv
  BY DEF Init, PipelineInit, Promise!Init, Fate, HeardInv, Dialog
<1>2. PublishInv /\ HeardInv /\ [Next]_vars => HeardInv'
  BY HeardStep
<1>3. PublishInv => TypeOK
  BY DEF PublishInv, IInv
<1>4. PublishInv /\ HeardInv /\ [Next]_vars /\ HeardInv' /\ TypeOK' =>
          [Promise!Next]_<<[a \in Attempts |-> Fate(a)], dlg = "closed" \/ ~connected>>
  BY PromiseStep DEF FateMap, Away
<1> QED
  BY <1>1, <1>2, <1>3, <1>4, UserInvHolds, PTL DEF Spec, Promise!Safety
=============================================================================
