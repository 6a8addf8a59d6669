--------------------------- MODULE PublishProofs ---------------------------
(***************************************************************************)
(* Proofs about PublishLayer, for every number of publishes and of layers  *)
(* and every environment: type correctness, that what is called published  *)
(* is published, and that the pipelines keep the safety of PublishPromise. *)
(***************************************************************************)
EXTENDS PublishLayer, TLAPS

USE DEF Uploads, Algorithms

Early == {"export", "stage", "probe", "create"}

\* The publish has gone well so far, and nothing of it is left to the pipeline.
Kept(a) == pc[a] \in {"returned", "waiting"} \/ (pc[a] = "over" /\ cause[a] = "none")

\* Which pipeline a step belongs to, and whether something was raised.
CauseAndPlace(a) ==
    /\ (pc[a] = "idle") <=> (kind[a] = "none")
    /\ pc[a] \in (Steps \ {"clean"}) \cup {"idle", "returned", "waiting"} => cause[a] = "none"
    /\ pc[a] \in {"clean", "raised"} => cause[a] # "none"
    /\ pc[a] \in {"export", "stage", "probe", "enqueue"} => kind[a] \in Uploads
    /\ pc[a] \in {"check", "presign", "upload", "finalize"} => kind[a] = "raster"
    /\ pc[a] = "waiting" => kind[a] \in Algorithms

\* No item before the create, a live one from there on while all goes well.
ItemIsHeld(a) ==
    /\ pc[a] \in Early \cup {"idle"} => item[a] = "none" /\ note[a] = "none"
    /\ Guarded(a) \/ pc[a] = "clean" => item[a] = "live" /\ note[a] = "none"
    /\ Kept(a) => item[a] = "live" /\ (kind[a] = "raster" => ready[a])

\* There is a job of every layer that was enqueued, which is every layer when
\* the pipeline returns; jobs waited for have succeeded.
JobsAreMade(a) ==
    /\ kind[a] = "vector" => probed[a] <= 1
    /\ pc[a] = "idle" => probed[a] = 0
    /\ pc[a] \in Early \cup {"idle"} => enqueued[a] = 0
    /\ enqueued[a] <= probed[a] /\ waited[a] <= enqueued[a]
    /\ kind[a] \in Uploads /\ pc[a] \in {"create", "enqueue"} => probed[a] > 0
    /\ kind[a] \in Uploads /\ Kept(a) => probed[a] > 0 /\ enqueued[a] = probed[a]
    /\ \A k \in Layers : k <= enqueued[a] => job[a][k] # "none"
    /\ \A k \in Layers : k <= waited[a] => job[a][k] = "succeeded"
    /\ \A k \in Layers : job[a][k] = "void" => pc[a] \in {"raised", "over"} /\ cause[a] # "none"

\* A publish is called one only at its good end, with every job succeeded.
ToldIsSo(a) ==
    told[a] = "published" \/ stamped[a] =>
        /\ pc[a] = "over" /\ cause[a] = "none"
        /\ kind[a] \in Uploads =>
              \A k \in Layers : k <= probed[a] => job[a][k] = "succeeded"

AttemptInv(a) == CauseAndPlace(a) /\ ItemIsHeld(a) /\ JobsAreMade(a) /\ ToldIsSo(a)

\* A publish of the dialog whose callback is still to come.
InCourse(a) == kind[a] \in {"vector", "raster"} /\ pc[a] # "over"

\* The dialog has at most one publish in course, and polls for none then; it
\* watches a vector publish that ended well; a good answer stays true.
DialogInv ==
    /\ ~busy => poll = "none" /\ ~timer /\ \A a \in Attempts : ~InCourse(a)
    /\ \A a, b \in Attempts : InCourse(a) /\ InCourse(b) => a = b
    /\ (\E a \in Attempts : InCourse(a)) => poll = "none" /\ ~timer
    /\ timer \/ poll # "none" => watch # 0
    /\ watch # 0 => kind[watch] = "vector" /\ pc[watch] = "over" /\ cause[watch] = "none"
    /\ poll = "succeeded" => job[watch][1] = "succeeded"

IInv == TypeOK /\ (\A a \in Attempts : AttemptInv(a)) /\ DialogInv

-----------------------------------------------------------------------------
(* Type correctness                                                        *)

\* A step of a pipeline keeps the types of what the pipelines work on.
LEMMA PipelineTypeStep ==
    ASSUME PipelineTypeOK, NEW a \in Attempts, PipelineStep(a), UNCHANGED env
    PROVE  PipelineTypeOK'
<1> USE DEF PipelineTypeOK, portalVars, Steps, VectorSteps, RasterSteps, Layers
<1> USE BoundAssumption
<1>0. /\ UnlinkStaged(a) => (temp \in [Attempts -> {"none", "whole", "half", "stuck"}])'
      /\ HalfWritten(kind[a]) \subseteq {"none", "half", "stuck"}
  <2>1. \A t \in {"none", "whole", "half", "stuck"} :
            [temp EXCEPT ![a] = t] \in [Attempts -> {"none", "whole", "half", "stuck"}]
    OBVIOUS
  <2>2. Unlinked \subseteq {"none", "stuck"}
    BY DEF Unlinked
  <2>3. temp \in [Attempts -> {"none", "whole", "half", "stuck"}]
    OBVIOUS
  <2> HIDE DEF PipelineTypeOK
  <2> QED
    BY <2>1, <2>2, <2>3 DEF UnlinkStaged, HalfWritten
<1>1. CASE SeeCancel(a)
  BY <1>0, <1>1 DEF SeeCancel, Raise, Guarded
<1>2. CASE CallFails(a)
  BY <1>0, <1>2 DEF CallFails, Raise, Guarded
<1>3. CASE DeleteItemQuietly(a)
  <2>1. (job \in [Attempts -> [Layers -> JobStates]])'
    <3>1. [k \in Layers |-> IF job[a][k] = "active" THEN "void" ELSE job[a][k]]
              \in [Layers -> JobStates]
      BY DEF JobStates
    <3>2. CASE job' = [job EXCEPT ![a] =
                          [k \in Layers |-> IF @[k] = "active" THEN "void" ELSE @[k]]]
      <4> HIDE DEF Layers
      <4>1. job' = [job EXCEPT ![a] =
                      [k \in Layers |-> IF job[a][k] = "active" THEN "void" ELSE job[a][k]]]
        BY <3>2
      <4> QED
        BY <3>1, <4>1
    <3>3. CASE job' = job
      BY <3>3
    <3> QED
      BY <1>3, <3>2, <3>3 DEF DeleteItemQuietly
  <2> QED
    BY <1>3, <2>1 DEF DeleteItemQuietly, Go
<1>4. CASE CreateItem(a)
  BY <1>4 DEF CreateItem, Go, Raise, Guarded
<1>5. CASE Export(a)
  <2>1. (temp \in [Attempts -> {"none", "whole", "half", "stuck"}])'
    BY <1>0, <1>5 DEF Export
  <2> QED
    BY <1>5, <2>1 DEF Export, Go, Raise, Guarded
<1>6. CASE Stage(a)
  <2>1. PICK n \in 0 .. IF kind[a] = "batch" THEN MaxLayers ELSE 1 : probed' = [probed EXCEPT ![a] = n]
    BY <1>6 DEF Stage
  <2>2. n \in 0 .. MaxLayers
    OBVIOUS
  <2>3. (probed \in [Attempts -> 0 .. MaxLayers])'
    BY <2>1, <2>2
  <2> QED
    BY <1>0, <1>6, <2>3 DEF Stage, Go
<1>7. CASE Probe(a)
  BY <1>7 DEF Probe, Go, Raise, Guarded
<1>8. CASE Enqueue(a)
  <2>1. enqueued[a] + 1 \in 1 .. MaxLayers
    BY <1>8 DEF Enqueue
  <2>2. [job[a] EXCEPT ![enqueued[a] + 1] = "active"] \in [Layers -> JobStates]
    BY DEF JobStates
  <2>3. (job \in [Attempts -> [Layers -> JobStates]])'
    BY <1>8, <2>2 DEF Enqueue
  <2>4. CASE enqueued' = [enqueued EXCEPT ![a] = @ + 1] /\ UNCHANGED <<pc, cause>>
    <3>1. (enqueued \in [Attempts -> 0 .. MaxLayers])'
      BY <2>1, <2>4
    <3> QED
      BY <1>8, <2>3, <2>4, <3>1 DEF Enqueue
  <2>5. CASE Raise(a, "failed") /\ UNCHANGED enqueued
    BY <1>8, <2>3, <2>5 DEF Enqueue, Raise, Guarded
  <2> QED
    BY <1>8, <2>4, <2>5 DEF Enqueue
<1>9. CASE EnqueuedAll(a)
  BY <1>9 DEF EnqueuedAll, Go
<1>10. CASE CheckSpace(a)
  BY <1>10 DEF CheckSpace, Go, Raise, Guarded
<1>11. CASE Presign(a)
  BY <1>11 DEF Presign, Go
<1>12. CASE Upload(a)
  BY <1>12 DEF Upload, Go
<1>13. CASE Finalize(a)
  BY <1>13 DEF Finalize, Go, Raise, Guarded
<1> QED
  BY <1>1, <1>2, <1>3, <1>4, <1>5, <1>6, <1>7, <1>8, <1>9, <1>10, <1>11, <1>12, <1>13
     DEF PipelineStep

\* The portal ends a job.
LEMMA JobEndsType ==
    ASSUME PipelineTypeOK, NEW a \in Attempts, NEW k \in Layers, JobEnds(a, k), UNCHANGED env
    PROVE  PipelineTypeOK'
<1>1. \A s \in {"succeeded", "failed"} :
          [job EXCEPT ![a][k] = s] \in [Attempts -> [Layers -> JobStates]]
  BY DEF PipelineTypeOK, JobStates
<1> QED
  BY <1>1 DEF JobEnds, PipelineTypeOK, workerVars

\* The job the dialog watches was made, and not taken back.
LEMMA WatchedJobIsReal ==
    ASSUME IInv, watch # 0
    PROVE  watch \in Attempts /\ 1 \in Layers /\ job[watch][1] \in JobAnswers
<1>1. watch \in Attempts /\ 1 \in Layers
  BY BoundAssumption DEF IInv, TypeOK, Attempts, Layers
<1>2. kind[watch] = "vector" /\ pc[watch] = "over" /\ cause[watch] = "none"
  BY DEF IInv, DialogInv
<1>3. JobsAreMade(watch)
  BY <1>1 DEF IInv, AttemptInv
<1>4. probed[watch] > 0 /\ enqueued[watch] = probed[watch] /\ enqueued[watch] \in Nat
  BY <1>1, <1>2, <1>3, BoundAssumption DEF JobsAreMade, Kept, IInv, TypeOK, PipelineTypeOK
<1>5. job[watch][1] # "none" /\ job[watch][1] # "void"
  BY <1>1, <1>2, <1>3, <1>4 DEF JobsAreMade
<1>6. job[watch][1] \in JobStates
  BY <1>1 DEF IInv, TypeOK, PipelineTypeOK
<1> QED
  BY <1>1, <1>5, <1>6 DEF JobStates, JobAnswers, Terminal

\* The dialog's and the algorithms' own variables.
OwnTypeOK ==
    /\ dlg \in {"open", "closed", "accepted"}
    /\ busy \in BOOLEAN
    /\ watch \in 0 .. MaxPublish
    /\ seen \in JobAnswers
    /\ timer \in BOOLEAN
    /\ poll \in {"none", "sent", "error"} \cup JobAnswers
    /\ cancelReq \in [Attempts -> {"none", "sent", "done", "failed"}]
    /\ connected \in BOOLEAN
    /\ waited \in [Attempts -> 0 .. MaxLayers]
    /\ stamped \in [Attempts -> BOOLEAN]
    /\ told \in [Attempts -> {"nothing", "published", "error", "pollerror"}]

\* Types of the dialog and of the algorithms, apart from the pipelines'.
LEMMA BothTypes ==
    /\ TypeOK <=> PipelineTypeOK /\ OwnTypeOK
    /\ TypeOK' <=> PipelineTypeOK' /\ OwnTypeOK'
BY DEF TypeOK, OwnTypeOK

\* The end of a publish moves nothing of the pipelines but pc.
LEMMA EndedType ==
    ASSUME PipelineTypeOK, NEW a \in Attempts, NEW from, EndedQuietly, UNCHANGED env,
           Go(a, from, "over") \/ Go(a, from, "waiting")
    PROVE  PipelineTypeOK'
BY DEF PipelineTypeOK, EndedQuietly, portalVars, Go

\* A publish begins: it takes the first step of its kind.
LEMMA BeginType ==
    ASSUME PipelineTypeOK, NEW a \in Attempts, NEW k \in {"raster"} \cup Uploads,
           Begin(a, k), UNCHANGED env
    PROVE  PipelineTypeOK'
BY DEF PipelineTypeOK, Begin, portalVars, FirstStep, Steps, VectorSteps, RasterSteps

\* The callbacks and the wait of a publish.
LEMMA CallbackType ==
    ASSUME IInv, NEW a \in Attempts, Callback(a) \/ WaitForImportJob(a), UNCHANGED env
    PROVE  TypeOK'
<1>0. PipelineTypeOK /\ OwnTypeOK
  BY BothTypes DEF IInv
<1> SUFFICES PipelineTypeOK' /\ OwnTypeOK'
  BY BothTypes
<1>1. CASE VectorDone(a)
  <2>1. a \in 0 .. MaxPublish /\ "active" \in JobAnswers
    BY BoundAssumption DEF Attempts, JobAnswers
  <2> QED
    BY <1>0, <1>1, <2>1, EndedType
       DEF VectorDone, Ended, RequestJobCancel, OwnTypeOK, toldVars
<1>2. CASE PublishFailed(a)
  BY <1>0, <1>2, EndedType DEF PublishFailed, Ended, Tell, OwnTypeOK
<1>3. CASE RasterDone(a)
  BY <1>0, <1>3, EndedType DEF RasterDone, Ended, Tell, OwnTypeOK
<1>4. CASE AlgorithmFailed(a)
  BY <1>0, <1>4, EndedType DEF AlgorithmFailed, Ended, Tell, OwnTypeOK, dialogVars
<1>5. CASE AlgorithmReturned(a)
  BY <1>0, <1>5, EndedType DEF AlgorithmReturned, OwnTypeOK, dialogVars, toldVars
<1>6. CASE AlgorithmPublished(a)
  BY <1>0, <1>6, EndedType DEF AlgorithmPublished, Tell, OwnTypeOK, dialogVars
<1>7. CASE WaitForImportJob(a)
  <2>1. waited[a] + 1 \in 1 .. MaxLayers
    <3>1. waited[a] <= enqueued[a] /\ waited[a] # enqueued[a]
      BY <1>7 DEF IInv, AttemptInv, JobsAreMade, WaitForImportJob, AllJobsOver
    <3>2. waited[a] \in 0 .. MaxLayers /\ enqueued[a] \in 0 .. MaxLayers /\ MaxLayers \in Nat
      BY <1>0, BoundAssumption DEF PipelineTypeOK, OwnTypeOK
    <3> QED
      BY <3>1, <3>2
  <2>2. CASE waited' = [waited EXCEPT ![a] = waited[a] + 1] /\ UNCHANGED <<pc, told>>
    <3>1. (waited \in [Attempts -> 0 .. MaxLayers])'
      BY <1>0, <2>1, <2>2 DEF OwnTypeOK
    <3>2. PipelineTypeOK'
      BY <1>0, <1>7, <2>2 DEF WaitForImportJob, EndedQuietly, portalVars, PipelineTypeOK
    <3> QED
      BY <1>0, <1>7, <2>2, <3>1, <3>2 DEF WaitForImportJob, OwnTypeOK, dialogVars
  <2>3. CASE Go(a, "waiting", "over") /\ Tell(a, "error") /\ UNCHANGED waited
    BY <1>0, <1>7, <2>3, EndedType DEF WaitForImportJob, Tell, OwnTypeOK, dialogVars
  <2> QED
    BY <1>7, <2>2, <2>3 DEF WaitForImportJob
<1> QED
  BY <1>1, <1>2, <1>3, <1>4, <1>5, <1>6, <1>7 DEF Callback

\* The dialog's timer, its poll and its user.
LEMMA DialogType ==
    ASSUME IInv, Poll \/ Reject \/ RemoveConnection
    PROVE  TypeOK'
<1>0. PipelineTypeOK /\ OwnTypeOK
  BY BothTypes DEF IInv
<1> SUFFICES PipelineTypeOK' /\ OwnTypeOK'
  BY BothTypes
<1>1. UNCHANGED pipelineVars
  BY DEF Poll, PollOnce, PollRead, PollDone, PollFailed, Reject, RemoveConnection
<1>2. PipelineTypeOK'
  BY <1>0, <1>1 DEF pipelineVars, PipelineTypeOK
<1>3. CASE PollOnce
  BY <1>0, <1>2, <1>3 DEF PollOnce, OwnTypeOK, toldVars
<1>4. CASE PollRead
  <2>1. job[watch][1] \in JobAnswers
    BY <1>4, WatchedJobIsReal DEF PollRead, IInv, DialogInv
  <2>2. (poll \in {"none", "sent", "error"} \cup JobAnswers)'
    BY <1>4, <2>1 DEF PollRead
  <2> QED
    BY <1>0, <1>2, <1>4, <2>2 DEF PollRead, OwnTypeOK, toldVars
<1>5. CASE PollDone
  <2>1. CASE timer /\ poll \in Terminal
    BY <1>0, <1>2, <1>5, <2>1 DEF PollDone, JobFinished, Tell, OwnTypeOK
  <2>2. CASE ~(timer /\ poll \in Terminal)
    BY <1>0, <1>2, <1>5, <2>2 DEF PollDone, OwnTypeOK
  <2> QED
    BY <2>1, <2>2
<1>6. CASE PollFailed
  <2>1. 0 \in 0 .. MaxPublish
    BY BoundAssumption
  <2>2. (told \in [Attempts -> {"nothing", "published", "error", "pollerror"}])'
    BY <1>0, <1>6 DEF PollFailed, Tell, OwnTypeOK
  <2> QED
    BY <1>0, <1>2, <1>6, <2>1, <2>2 DEF PollFailed, OwnTypeOK
<1>7. CASE Reject
  BY <1>0, <1>2, <1>7 DEF Reject, RequestJobCancel, OwnTypeOK, toldVars
<1>8. CASE RemoveConnection
  BY <1>0, <1>2, <1>8 DEF RemoveConnection, OwnTypeOK, dialogVars, toldVars
<1> QED
  BY <1>3, <1>4, <1>5, <1>6, <1>7, <1>8 DEF Poll

\* The request to cancel a publish's first job is answered.
LEMMA CancelJobType ==
    ASSUME IInv, NEW a \in Attempts, CancelJob(a)
    PROVE  TypeOK'
<1>0. PipelineTypeOK /\ OwnTypeOK /\ 1 \in Layers
  BY BothTypes, BoundAssumption DEF IInv, Layers
<1>1. [job[a] EXCEPT ![1] = IF @ = "active" THEN "cancelled" ELSE @] \in [Layers -> JobStates]
  BY <1>0 DEF PipelineTypeOK, JobStates
<1>2. (job \in [Attempts -> [Layers -> JobStates]])'
  BY <1>0, <1>1 DEF CancelJob, PipelineTypeOK
<1>3. PipelineTypeOK'
  BY <1>0, <1>2 DEF CancelJob, PipelineTypeOK, workerVars
<1>4. OwnTypeOK'
  BY <1>0 DEF CancelJob, OwnTypeOK, toldVars
<1> QED
  BY <1>3, <1>4, BothTypes

\* Every step of the system keeps the types.
LEMMA TypeStep == IInv /\ [Next]_vars => TypeOK'
<1> SUFFICES ASSUME IInv, [Next]_vars PROVE TypeOK'
  OBVIOUS
<1>0. PipelineTypeOK /\ OwnTypeOK
  BY BothTypes DEF IInv
<1>1. ASSUME UNCHANGED <<dialogVars, connected, toldVars>> PROVE OwnTypeOK'
  BY <1>0, <1>1 DEF OwnTypeOK, dialogVars, toldVars
<1>2. ASSUME UNCHANGED vars PROVE TypeOK'
  BY <1>0, <1>1, <1>2, BothTypes DEF vars, pipelineVars, PipelineTypeOK
<1>3. ASSUME NEW a \in Attempts, Worker(a), UNCHANGED env PROVE TypeOK'
  BY <1>0, <1>1, <1>3, BothTypes, PipelineTypeStep, CallbackType DEF Worker
<1>4. ASSUME NEW a \in Attempts, Portal(a), UNCHANGED env PROVE TypeOK'
  BY <1>0, <1>1, <1>4, BothTypes, JobEndsType DEF Portal
<1>5. ASSUME User, UNCHANGED env PROVE TypeOK'
  <2>1. ASSUME NEW a \in Attempts, NEW k \in {"vector", "raster"}, PressPublish(a, k) PROVE TypeOK'
    <3>1. PipelineTypeOK'
      BY <1>0, <1>5, <2>1, BeginType DEF PressPublish
    <3>2. OwnTypeOK'
      BY <1>0, <2>1 DEF PressPublish, OwnTypeOK, toldVars
    <3> QED
      BY <3>1, <3>2, BothTypes
  <2>2. ASSUME NEW a \in Attempts, NEW k \in Algorithms, StartAlgorithm(a, k) PROVE TypeOK'
    BY <1>0, <1>1, <1>5, <2>2, BeginType, BothTypes DEF StartAlgorithm
  <2>3. ASSUME NEW a \in Attempts, CancelTask(a), UNCHANGED <<dialogVars, connected, toldVars>>
        PROVE  TypeOK'
    <3>1. PipelineTypeOK'
      BY <1>0, <1>5, <2>3 DEF CancelTask, PipelineTypeOK, portalVars
    <3> QED
      BY <1>1, <2>3, <3>1, BothTypes
  <2> QED
    BY <1>5, <2>1, <2>2, <2>3, DialogType DEF User
<1> QED
  BY <1>2, <1>3, <1>4, <1>5, DialogType, CancelJobType DEF Next

-----------------------------------------------------------------------------
(* What holds of one publish                                               *)

SameOf(b) ==
    /\ kind'[b] = kind[b] /\ pc'[b] = pc[b] /\ cause'[b] = cause[b] /\ item'[b] = item[b]
    /\ note'[b] = note[b] /\ ready'[b] = ready[b] /\ probed'[b] = probed[b]
    /\ enqueued'[b] = enqueued[b] /\ waited'[b] = waited[b] /\ job'[b] = job[b]
    /\ told'[b] = told[b] /\ stamped'[b] = stamped[b]

\* A publish that a step leaves alone keeps what holds of it.
LEMMA Frame ==
    ASSUME NEW b \in Attempts, AttemptInv(b), SameOf(b)
    PROVE  AttemptInv(b)'
BY DEF AttemptInv, SameOf, CauseAndPlace, ItemIsHeld, JobsAreMade, ToldIsSo, Kept, Guarded

\* A step of a pipeline keeps what holds of its publish, and leaves every other
\* publish alone.
LEMMA PipelineKeeps ==
    ASSUME IInv, NEW a \in Attempts, PipelineStep(a), UNCHANGED toldVars
    PROVE  AttemptInv(a)' /\ \A b \in Attempts : b # a => SameOf(b)
<1> USE DEF portalVars, toldVars, Steps, VectorSteps, RasterSteps, Early
<1>range. /\ item[a] \in {"none", "live", "deleted"} /\ job[a] \in [Layers -> JobStates]
      /\ probed[a] \in 0 .. MaxLayers /\ enqueued[a] \in 0 .. MaxLayers
      /\ waited[a] \in 0 .. MaxLayers /\ MaxLayers \in Nat
      /\ kind[a] \in {"none", "raster"} \cup Uploads
  BY BoundAssumption DEF IInv, TypeOK, PipelineTypeOK
<1>inv. /\ CauseAndPlace(a) /\ ItemIsHeld(a) /\ JobsAreMade(a) /\ ToldIsSo(a)
  BY DEF IInv, AttemptInv
<1>type. TypeOK /\ PipelineTypeOK
  BY DEF IInv, TypeOK
<1>1. CASE SeeCancel(a)
  <2> USE <1>1 DEF SeeCancel, Raise, Guarded
  <2>1. \A b \in Attempts : b # a => SameOf(b)
    BY <1>type DEF TypeOK, PipelineTypeOK, SameOf
  <2>2. CauseAndPlace(a)'
    BY <1>range, <1>inv, <1>type DEF TypeOK, PipelineTypeOK, CauseAndPlace
  <2>3. ItemIsHeld(a)'
    BY <1>range, <1>inv, <1>type DEF TypeOK, PipelineTypeOK, CauseAndPlace, ItemIsHeld, Kept, Guarded
  <2>4. JobsAreMade(a)'
    BY <1>range, <1>inv, <1>type DEF TypeOK, PipelineTypeOK, CauseAndPlace, JobsAreMade, Kept, Layers
  <2>5. ToldIsSo(a)'
    BY <1>range, <1>inv, <1>type DEF TypeOK, PipelineTypeOK, CauseAndPlace, ToldIsSo
  <2> QED
    BY <2>1, <2>2, <2>3, <2>4, <2>5 DEF AttemptInv
<1>2. CASE CallFails(a)
  <2> USE <1>2 DEF CallFails, Raise, Guarded
  <2>1. \A b \in Attempts : b # a => SameOf(b)
    BY <1>type DEF TypeOK, PipelineTypeOK, SameOf
  <2>2. CauseAndPlace(a)'
    BY <1>range, <1>inv, <1>type DEF TypeOK, PipelineTypeOK, CauseAndPlace
  <2>3. ItemIsHeld(a)'
    BY <1>range, <1>inv, <1>type DEF TypeOK, PipelineTypeOK, CauseAndPlace, ItemIsHeld, Kept, Guarded
  <2>4. JobsAreMade(a)'
    BY <1>range, <1>inv, <1>type DEF TypeOK, PipelineTypeOK, CauseAndPlace, JobsAreMade, Kept, Layers
  <2>5. ToldIsSo(a)'
    BY <1>range, <1>inv, <1>type DEF TypeOK, PipelineTypeOK, CauseAndPlace, ToldIsSo
  <2> QED
    BY <2>1, <2>2, <2>3, <2>4, <2>5 DEF AttemptInv
<1>3. CASE DeleteItemQuietly(a)
  <2> USE <1>3 DEF DeleteItemQuietly, Go
  <2>1. \A b \in Attempts : b # a => SameOf(b)
    BY <1>type DEF TypeOK, PipelineTypeOK, SameOf
  <2>2. CauseAndPlace(a)'
    BY <1>range, <1>inv, <1>type DEF TypeOK, PipelineTypeOK, CauseAndPlace
  <2>3. ItemIsHeld(a)'
    BY <1>range, <1>inv, <1>type DEF TypeOK, PipelineTypeOK, CauseAndPlace, ItemIsHeld, Kept, Guarded
  <2>4. JobsAreMade(a)'
    BY <1>range, <1>inv, <1>type DEF TypeOK, PipelineTypeOK, CauseAndPlace, JobsAreMade, Kept, Layers
  <2>5. ToldIsSo(a)'
    BY <1>range, <1>inv, <1>type DEF TypeOK, PipelineTypeOK, CauseAndPlace, ToldIsSo
  <2> QED
    BY <2>1, <2>2, <2>3, <2>4, <2>5 DEF AttemptInv
<1>4. CASE CreateItem(a)
  <2> USE <1>4 DEF CreateItem, Go, Raise, Guarded
  <2>1. \A b \in Attempts : b # a => SameOf(b)
    BY <1>type DEF TypeOK, PipelineTypeOK, SameOf
  <2>2. CauseAndPlace(a)'
    BY <1>range, <1>inv, <1>type DEF TypeOK, PipelineTypeOK, CauseAndPlace
  <2>3. ItemIsHeld(a)'
    BY <1>range, <1>inv, <1>type DEF TypeOK, PipelineTypeOK, CauseAndPlace, ItemIsHeld, Kept, Guarded
  <2>4. JobsAreMade(a)'
    BY <1>range, <1>inv, <1>type DEF TypeOK, PipelineTypeOK, CauseAndPlace, JobsAreMade, Kept, Layers
  <2>5. ToldIsSo(a)'
    BY <1>range, <1>inv, <1>type DEF TypeOK, PipelineTypeOK, CauseAndPlace, ToldIsSo
  <2> QED
    BY <2>1, <2>2, <2>3, <2>4, <2>5 DEF AttemptInv
<1>5. CASE Export(a)
  <2> USE <1>5 DEF Export, Go, Raise, Guarded
  <2>1. \A b \in Attempts : b # a => SameOf(b)
    BY <1>type DEF TypeOK, PipelineTypeOK, SameOf
  <2>2. CauseAndPlace(a)'
    BY <1>range, <1>inv, <1>type DEF TypeOK, PipelineTypeOK, CauseAndPlace
  <2>3. ItemIsHeld(a)'
    BY <1>range, <1>inv, <1>type DEF TypeOK, PipelineTypeOK, CauseAndPlace, ItemIsHeld, Kept, Guarded
  <2>4. JobsAreMade(a)'
    BY <1>range, <1>inv, <1>type DEF TypeOK, PipelineTypeOK, CauseAndPlace, JobsAreMade, Kept, Layers
  <2>5. ToldIsSo(a)'
    BY <1>range, <1>inv, <1>type DEF TypeOK, PipelineTypeOK, CauseAndPlace, ToldIsSo
  <2> QED
    BY <2>1, <2>2, <2>3, <2>4, <2>5 DEF AttemptInv
<1>6. CASE Stage(a)
  <2> USE <1>6 DEF Stage, Go
  <2>1. \A b \in Attempts : b # a => SameOf(b)
    BY <1>type DEF TypeOK, PipelineTypeOK, SameOf
  <2>2. CauseAndPlace(a)'
    BY <1>range, <1>inv, <1>type DEF TypeOK, PipelineTypeOK, CauseAndPlace
  <2>3. ItemIsHeld(a)'
    BY <1>range, <1>inv, <1>type DEF TypeOK, PipelineTypeOK, CauseAndPlace, ItemIsHeld, Kept, Guarded
  <2>4. JobsAreMade(a)'
    <3>1. enqueued[a] = 0 /\ waited[a] = 0 /\ pc'[a] = "probe" /\ UNCHANGED <<enqueued, waited, kind, job, cause>>
      BY <1>range, <1>inv, <1>type DEF JobsAreMade, PipelineTypeOK
    <3>2. PICK n \in 0 .. IF kind[a] = "batch" THEN MaxLayers ELSE 1 : probed' = [probed EXCEPT ![a] = n]
      OBVIOUS
    <3>3. probed'[a] = n
      BY <1>type, <3>2 DEF PipelineTypeOK
    <3>4. probed'[a] \in 0 .. MaxLayers /\ (kind[a] = "vector" => probed'[a] <= 1)
      BY <1>range, <3>2, <3>3, BoundAssumption
    <3>5. \A k \in Layers : job[a][k] # "void"
      BY <1>inv DEF JobsAreMade
    <3> QED
      BY <1>range, <1>inv, <3>1, <3>4, <3>5 DEF JobsAreMade, Kept
  <2>5. ToldIsSo(a)'
    BY <1>range, <1>inv, <1>type DEF TypeOK, PipelineTypeOK, CauseAndPlace, ToldIsSo
  <2> QED
    BY <2>1, <2>2, <2>3, <2>4, <2>5 DEF AttemptInv
<1>7. CASE Probe(a)
  <2> USE <1>7 DEF Probe, Go, Raise, Guarded
  <2>1. \A b \in Attempts : b # a => SameOf(b)
    BY <1>type DEF TypeOK, PipelineTypeOK, SameOf
  <2>2. CauseAndPlace(a)'
    BY <1>range, <1>inv, <1>type DEF TypeOK, PipelineTypeOK, CauseAndPlace
  <2>3. ItemIsHeld(a)'
    BY <1>range, <1>inv, <1>type DEF TypeOK, PipelineTypeOK, CauseAndPlace, ItemIsHeld, Kept, Guarded
  <2>4. JobsAreMade(a)'
    BY <1>range, <1>inv, <1>type DEF TypeOK, PipelineTypeOK, CauseAndPlace, JobsAreMade, Kept, Layers
  <2>5. ToldIsSo(a)'
    BY <1>range, <1>inv, <1>type DEF TypeOK, PipelineTypeOK, CauseAndPlace, ToldIsSo
  <2> QED
    BY <2>1, <2>2, <2>3, <2>4, <2>5 DEF AttemptInv
<1>8. CASE Enqueue(a)
  <2> USE <1>8 DEF Enqueue, Raise, Guarded
  <2>1. \A b \in Attempts : b # a => SameOf(b)
    BY <1>type DEF TypeOK, PipelineTypeOK, SameOf
  <2>2. CauseAndPlace(a)'
    BY <1>range, <1>inv, <1>type DEF TypeOK, PipelineTypeOK, CauseAndPlace
  <2>3. ItemIsHeld(a)'
    BY <1>range, <1>inv, <1>type DEF TypeOK, PipelineTypeOK, CauseAndPlace, ItemIsHeld, Kept, Guarded
  <2>4. JobsAreMade(a)'
    <3>1. /\ enqueued'[a] \in {enqueued[a], enqueued[a] + 1} /\ probed' = probed /\ waited' = waited
          /\ kind' = kind /\ pc'[a] \in {"enqueue", "clean"} /\ pc[a] = "enqueue"
          /\ enqueued[a] < probed[a] /\ cause[a] = "none"
      BY <1>range, <1>inv, <1>type DEF TypeOK, PipelineTypeOK, CauseAndPlace
    <3>2. enqueued[a] + 1 \in Layers
      BY <1>range, <3>1 DEF Layers
    <3>3. job'[a] = [job[a] EXCEPT ![enqueued[a] + 1] = "active"]
      BY <1>type DEF PipelineTypeOK
    <3>4. /\ job'[a][enqueued[a] + 1] = "active"
          /\ \A k \in Layers : k # enqueued[a] + 1 => job'[a][k] = job[a][k]
      BY <1>range, <3>2, <3>3, BoundAssumption
    <3>5. \A k \in Layers : k \in Nat /\ (k <= enqueued'[a] => k <= enqueued[a] \/ k = enqueued[a] + 1)
      BY <1>range, <3>1 DEF Layers
    <3>6. \A k \in Layers : k <= waited[a] => k # enqueued[a] + 1
      BY <1>range, <1>inv DEF Layers, JobsAreMade
    <3>7. \A k \in Layers : job[a][k] # "void"
      BY <1>inv, <3>1 DEF JobsAreMade
    <3> QED
      BY <1>range, <1>inv, <3>1, <3>4, <3>5, <3>6, <3>7 DEF JobsAreMade, Kept
  <2>5. ToldIsSo(a)'
    BY <1>range, <1>inv, <1>type DEF TypeOK, PipelineTypeOK, CauseAndPlace, ToldIsSo
  <2> QED
    BY <2>1, <2>2, <2>3, <2>4, <2>5 DEF AttemptInv
<1>9. CASE EnqueuedAll(a)
  <2> USE <1>9 DEF EnqueuedAll, Go
  <2>1. \A b \in Attempts : b # a => SameOf(b)
    BY <1>type DEF TypeOK, PipelineTypeOK, SameOf
  <2>2. CauseAndPlace(a)'
    BY <1>range, <1>inv, <1>type DEF TypeOK, PipelineTypeOK, CauseAndPlace
  <2>3. ItemIsHeld(a)'
    BY <1>range, <1>inv, <1>type DEF TypeOK, PipelineTypeOK, CauseAndPlace, ItemIsHeld, Kept, Guarded
  <2>4. JobsAreMade(a)'
    BY <1>range, <1>inv, <1>type DEF TypeOK, PipelineTypeOK, CauseAndPlace, JobsAreMade, Kept, Layers
  <2>5. ToldIsSo(a)'
    BY <1>range, <1>inv, <1>type DEF TypeOK, PipelineTypeOK, CauseAndPlace, ToldIsSo
  <2> QED
    BY <2>1, <2>2, <2>3, <2>4, <2>5 DEF AttemptInv
<1>10. CASE CheckSpace(a)
  <2> USE <1>10 DEF CheckSpace, Go, Raise, Guarded
  <2>1. \A b \in Attempts : b # a => SameOf(b)
    BY <1>type DEF TypeOK, PipelineTypeOK, SameOf
  <2>2. CauseAndPlace(a)'
    BY <1>range, <1>inv, <1>type DEF TypeOK, PipelineTypeOK, CauseAndPlace
  <2>3. ItemIsHeld(a)'
    BY <1>range, <1>inv, <1>type DEF TypeOK, PipelineTypeOK, CauseAndPlace, ItemIsHeld, Kept, Guarded
  <2>4. JobsAreMade(a)'
    BY <1>range, <1>inv, <1>type DEF TypeOK, PipelineTypeOK, CauseAndPlace, JobsAreMade, Kept, Layers
  <2>5. ToldIsSo(a)'
    BY <1>range, <1>inv, <1>type DEF TypeOK, PipelineTypeOK, CauseAndPlace, ToldIsSo
  <2> QED
    BY <2>1, <2>2, <2>3, <2>4, <2>5 DEF AttemptInv
<1>11. CASE Presign(a)
  <2> USE <1>11 DEF Presign, Go
  <2>1. \A b \in Attempts : b # a => SameOf(b)
    BY <1>type DEF TypeOK, PipelineTypeOK, SameOf
  <2>2. CauseAndPlace(a)'
    BY <1>range, <1>inv, <1>type DEF TypeOK, PipelineTypeOK, CauseAndPlace
  <2>3. ItemIsHeld(a)'
    BY <1>range, <1>inv, <1>type DEF TypeOK, PipelineTypeOK, CauseAndPlace, ItemIsHeld, Kept, Guarded
  <2>4. JobsAreMade(a)'
    BY <1>range, <1>inv, <1>type DEF TypeOK, PipelineTypeOK, CauseAndPlace, JobsAreMade, Kept, Layers
  <2>5. ToldIsSo(a)'
    BY <1>range, <1>inv, <1>type DEF TypeOK, PipelineTypeOK, CauseAndPlace, ToldIsSo
  <2> QED
    BY <2>1, <2>2, <2>3, <2>4, <2>5 DEF AttemptInv
<1>12. CASE Upload(a)
  <2> USE <1>12 DEF Upload, Go
  <2>1. \A b \in Attempts : b # a => SameOf(b)
    BY <1>type DEF TypeOK, PipelineTypeOK, SameOf
  <2>2. CauseAndPlace(a)'
    BY <1>range, <1>inv, <1>type DEF TypeOK, PipelineTypeOK, CauseAndPlace
  <2>3. ItemIsHeld(a)'
    BY <1>range, <1>inv, <1>type DEF TypeOK, PipelineTypeOK, CauseAndPlace, ItemIsHeld, Kept, Guarded
  <2>4. JobsAreMade(a)'
    BY <1>range, <1>inv, <1>type DEF TypeOK, PipelineTypeOK, CauseAndPlace, JobsAreMade, Kept, Layers
  <2>5. ToldIsSo(a)'
    BY <1>range, <1>inv, <1>type DEF TypeOK, PipelineTypeOK, CauseAndPlace, ToldIsSo
  <2> QED
    BY <2>1, <2>2, <2>3, <2>4, <2>5 DEF AttemptInv
<1>13. CASE Finalize(a)
  <2> USE <1>13 DEF Finalize, Go, Raise, Guarded
  <2>1. \A b \in Attempts : b # a => SameOf(b)
    BY <1>type DEF TypeOK, PipelineTypeOK, SameOf
  <2>2. CauseAndPlace(a)'
    BY <1>range, <1>inv, <1>type DEF TypeOK, PipelineTypeOK, CauseAndPlace
  <2>3. ItemIsHeld(a)'
    BY <1>range, <1>inv, <1>type DEF TypeOK, PipelineTypeOK, CauseAndPlace, ItemIsHeld, Kept, Guarded
  <2>4. JobsAreMade(a)'
    BY <1>range, <1>inv, <1>type DEF TypeOK, PipelineTypeOK, CauseAndPlace, JobsAreMade, Kept, Layers
  <2>5. ToldIsSo(a)'
    BY <1>range, <1>inv, <1>type DEF TypeOK, PipelineTypeOK, CauseAndPlace, ToldIsSo
  <2> QED
    BY <2>1, <2>2, <2>3, <2>4, <2>5 DEF AttemptInv
<1> QED
  BY <1>1, <1>2, <1>3, <1>4, <1>5, <1>6, <1>7, <1>8, <1>9, <1>10, <1>11, <1>12, <1>13 DEF PipelineStep

\* A job that ends, or is cancelled, was active: nothing that is said of a
\* publish rested on it.
LEMMA JobMoveKeeps ==
    ASSUME IInv, NEW a \in Attempts, NEW k \in Layers, NEW s \in Terminal,
           job[a][k] = "active", job' = [job EXCEPT ![a][k] = s],
           UNCHANGED <<item, ready, kind, pc, probed, enqueued, cause, note, toldVars>>
    PROVE  \A b \in Attempts : AttemptInv(b)'
<1>1. \A b \in Attempts : b # a => SameOf(b)
  BY DEF IInv, TypeOK, PipelineTypeOK, SameOf, toldVars
<1>2. AttemptInv(a)'
  <2>0. CauseAndPlace(a) /\ ItemIsHeld(a) /\ JobsAreMade(a) /\ ToldIsSo(a)
    BY DEF IInv, AttemptInv
  <2>1. \A n \in Layers : job'[a][n] = IF n = k THEN s ELSE job[a][n]
    BY DEF IInv, TypeOK, PipelineTypeOK
  <2>2. CauseAndPlace(a)' /\ ItemIsHeld(a)'
    BY <2>0 DEF CauseAndPlace, ItemIsHeld, Kept, Guarded
  <2>3. JobsAreMade(a)'
    BY <2>0, <2>1 DEF JobsAreMade, Kept, toldVars, Terminal
  <2>4. ToldIsSo(a)'
    BY <2>0, <2>1 DEF ToldIsSo, toldVars
  <2> QED
    BY <2>2, <2>3, <2>4 DEF AttemptInv
<1> QED
  BY <1>1, <1>2, Frame DEF IInv

\* A publish begins.
LEMMA BeginKeeps ==
    ASSUME IInv, NEW a \in Attempts, NEW k \in {"raster"} \cup Uploads, Begin(a, k),
           UNCHANGED toldVars
    PROVE  \A b \in Attempts : AttemptInv(b)'
<1>1. \A b \in Attempts : b # a => SameOf(b)
  BY DEF IInv, TypeOK, PipelineTypeOK, Begin, portalVars, SameOf, toldVars
<1>2. AttemptInv(a)'
  <2>0. CauseAndPlace(a) /\ ItemIsHeld(a) /\ JobsAreMade(a) /\ ToldIsSo(a)
    BY DEF IInv, AttemptInv
  <2>1. kind[a] = "none" /\ pc[a] = "idle" /\ cause[a] = "none"
    BY <2>0 DEF Begin, Fresh, CauseAndPlace
  <2>2. kind'[a] = k /\ pc'[a] = IF k = "raster" THEN "create" ELSE "export"
    BY DEF IInv, TypeOK, PipelineTypeOK, Begin, FirstStep
  <2>3. CauseAndPlace(a)'
    BY <2>1, <2>2 DEF CauseAndPlace, Begin, Steps, VectorSteps, RasterSteps
  <2>4. ItemIsHeld(a)'
    BY <2>0, <2>1, <2>2 DEF ItemIsHeld, Begin, portalVars, Kept, Guarded, Early
  <2>5. JobsAreMade(a)'
    <3>1. enqueued[a] = 0 /\ probed[a] = 0
      BY <2>0, <2>1 DEF JobsAreMade
    <3> QED
      BY <2>0, <2>1, <2>2, <3>1 DEF JobsAreMade, Begin, portalVars, toldVars, Kept, Early
  <2>6. ToldIsSo(a)'
    BY <2>0, <2>1 DEF ToldIsSo, toldVars
  <2> QED
    BY <2>3, <2>4, <2>5, <2>6 DEF AttemptInv
<1> QED
  BY <1>1, <1>2, Frame DEF IInv

\* The end of a publish, and the steps of an algorithm's wait.
LEMMA CallbackKeeps ==
    ASSUME IInv, NEW a \in Attempts, Callback(a) \/ WaitForImportJob(a)
    PROVE  \A b \in Attempts : AttemptInv(b)'
<1> USE DEF EndedQuietly, portalVars, toldVars, Ended, Go, Tell
<1>0. TypeOK /\ PipelineTypeOK
  BY DEF IInv, TypeOK
<1>1. CauseAndPlace(a) /\ ItemIsHeld(a) /\ JobsAreMade(a) /\ ToldIsSo(a)
  BY DEF IInv, AttemptInv
<1>2. /\ probed[a] \in 0 .. MaxLayers /\ enqueued[a] \in 0 .. MaxLayers
      /\ waited[a] \in 0 .. MaxLayers /\ MaxLayers \in Nat
  BY <1>0, BoundAssumption DEF TypeOK, PipelineTypeOK
<1> SUFFICES /\ AttemptInv(a)'
             /\ \A b \in Attempts : b # a => SameOf(b)
  BY Frame DEF IInv
<1>10. CASE VectorDone(a)
  <2>1. \A b \in Attempts : b # a => SameOf(b)
    BY <1>0, <1>10 DEF VectorDone, TypeOK, PipelineTypeOK, SameOf
  <2>2. CauseAndPlace(a)'
    BY <1>0, <1>1, <1>10 DEF VectorDone, PipelineTypeOK, CauseAndPlace, Steps, VectorSteps, RasterSteps
  <2>3. ItemIsHeld(a)'
    BY <1>0, <1>1, <1>10 DEF VectorDone, PipelineTypeOK, CauseAndPlace, ItemIsHeld, Kept, Guarded, Early
  <2>4. JobsAreMade(a)'
    BY <1>0, <1>1, <1>2, <1>10 DEF VectorDone, TypeOK, PipelineTypeOK, CauseAndPlace, JobsAreMade, Kept, Early
  <2>5. ToldIsSo(a)'
    BY <1>0, <1>1, <1>2, <1>10 DEF VectorDone, TypeOK, PipelineTypeOK, CauseAndPlace, JobsAreMade, Kept, ToldIsSo, AllJobsOver
  <2> QED
    BY <2>1, <2>2, <2>3, <2>4, <2>5 DEF AttemptInv
<1>11. CASE PublishFailed(a)
  <2>1. \A b \in Attempts : b # a => SameOf(b)
    BY <1>0, <1>11 DEF PublishFailed, TypeOK, PipelineTypeOK, SameOf
  <2>2. CauseAndPlace(a)'
    BY <1>0, <1>1, <1>11 DEF PublishFailed, PipelineTypeOK, CauseAndPlace, Steps, VectorSteps, RasterSteps
  <2>3. ItemIsHeld(a)'
    BY <1>0, <1>1, <1>11 DEF PublishFailed, PipelineTypeOK, CauseAndPlace, ItemIsHeld, Kept, Guarded, Early
  <2>4. JobsAreMade(a)'
    BY <1>0, <1>1, <1>2, <1>11 DEF PublishFailed, TypeOK, PipelineTypeOK, CauseAndPlace, JobsAreMade, Kept, Early
  <2>5. ToldIsSo(a)'
    BY <1>0, <1>1, <1>2, <1>11 DEF PublishFailed, TypeOK, PipelineTypeOK, CauseAndPlace, JobsAreMade, Kept, ToldIsSo, AllJobsOver
  <2> QED
    BY <2>1, <2>2, <2>3, <2>4, <2>5 DEF AttemptInv
<1>12. CASE RasterDone(a)
  <2>1. \A b \in Attempts : b # a => SameOf(b)
    BY <1>0, <1>12 DEF RasterDone, TypeOK, PipelineTypeOK, SameOf
  <2>2. CauseAndPlace(a)'
    BY <1>0, <1>1, <1>12 DEF RasterDone, PipelineTypeOK, CauseAndPlace, Steps, VectorSteps, RasterSteps
  <2>3. ItemIsHeld(a)'
    BY <1>0, <1>1, <1>12 DEF RasterDone, PipelineTypeOK, CauseAndPlace, ItemIsHeld, Kept, Guarded, Early
  <2>4. JobsAreMade(a)'
    BY <1>0, <1>1, <1>2, <1>12 DEF RasterDone, TypeOK, PipelineTypeOK, CauseAndPlace, JobsAreMade, Kept, Early
  <2>5. ToldIsSo(a)'
    BY <1>0, <1>1, <1>2, <1>12 DEF RasterDone, TypeOK, PipelineTypeOK, CauseAndPlace, JobsAreMade, Kept, ToldIsSo, AllJobsOver
  <2> QED
    BY <2>1, <2>2, <2>3, <2>4, <2>5 DEF AttemptInv
<1>13. CASE AlgorithmFailed(a)
  <2>1. \A b \in Attempts : b # a => SameOf(b)
    BY <1>0, <1>13 DEF AlgorithmFailed, TypeOK, PipelineTypeOK, SameOf
  <2>2. CauseAndPlace(a)'
    BY <1>0, <1>1, <1>13 DEF AlgorithmFailed, PipelineTypeOK, CauseAndPlace, Steps, VectorSteps, RasterSteps
  <2>3. ItemIsHeld(a)'
    BY <1>0, <1>1, <1>13 DEF AlgorithmFailed, PipelineTypeOK, CauseAndPlace, ItemIsHeld, Kept, Guarded, Early
  <2>4. JobsAreMade(a)'
    BY <1>0, <1>1, <1>2, <1>13 DEF AlgorithmFailed, TypeOK, PipelineTypeOK, CauseAndPlace, JobsAreMade, Kept, Early
  <2>5. ToldIsSo(a)'
    BY <1>0, <1>1, <1>2, <1>13 DEF AlgorithmFailed, TypeOK, PipelineTypeOK, CauseAndPlace, JobsAreMade, Kept, ToldIsSo, AllJobsOver
  <2> QED
    BY <2>1, <2>2, <2>3, <2>4, <2>5 DEF AttemptInv
<1>14. CASE AlgorithmReturned(a)
  <2>1. \A b \in Attempts : b # a => SameOf(b)
    BY <1>0, <1>14 DEF AlgorithmReturned, TypeOK, PipelineTypeOK, SameOf
  <2>2. CauseAndPlace(a)'
    BY <1>0, <1>1, <1>14 DEF AlgorithmReturned, PipelineTypeOK, CauseAndPlace, Steps, VectorSteps, RasterSteps
  <2>3. ItemIsHeld(a)'
    BY <1>0, <1>1, <1>14 DEF AlgorithmReturned, PipelineTypeOK, CauseAndPlace, ItemIsHeld, Kept, Guarded, Early
  <2>4. JobsAreMade(a)'
    BY <1>0, <1>1, <1>2, <1>14 DEF AlgorithmReturned, TypeOK, PipelineTypeOK, CauseAndPlace, JobsAreMade, Kept, Early
  <2>5. ToldIsSo(a)'
    BY <1>0, <1>1, <1>2, <1>14 DEF AlgorithmReturned, TypeOK, PipelineTypeOK, CauseAndPlace, JobsAreMade, Kept, ToldIsSo, AllJobsOver
  <2> QED
    BY <2>1, <2>2, <2>3, <2>4, <2>5 DEF AttemptInv
<1>15. CASE AlgorithmPublished(a)
  <2>1. \A b \in Attempts : b # a => SameOf(b)
    BY <1>0, <1>15 DEF AlgorithmPublished, TypeOK, PipelineTypeOK, SameOf
  <2>2. CauseAndPlace(a)'
    BY <1>0, <1>1, <1>15 DEF AlgorithmPublished, PipelineTypeOK, CauseAndPlace, Steps, VectorSteps, RasterSteps
  <2>3. ItemIsHeld(a)'
    BY <1>0, <1>1, <1>15 DEF AlgorithmPublished, PipelineTypeOK, CauseAndPlace, ItemIsHeld, Kept, Guarded, Early
  <2>4. JobsAreMade(a)'
    BY <1>0, <1>1, <1>2, <1>15 DEF AlgorithmPublished, TypeOK, PipelineTypeOK, CauseAndPlace, JobsAreMade, Kept, Early
  <2>5. ToldIsSo(a)'
    BY <1>0, <1>1, <1>2, <1>15 DEF AlgorithmPublished, TypeOK, PipelineTypeOK, CauseAndPlace, JobsAreMade, Kept, ToldIsSo, AllJobsOver
  <2> QED
    BY <2>1, <2>2, <2>3, <2>4, <2>5 DEF AttemptInv
<1>16. CASE WaitForImportJob(a)
  <2>1. \A b \in Attempts : b # a => SameOf(b)
    BY <1>0, <1>16 DEF WaitForImportJob, TypeOK, PipelineTypeOK, SameOf
  <2>2. CauseAndPlace(a)'
    BY <1>0, <1>1, <1>16 DEF WaitForImportJob, PipelineTypeOK, CauseAndPlace, Steps, VectorSteps, RasterSteps
  <2>3. ItemIsHeld(a)'
    BY <1>0, <1>1, <1>16 DEF WaitForImportJob, PipelineTypeOK, CauseAndPlace, ItemIsHeld, Kept, Guarded, Early
  <2>4. JobsAreMade(a)'
    <3>1. waited[a] < enqueued[a]
      BY <1>1, <1>2, <1>16 DEF WaitForImportJob, AllJobsOver, JobsAreMade
    <3>2. UNCHANGED <<kind, probed, enqueued, job, cause>> /\ pc[a] = "waiting"
      BY <1>16 DEF WaitForImportJob
    <3>3. CASE /\ job[a][waited[a] + 1] = "succeeded"
               /\ waited' = [waited EXCEPT ![a] = waited[a] + 1]
               /\ UNCHANGED pc
      <4>1. waited'[a] = waited[a] + 1
        BY <1>0, <3>3 DEF TypeOK
      <4>2. \A k \in Layers : k <= waited'[a] => job[a][k] = "succeeded"
        BY <1>1, <1>2, <3>3, <4>1 DEF JobsAreMade, Layers
      <4> QED
        BY <1>1, <1>2, <3>1, <3>2, <3>3, <4>1, <4>2 DEF JobsAreMade, Kept
    <3>4. CASE pc' = [pc EXCEPT ![a] = "over"] /\ UNCHANGED waited
      <4>1. pc'[a] = "over" /\ cause[a] = "none"
        BY <1>0, <1>1, <3>2, <3>4 DEF PipelineTypeOK, CauseAndPlace
      <4> QED
        BY <1>1, <1>2, <3>2, <3>4, <4>1 DEF JobsAreMade, Kept, Early
    <3> QED
      BY <1>16, <3>3, <3>4 DEF WaitForImportJob
  <2>5. ToldIsSo(a)'
    BY <1>0, <1>1, <1>2, <1>16 DEF WaitForImportJob, TypeOK, PipelineTypeOK, CauseAndPlace, JobsAreMade, Kept, ToldIsSo, AllJobsOver
  <2> QED
    BY <2>1, <2>2, <2>3, <2>4, <2>5 DEF AttemptInv
<1> QED
  BY <1>10, <1>11, <1>12, <1>13, <1>14, <1>15, <1>16 DEF Callback

-----------------------------------------------------------------------------
(* What holds of the dialog                                                *)

\* A step of anybody else: no publish of the dialog comes into course, and the
\* one that is watched stays as it ended.
LEMMA DialogFrame ==
    ASSUME IInv, UNCHANGED <<busy, watch, timer, poll>>,
           \A b \in Attempts : InCourse(b)' => InCourse(b),
           watch # 0 => /\ kind'[watch] = kind[watch] /\ pc'[watch] = pc[watch]
                        /\ cause'[watch] = cause[watch]
                        /\ job[watch][1] = "succeeded" => job'[watch][1] = "succeeded"
    PROVE  DialogInv'
<1>1. DialogInv
  BY DEF IInv
<1>2. ~busy' => poll' = "none" /\ ~timer' /\ \A a \in Attempts : ~InCourse(a)'
  BY <1>1 DEF DialogInv
<1>3. \A a, b \in Attempts : InCourse(a)' /\ InCourse(b)' => a = b
  BY <1>1 DEF DialogInv
<1>4. (\E a \in Attempts : InCourse(a)') => poll' = "none" /\ ~timer'
  BY <1>1 DEF DialogInv
<1>5. timer' \/ poll' # "none" => watch' # 0
  BY <1>1 DEF DialogInv
<1>6. watch' # 0 => kind'[watch'] = "vector" /\ pc'[watch'] = "over" /\ cause'[watch'] = "none"
  BY <1>1 DEF DialogInv
<1>7. poll' = "succeeded" => job'[watch'][1] = "succeeded"
  BY <1>1 DEF DialogInv
<1> QED
  BY <1>2, <1>3, <1>4, <1>5, <1>6, <1>7 DEF DialogInv

\* The publish the dialog watches is a vector publish whose pipeline is over.
LEMMA WatchIsOver ==
    ASSUME IInv, watch # 0
    PROVE  watch \in Attempts /\ 1 \in Layers /\ kind[watch] = "vector" /\ pc[watch] = "over"
BY WatchedJobIsReal DEF IInv, DialogInv

\* A step of a pipeline ends no publish, and touches no other.
LEMMA PipelineDialog ==
    ASSUME IInv, NEW a \in Attempts, PipelineStep(a), UNCHANGED dialogVars
    PROVE  DialogInv'
<1>1. pc[a] # "over" /\ pc'[a] # "over" /\ kind' = kind
  BY DEF IInv, TypeOK, PipelineTypeOK, PipelineStep, SeeCancel, CallFails, DeleteItemQuietly,
         CreateItem, Export, Stage, Probe, Enqueue, EnqueuedAll, CheckSpace, Presign, Upload,
         Finalize, Go, Raise, Guarded
<1>2. \A b \in Attempts : b # a => pc'[b] = pc[b] /\ cause'[b] = cause[b] /\ job'[b] = job[b]
  BY DEF IInv, TypeOK, PipelineTypeOK, PipelineStep, SeeCancel, CallFails, DeleteItemQuietly,
         CreateItem, Export, Stage, Probe, Enqueue, EnqueuedAll, CheckSpace, Presign, Upload,
         Finalize, Go, Raise, Guarded, portalVars
<1>3. \A b \in Attempts : InCourse(b)' => InCourse(b)
  BY <1>1, <1>2 DEF InCourse
<1> QED
  BY <1>1, <1>2, <1>3, WatchIsOver, DialogFrame DEF dialogVars

\* A step of an algorithm's publish is none of the dialog's.
LEMMA AlgorithmDialog ==
    ASSUME IInv, NEW a \in Attempts, UNCHANGED <<dialogVars, job, cause>>,
           kind[a] \in {"none"} \cup Algorithms, kind'[a] \in Algorithms,
           \A b \in Attempts : b # a => kind'[b] = kind[b] /\ pc'[b] = pc[b]
    PROVE  DialogInv'
<1>1. \A b \in Attempts : InCourse(b)' => InCourse(b)
  BY DEF InCourse
<1> QED
  BY <1>1, WatchIsOver, DialogFrame DEF dialogVars

\* A job moves on.
LEMMA JobMoveDialog ==
    ASSUME IInv, NEW a \in Attempts, NEW k \in Layers, NEW s,
           job[a][k] = "active", job' = [job EXCEPT ![a][k] = s],
           UNCHANGED <<kind, pc, cause, busy, watch, timer, poll>>
    PROVE  DialogInv'
<1>1. \A b \in Attempts : InCourse(b)' => InCourse(b)
  BY DEF InCourse
<1>2. watch # 0 /\ job[watch][1] = "succeeded" => job'[watch][1] = "succeeded"
  BY WatchIsOver DEF IInv, TypeOK, PipelineTypeOK
<1> QED
  BY <1>1, <1>2, DialogFrame

\* A publish of the dialog begins only when there is none.
LEMMA PressDialog ==
    ASSUME IInv, NEW a \in Attempts, NEW k \in {"vector", "raster"}, PressPublish(a, k)
    PROVE  DialogInv'
<1>1. DialogInv /\ ~busy /\ poll = "none" /\ ~timer /\ \A b \in Attempts : ~InCourse(b)
  BY DEF IInv, DialogInv, PressPublish
<1>2. busy' /\ poll' = "none" /\ ~timer' /\ watch' = watch
  BY <1>1 DEF PressPublish
<1>3. /\ \A b \in Attempts : b # a => kind'[b] = kind[b] /\ pc'[b] = pc[b]
      /\ cause' = cause /\ kind[a] = "none"
  BY DEF IInv, TypeOK, PipelineTypeOK, PressPublish, Begin, Fresh
<1>4. \A b \in Attempts : InCourse(b)' => b = a
  BY <1>1, <1>3 DEF InCourse
<1>5. watch # 0 => watch \in Attempts /\ watch # a
  BY <1>3, WatchIsOver
<1>6. watch' # 0 => kind'[watch'] = "vector" /\ pc'[watch'] = "over" /\ cause'[watch'] = "none"
  BY <1>1, <1>2, <1>3, <1>5 DEF DialogInv
<1> QED
  BY <1>2, <1>4, <1>6 DEF DialogInv

\* The callbacks of the dialog's publishes.
LEMMA DoneDialog ==
    ASSUME IInv, NEW a \in Attempts, VectorDone(a) \/ PublishFailed(a) \/ RasterDone(a)
    PROVE  DialogInv'
<1>0. DialogInv /\ pc[a] # "over" /\ kind[a] \in {"vector", "raster"}
  BY DEF IInv, DialogInv, VectorDone, PublishFailed, RasterDone, Ended, Go
<1>1. InCourse(a)
  BY <1>0 DEF InCourse
<1>2. /\ busy /\ poll = "none" /\ ~timer
      /\ \A b \in Attempts : InCourse(b) => b = a
  BY <1>0, <1>1 DEF DialogInv
<1>3. /\ pc'[a] = "over" /\ kind' = kind /\ cause' = cause /\ poll' = poll
      /\ \A b \in Attempts : b # a => pc'[b] = pc[b]
  BY DEF IInv, TypeOK, PipelineTypeOK, VectorDone, PublishFailed, RasterDone, Ended, Go, EndedQuietly
<1>4. \A b \in Attempts : ~InCourse(b)'
  BY <1>2, <1>3 DEF InCourse
<1>5. watch # 0 => watch \in Attempts /\ watch # a
  BY <1>0, WatchIsOver
<1>6. CASE VectorDone(a)
  <2>1. watch' = a /\ busy' = busy /\ a # 0
    BY <1>6 DEF VectorDone, Attempts
  <2>2. kind[a] = "vector" /\ cause[a] = "none"
    BY <1>6 DEF VectorDone, Ended, Go, IInv, AttemptInv, CauseAndPlace
  <2> QED
    BY <1>2, <1>3, <1>4, <2>1, <2>2 DEF DialogInv
<1>7. CASE PublishFailed(a) \/ RasterDone(a)
  <2>1. watch' = watch /\ timer' = timer
    BY <1>7 DEF PublishFailed, RasterDone
  <2>2. watch' # 0 => kind'[watch'] = "vector" /\ pc'[watch'] = "over" /\ cause'[watch'] = "none"
    BY <1>0, <1>3, <1>5, <2>1 DEF DialogInv
  <2> QED
    BY <1>2, <1>3, <1>4, <2>1, <2>2 DEF DialogInv
<1> QED
  BY <1>6, <1>7

\* The timer, the poll, and the user who closes the dialog.
LEMMA PollDialog ==
    ASSUME IInv, Poll \/ Reject \/ RemoveConnection
    PROVE  DialogInv'
<1>0. DialogInv /\ busy \in BOOLEAN /\ timer \in BOOLEAN
  BY DEF IInv, TypeOK
<1>1. UNCHANGED <<kind, pc, cause, job>>
  BY DEF Poll, PollOnce, PollRead, PollDone, PollFailed, Reject, RemoveConnection, pipelineVars
<1>2. \A b \in Attempts : InCourse(b)' = InCourse(b)
  BY <1>1 DEF InCourse
<1>3. CASE PollOnce
  BY <1>0, <1>1, <1>2, <1>3 DEF PollOnce, DialogInv
<1>4. CASE PollRead
  BY <1>0, <1>1, <1>2, <1>4 DEF PollRead, DialogInv
<1>5. CASE PollDone
  BY <1>0, <1>1, <1>2, <1>5 DEF PollDone, JobFinished, JobAnswers, Terminal, DialogInv
<1>6. CASE PollFailed
  BY <1>0, <1>1, <1>2, <1>6 DEF PollFailed, DialogInv
<1>7. CASE Reject
  BY <1>0, <1>1, <1>2, <1>7 DEF Reject, DialogInv
<1>8. CASE RemoveConnection
  BY <1>0, <1>1, <1>2, <1>8 DEF RemoveConnection, dialogVars, DialogInv
<1> QED
  BY <1>3, <1>4, <1>5, <1>6, <1>7, <1>8 DEF Poll

-----------------------------------------------------------------------------
(* The inductive invariant                                                 *)

\* The invariant holds before the first publish.
LEMMA InvInit == Init => IInv
<1> SUFFICES ASSUME Init PROVE IInv
  OBVIOUS
<1> USE DEF Init, PipelineInit
<1>1. TypeOK
  <2>1. PipelineTypeOK
    BY BoundAssumption DEF PipelineTypeOK, Steps, JobStates
  <2>2. OwnTypeOK
    <3>1. 0 \in 0 .. MaxPublish /\ 0 \in 0 .. MaxLayers
      BY BoundAssumption
    <3>2. stamped \in [Attempts -> BOOLEAN]
      OBVIOUS
    <3> QED
      BY <3>1, <3>2 DEF OwnTypeOK, JobAnswers
  <2> QED
    BY <2>1, <2>2, BothTypes
<1>2. ASSUME NEW a \in Attempts PROVE AttemptInv(a)
  BY BoundAssumption DEF AttemptInv, CauseAndPlace, ItemIsHeld, JobsAreMade, ToldIsSo, Kept,
                         Guarded, Layers
<1>3. DialogInv
  BY DEF DialogInv, InCourse
<1> QED
  BY <1>1, <1>2, <1>3 DEF IInv

\* Every step of the system keeps what holds of every publish.
LEMMA AttemptStep == IInv /\ [Next]_vars => \A b \in Attempts : AttemptInv(b)'
<1> SUFFICES ASSUME IInv, [Next]_vars PROVE \A b \in Attempts : AttemptInv(b)'
  OBVIOUS
<1>0. 1 \in Layers
  BY BoundAssumption DEF Layers
<1>1. ASSUME UNCHANGED <<item, ready, job, kind, pc, probed, enqueued, cause, note, toldVars>>
      PROVE  \A b \in Attempts : AttemptInv(b)'
  BY <1>1, Frame DEF SameOf, toldVars, IInv
<1>2. ASSUME NEW a \in Attempts, Worker(a) PROVE \A b \in Attempts : AttemptInv(b)'
  <2>1. CASE PipelineStep(a) /\ UNCHANGED <<dialogVars, connected, toldVars>>
    BY <2>1, PipelineKeeps, Frame DEF IInv
  <2> QED
    BY <1>2, <2>1, CallbackKeeps DEF Worker
<1>3. ASSUME NEW a \in Attempts, Portal(a) PROVE \A b \in Attempts : AttemptInv(b)'
  BY <1>3, JobMoveKeeps DEF Portal, JobEnds, workerVars, Terminal
<1>4. ASSUME NEW a \in Attempts, CancelJob(a) PROVE \A b \in Attempts : AttemptInv(b)'
  <2>1. job \in [Attempts -> [Layers -> JobStates]]
    BY DEF IInv, TypeOK, PipelineTypeOK
  <2>2. CASE job[a][1] = "active" /\ job' = [job EXCEPT ![a][1] = "cancelled"]
    BY <1>0, <1>4, <2>2, JobMoveKeeps DEF CancelJob, workerVars, Terminal
  <2>3. CASE job' = job
    BY <1>1, <1>4, <2>3 DEF CancelJob, workerVars
  <2> QED
    BY <1>0, <1>4, <2>1, <2>2, <2>3 DEF CancelJob
<1>5. ASSUME User PROVE \A b \in Attempts : AttemptInv(b)'
  <2>1. ASSUME NEW a \in Attempts, NEW k \in {"vector", "raster"}, PressPublish(a, k)
        PROVE  \A b \in Attempts : AttemptInv(b)'
    BY <2>1, BeginKeeps DEF PressPublish
  <2>2. ASSUME NEW a \in Attempts, NEW k \in Algorithms, StartAlgorithm(a, k) PROVE \A b \in Attempts : AttemptInv(b)'
    BY <2>2, BeginKeeps DEF StartAlgorithm
  <2>3. ASSUME NEW a \in Attempts, CancelTask(a), UNCHANGED <<dialogVars, connected, toldVars>>
        PROVE  \A b \in Attempts : AttemptInv(b)'
    BY <1>1, <2>3 DEF CancelTask, portalVars
  <2>4. ASSUME Reject \/ RemoveConnection PROVE \A b \in Attempts : AttemptInv(b)'
    BY <1>1, <2>4 DEF Reject, RemoveConnection, pipelineVars
  <2> QED
    BY <1>5, <2>1, <2>2, <2>3, <2>4 DEF User
<1>6. ASSUME Poll PROVE \A b \in Attempts : AttemptInv(b)'
  <2>0. UNCHANGED pipelineVars /\ UNCHANGED <<waited, stamped>>
    BY <1>6 DEF Poll, PollOnce, PollRead, PollDone, PollFailed, toldVars
  <2>1. CASE told' = told
    BY <1>1, <2>0, <2>1 DEF pipelineVars, toldVars
  <2>2. ASSUME NEW w \in Attempts, w = watch, NEW what, Tell(w, what),
               what = "published" => poll = "succeeded"
        PROVE  \A b \in Attempts : AttemptInv(b)'
    <3>1. \A b \in Attempts : b # w => SameOf(b)
      BY <2>0, <2>2 DEF SameOf, pipelineVars, Tell, IInv, TypeOK
    <3>2. AttemptInv(w)'
      <4>0. kind[w] = "vector" /\ pc[w] = "over" /\ cause[w] = "none" /\ w # 0
        BY <2>2, WatchIsOver DEF IInv, DialogInv, Attempts
      <4>1. /\ CauseAndPlace(w) /\ ItemIsHeld(w) /\ JobsAreMade(w) /\ ToldIsSo(w)
            /\ probed[w] \in 0 .. MaxLayers
        BY DEF IInv, TypeOK, PipelineTypeOK, AttemptInv
      <4>2. CauseAndPlace(w)' /\ ItemIsHeld(w)'
        BY <2>0, <4>1 DEF CauseAndPlace, ItemIsHeld, Kept, Guarded, pipelineVars
      <4>3. JobsAreMade(w)'
        BY <2>0, <4>1 DEF JobsAreMade, Kept, pipelineVars
      <4>4. ToldIsSo(w)'
        <5>1. told'[w] = what
          BY <2>2 DEF Tell, IInv, TypeOK
        <5>2. what = "published" => \A k \in Layers : k <= probed[w] => job[w][k] = "succeeded"
          BY <2>2, <4>0, <4>1 DEF IInv, DialogInv, JobsAreMade, Layers
        <5> QED
          BY <2>0, <4>0, <4>1, <5>1, <5>2 DEF ToldIsSo, pipelineVars
      <4> QED
        BY <4>2, <4>3, <4>4 DEF AttemptInv
    <3> QED
      BY <3>1, <3>2, Frame DEF IInv
  <2>3. watch = 0 => told' = told
    <3>1. watch = 0 => watch \notin Attempts /\ poll = "none" /\ ~timer
      BY DEF IInv, DialogInv, Attempts
    <3> QED
      BY <1>6, <3>1 DEF Poll, PollOnce, PollRead, PollDone, PollFailed, toldVars, JobAnswers, Terminal
  <2>4. watch # 0 => watch \in Attempts
    BY WatchIsOver
  <2> QED
    BY <1>6, <2>1, <2>2, <2>3, <2>4
       DEF Poll, PollOnce, PollRead, PollDone, PollFailed, JobFinished, toldVars
<1>7. CASE UNCHANGED vars
  BY <1>1, <1>7 DEF vars, pipelineVars
<1> QED
  BY <1>2, <1>3, <1>4, <1>5, <1>6, <1>7 DEF Next

\* Every step of the system keeps what holds of the dialog.
LEMMA DialogStep == IInv /\ [Next]_vars => DialogInv'
<1> SUFFICES ASSUME IInv, [Next]_vars PROVE DialogInv'
  OBVIOUS
<1>0. 1 \in Layers
  BY BoundAssumption DEF Layers
<1>1. ASSUME UNCHANGED <<job, kind, pc, cause, busy, watch, timer, poll>> PROVE DialogInv'
  <2>1. \A b \in Attempts : InCourse(b)' => InCourse(b)
    BY <1>1 DEF InCourse
  <2> QED
    BY <1>1, <2>1, DialogFrame
<1>2. ASSUME NEW a \in Attempts, Worker(a) PROVE DialogInv'
  <2>1. CASE PipelineStep(a) /\ UNCHANGED <<dialogVars, connected, toldVars>>
    BY <2>1, PipelineDialog
  <2>2. CASE VectorDone(a) \/ PublishFailed(a) \/ RasterDone(a)
    BY <2>2, DoneDialog
  <2>3. CASE AlgorithmFailed(a) \/ AlgorithmReturned(a) \/ AlgorithmPublished(a) \/ WaitForImportJob(a)
    <3>1. kind[a] \in Algorithms
      BY <2>3 DEF AlgorithmFailed, AlgorithmReturned, AlgorithmPublished, WaitForImportJob, Go, IInv,
                  AttemptInv, CauseAndPlace
    <3>2. /\ UNCHANGED <<dialogVars, job, cause, kind>>
          /\ \A b \in Attempts : b # a => pc'[b] = pc[b]
      BY <2>3 DEF AlgorithmFailed, AlgorithmReturned, AlgorithmPublished, WaitForImportJob, Ended, Go,
                  EndedQuietly, portalVars, IInv, TypeOK, PipelineTypeOK
    <3> QED
      BY <3>1, <3>2, AlgorithmDialog
  <2> QED
    BY <1>2, <2>1, <2>2, <2>3 DEF Worker, Callback
<1>3. ASSUME NEW a \in Attempts, Portal(a) PROVE DialogInv'
  BY <1>3, JobMoveDialog DEF Portal, JobEnds, workerVars, dialogVars
<1>4. ASSUME NEW a \in Attempts, CancelJob(a) PROVE DialogInv'
  <2>1. job \in [Attempts -> [Layers -> JobStates]]
    BY DEF IInv, TypeOK, PipelineTypeOK
  <2>2. CASE job[a][1] = "active" /\ job' = [job EXCEPT ![a][1] = "cancelled"]
    BY <1>0, <1>4, <2>2, JobMoveDialog DEF CancelJob, workerVars
  <2>3. CASE job' = job
    BY <1>1, <1>4, <2>3 DEF CancelJob, workerVars
  <2> QED
    BY <1>0, <1>4, <2>1, <2>2, <2>3 DEF CancelJob
<1>5. ASSUME NEW a \in Attempts, NEW k \in Algorithms, StartAlgorithm(a, k) PROVE DialogInv'
  <2>1. /\ kind[a] = "none" /\ kind'[a] \in Algorithms /\ UNCHANGED <<dialogVars, job, cause>>
        /\ \A b \in Attempts : b # a => kind'[b] = kind[b] /\ pc'[b] = pc[b]
    BY <1>5 DEF StartAlgorithm, Begin, Fresh, portalVars, IInv, TypeOK, PipelineTypeOK
  <2> QED
    BY <2>1, AlgorithmDialog
<1>6. ASSUME NEW a \in Attempts, CancelTask(a), UNCHANGED <<dialogVars, connected, toldVars>>
      PROVE  DialogInv'
  BY <1>1, <1>6 DEF CancelTask, portalVars, dialogVars
<1>7. CASE UNCHANGED vars
  BY <1>1, <1>7 DEF vars, pipelineVars, dialogVars
<1> QED
  BY <1>2, <1>3, <1>4, <1>5, <1>6, <1>7, PressDialog, PollDialog DEF Next, User

\* The invariant is inductive.
LEMMA InvStep == IInv /\ [Next]_vars => IInv'
BY TypeStep, AttemptStep, DialogStep DEF IInv

\* The invariant holds in every reachable state.
LEMMA InvHolds == Spec => []IInv
<1> QED
  BY InvInit, InvStep, PTL DEF Spec

\* Every variable of the pipelines, of the dialog and of the algorithms keeps
\* its type, whatever the number of publishes, of layers and the environment.
THEOREM PublishTypeCorrect == Spec => []TypeOK
<1>1. IInv => TypeOK
  BY DEF IInv
<1> QED
  BY <1>1, InvHolds, PTL

\* What the dialog or an algorithm calls published is published: the item is
\* live, a raster is finalized, and every layer found has been imported.
THEOREM PublishedHolds == Spec => []PublishedIsImported
<1>1. IInv => PublishedIsImported
  <2> SUFFICES ASSUME IInv, NEW a \in Attempts, told[a] = "published" \/ stamped[a]
               PROVE  /\ item[a] = "live"
                      /\ kind[a] = "raster" => ready[a]
                      /\ kind[a] # "raster" =>
                            /\ probed[a] > 0
                            /\ \A k \in 1 .. probed[a] : job[a][k] = "succeeded"
    BY DEF PublishedIsImported
  <2>1. CauseAndPlace(a) /\ ItemIsHeld(a) /\ JobsAreMade(a) /\ ToldIsSo(a)
    BY DEF IInv, AttemptInv
  <2>2. kind[a] \in {"none", "raster"} \cup Uploads /\ probed[a] \in 0 .. MaxLayers
    BY DEF IInv, TypeOK, PipelineTypeOK
  <2>3. pc[a] = "over" /\ Kept(a)
    BY <2>1 DEF ToldIsSo, Kept
  <2>4. kind[a] # "none"
    BY <2>1, <2>3 DEF CauseAndPlace
  <2>5. item[a] = "live" /\ (kind[a] = "raster" => ready[a])
    BY <2>1, <2>3 DEF ItemIsHeld
  <2>6. ASSUME kind[a] # "raster"
        PROVE  probed[a] > 0 /\ \A k \in 1 .. probed[a] : job[a][k] = "succeeded"
    <3>1. kind[a] \in Uploads
      BY <2>2, <2>4, <2>6
    <3>2. probed[a] > 0
      BY <2>1, <2>3, <3>1 DEF JobsAreMade
    <3>3. \A k \in 1 .. probed[a] : k \in Layers /\ k <= probed[a]
      BY <2>2, BoundAssumption DEF Layers
    <3> QED
      BY <2>1, <3>1, <3>2, <3>3 DEF ToldIsSo
  <2> QED
    BY <2>5, <2>6
<1> QED
  BY <1>1, InvHolds, PTL

=============================================================================
