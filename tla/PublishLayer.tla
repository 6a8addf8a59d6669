---------------------------- MODULE PublishLayer ----------------------------
(***************************************************************************)
(* Who publishes a layer: the Publish dialog, which watches the import job *)
(* from a timer until it is closed, and the Processing algorithms, which   *)
(* wait for every job of theirs.  The publish itself is PublishPipeline's. *)
(*                                                                         *)
(* Code: gratisgis_qgis/ui/publish_vector_dialog.py,                       *)
(* gratisgis_qgis/processing/provider.py and support.py.                   *)
(*                                                                         *)
(* A task's callback runs once, on the GUI thread, after its function      *)
(* ended (tasks.py); a poll or a cancel request is a task of its own.      *)
(***************************************************************************)
EXTENDS PublishPipeline

VARIABLES
    dlg,        \* the dialog: "open", "closed" (rejected) or "accepted"
    busy,       \* its inputs are disabled
    watch,      \* the publish whose job is _current_job; 0 for None
    seen,       \* that job as last heard of
    timer,      \* _poll_timer is set
    poll,       \* _poll_in_flight: "none", "sent", or the answer
    cancelReq,  \* [Attempts -> the request to cancel its job]
    connected,  \* the profile is in the store
    waited,     \* [Attempts -> jobs an algorithm has waited for]
    stamped,    \* [Attempts -> the layer was stamped with the item]
    told        \* [Attempts -> what its user has been told]

dialogVars == <<dlg, busy, watch, seen, timer, poll, cancelReq>>
toldVars == <<waited, stamped, told>>
vars == <<pipelineVars, dialogVars, connected, toldVars>>

JobAnswers == {"active"} \cup Terminal

TypeOK ==
    /\ PipelineTypeOK
    /\ dlg \in {"open", "closed", "accepted"}
    /\ busy \in BOOLEAN
    /\ watch \in 0 .. MaxPublish
    /\ seen \in JobAnswers
    /\ timer \in BOOLEAN
    /\ poll \in {"none", "sent", "error"} \cup JobAnswers
    /\ cancelReq \in [Attempts -> {"none", "sent", "done", "failed"}]
    /\ connected \in BOOLEAN
    /\ waited \in [Attempts -> 0 .. MaxLayers]
    /\ stamped \in [Attempts -> BOOLEAN]
    /\ told \in [Attempts -> {"nothing", "published", "error", "pollerror"}]

Init ==
    /\ PipelineInit
    /\ dlg = "open" /\ busy = FALSE
    /\ watch = 0 /\ seen = "active"
    /\ timer = FALSE /\ poll = "none"
    /\ cancelReq = [a \in Attempts |-> "none"]
    /\ connected = TRUE
    /\ waited = [a \in Attempts |-> 0]
    /\ stamped = [a \in Attempts |-> FALSE]
    /\ told = [a \in Attempts |-> "nothing"]

\* A publish that has not been begun yet.
Fresh(a) == kind[a] = "none" /\ \A b \in 1 .. a - 1 : kind[b] # "none"

FirstStep(k) == IF k = "raster" THEN "create" ELSE "export"

Begin(a, k) ==
    /\ May(k) /\ Fresh(a)
    /\ kind' = [kind EXCEPT ![a] = k]
    /\ pc' = [pc EXCEPT ![a] = FirstStep(k)]
    /\ UNCHANGED <<portalVars, canceled, temp, probed, enqueued, cause, note>>

Tell(a, what) == told' = [told EXCEPT ![a] = what]

-----------------------------------------------------------------------------
(* The dialog starts a publish, and hears of its end                       *)

\* (A second press that is not kept out.)
PressPublishAgain(a, k) ==
    /\ dlg = "open" /\ connected
    /\ Begin(a, k)
    /\ busy' = TRUE
    /\ UNCHANGED <<dlg, watch, seen, timer, poll, cancelReq, connected, toldVars>>

\* _on_publish: a vector layer, or a raster through _publish_raster.
PressPublish(a, k) ==
    /\ dlg = "open" /\ ~busy /\ connected
    /\ Begin(a, k)
    /\ busy' = TRUE
    /\ UNCHANGED <<dlg, watch, seen, timer, poll, cancelReq, connected, toldVars>>

Ended(a, how) == Go(a, how, "over")

EndedQuietly == UNCHANGED <<portalVars, kind, canceled, temp, probed, enqueued, cause, note>>

\* _request_job_cancel, of the job held after this step.
RequestJobCancel(a, status) ==
    cancelReq' = IF a # 0 /\ status \notin Terminal /\ connected
                 THEN [cancelReq EXCEPT ![a] = "sent"]
                 ELSE cancelReq

\* (The callback that goes on watching whether or not anybody is there.)
VectorDoneUnaware(a) ==
    /\ kind[a] = "vector" /\ Ended(a, "returned") /\ EndedQuietly
    /\ watch' = a /\ seen' = "active"
    /\ timer' = (dlg = "open")
    /\ UNCHANGED <<dlg, busy, poll, cancelReq, connected, toldVars>>

\* _start_publish's done: watch the job, or have it stopped when the dialog
\* has gone.
VectorDone(a) ==
    /\ kind[a] = "vector" /\ Ended(a, "returned") /\ EndedQuietly
    /\ watch' = a /\ seen' = "active"
    /\ IF dlg = "closed"
       THEN RequestJobCancel(a, "active") /\ UNCHANGED timer
       ELSE timer' = TRUE /\ UNCHANGED cancelReq
    /\ UNCHANGED <<dlg, busy, poll, connected, toldVars>>

\* Both failed callbacks: nothing is said once the dialog has gone.
PublishFailed(a) ==
    /\ kind[a] \in {"vector", "raster"} /\ Ended(a, "raised") /\ EndedQuietly
    /\ busy' = (busy /\ kind[a] = "vector" /\ dlg = "closed")
    /\ IF dlg = "closed" THEN UNCHANGED told ELSE Tell(a, "error")
    /\ UNCHANGED <<dlg, watch, seen, timer, poll, cancelReq, connected, waited, stamped>>

\* _publish_raster's done.
RasterDone(a) ==
    /\ kind[a] = "raster" /\ Ended(a, "returned") /\ EndedQuietly
    /\ busy' = FALSE
    /\ IF dlg = "closed"
       THEN UNCHANGED <<dlg, stamped, told>>
       ELSE /\ stamped' = [stamped EXCEPT ![a] = TRUE]
            /\ Tell(a, "published")
            /\ dlg' = "accepted"
    /\ UNCHANGED <<watch, seen, timer, poll, cancelReq, connected, waited>>

-----------------------------------------------------------------------------
(* The dialog watches the job                                              *)

\* _poll_once
PollOnce ==
    /\ timer /\ poll = "none"
    /\ IF watch = 0 \/ ~connected
       THEN timer' = FALSE /\ UNCHANGED poll
       ELSE poll' = "sent" /\ UNCHANGED timer
    /\ UNCHANGED <<pipelineVars, dlg, busy, watch, seen, cancelReq, connected, toldVars>>

\* The poll's task, on its worker.
PollRead ==
    /\ poll = "sent"
    /\ poll' \in {job[watch][1]} \cup {w \in {"error"} : May("pollfail")}
    /\ UNCHANGED <<pipelineVars, dlg, busy, watch, seen, timer, cancelReq, connected, toldVars>>

\* _on_job_finished
JobFinished(status) ==
    IF status = "succeeded"
    THEN Tell(watch, "published") /\ dlg' = "accepted" /\ UNCHANGED busy
    ELSE Tell(watch, "error") /\ busy' = FALSE /\ UNCHANGED dlg

\* (An answer taken though the timer was stopped.)
PollDoneAnyway ==
    /\ poll \in JobAnswers
    /\ poll' = "none" /\ seen' = poll
    /\ timer' = (timer /\ poll \notin Terminal)
    /\ IF poll \in Terminal THEN JobFinished(poll) ELSE UNCHANGED <<told, dlg, busy>>
    /\ UNCHANGED <<pipelineVars, watch, cancelReq, connected, waited, stamped>>

PollDone ==
    /\ poll \in JobAnswers
    /\ poll' = "none"
    /\ IF timer
       THEN /\ seen' = poll
            /\ timer' = (poll \notin Terminal)
            /\ IF poll \in Terminal THEN JobFinished(poll) ELSE UNCHANGED <<told, dlg, busy>>
       ELSE UNCHANGED <<seen, timer, told, dlg, busy>>
    /\ UNCHANGED <<pipelineVars, watch, cancelReq, connected, waited, stamped>>

\* (The error that stops the polling and leaves the inputs disabled.)
PollFailedStaysBusy ==
    /\ poll = "error"
    /\ poll' = "none" /\ timer' = FALSE /\ watch' = 0
    /\ IF dlg = "open" THEN Tell(watch, "pollerror") ELSE UNCHANGED told
    /\ UNCHANGED <<pipelineVars, dlg, busy, seen, cancelReq, connected, waited, stamped>>

\* _poll_once's failed and _reset_after_poll_error: the job is forgotten, and
\* the dialog's label is all that is said of it.
PollFailed ==
    /\ poll = "error"
    /\ poll' = "none" /\ timer' = FALSE /\ watch' = 0 /\ busy' = FALSE
    /\ IF dlg = "open" THEN Tell(watch, "pollerror") ELSE UNCHANGED told
    /\ UNCHANGED <<pipelineVars, dlg, seen, cancelReq, connected, waited, stamped>>

\* reject: Cancel, Esc or the window's close button, busy or not.
Reject ==
    /\ dlg = "open"
    /\ dlg' = "closed" /\ timer' = FALSE
    /\ RequestJobCancel(watch, seen)
    /\ UNCHANGED <<pipelineVars, busy, watch, seen, poll, connected, toldVars>>

\* The cancel request's task; cancelling is idempotent on ended jobs.
CancelJob(a) ==
    /\ cancelReq[a] = "sent"
    /\ \/ /\ job' = [job EXCEPT ![a][1] = IF @ = "active" THEN "cancelled" ELSE @]
          /\ cancelReq' = [cancelReq EXCEPT ![a] = "done"]
       \/ /\ May("cancelfail")
          /\ cancelReq' = [cancelReq EXCEPT ![a] = "failed"]
          /\ UNCHANGED job
    /\ UNCHANGED <<env, item, ready, workerVars, dlg, busy, watch, seen, timer, poll, connected, toldVars>>

RemoveConnection ==
    /\ May("removed") /\ connected
    /\ connected' = FALSE
    /\ UNCHANGED <<pipelineVars, dialogVars, toldVars>>

-----------------------------------------------------------------------------
(* The Processing algorithms                                               *)

\* PublishVectorLayerAlgorithm with a single layer, PublishLayersAsItemAlgorithm
\* with several; the dialog plays no part.  Bound: one run of an algorithm.
StartAlgorithm(a, k) ==
    /\ \A b \in Attempts : kind[b] \notin Algorithms
    /\ connected /\ Begin(a, k)
    /\ UNCHANGED <<dialogVars, connected, toldVars>>

AlgorithmFailed(a) ==
    /\ kind[a] \in Algorithms /\ Ended(a, "raised") /\ EndedQuietly
    /\ Tell(a, "error")
    /\ UNCHANGED <<dialogVars, connected, waited, stamped>>

AlgorithmReturned(a) ==
    /\ kind[a] \in Algorithms /\ Go(a, "returned", "waiting") /\ EndedQuietly
    /\ UNCHANGED <<dialogVars, connected, toldVars>>

\* (Only the job the outcome names first is waited for.)
FirstJobOver(a) == waited[a] > 0

AllJobsOver(a) == waited[a] = enqueued[a]

\* (Only a job that succeeded ends the wait.)
WaitForSuccess(a) ==
    /\ pc[a] = "waiting" /\ ~AllJobsOver(a)
    /\ job[a][waited[a] + 1] = "succeeded"
    /\ waited' = [waited EXCEPT ![a] = @ + 1]
    /\ EndedQuietly
    /\ UNCHANGED <<pc, told, dialogVars, connected, stamped>>

\* wait_for_import_job: each job in turn, to its end.  A job that failed, a
\* poll that failed, a cancellation and the timeout all raise.
WaitForImportJob(a) ==
    /\ pc[a] = "waiting" /\ ~AllJobsOver(a)
    /\ LET k == waited[a] + 1 IN
       \/ /\ job[a][k] = "succeeded"
          /\ waited' = [waited EXCEPT ![a] = k]
          /\ UNCHANGED <<pc, told>>
       \/ /\ \/ job[a][k] \in {"failed", "cancelled"}
             \/ job[a][k] = "active" /\ (canceled[a] \/ May("timeout"))
             \/ May("pollfail")
          /\ Go(a, "waiting", "over") /\ Tell(a, "error")
          /\ UNCHANGED waited
    /\ EndedQuietly
    /\ UNCHANGED <<dialogVars, connected, stamped>>

AlgorithmPublished(a) ==
    /\ AllJobsOver(a)
    /\ Go(a, "waiting", "over") /\ Tell(a, "published") /\ EndedQuietly
    /\ UNCHANGED <<dialogVars, connected, waited, stamped>>

-----------------------------------------------------------------------------
Callback(a) ==
    \/ VectorDone(a) \/ PublishFailed(a) \/ RasterDone(a)
    \/ AlgorithmFailed(a) \/ AlgorithmReturned(a) \/ AlgorithmPublished(a)

Worker(a) ==
    \/ PipelineStep(a) /\ UNCHANGED <<dialogVars, connected, toldVars>>
    \/ Callback(a) \/ WaitForImportJob(a)

Portal(a) == \E k \in Layers : JobEnds(a, k) /\ UNCHANGED <<dialogVars, connected, toldVars>>

Poll == PollOnce \/ PollRead \/ PollDone \/ PollFailed

User ==
    \/ \E a \in Attempts : \E k \in {"vector", "raster"} : PressPublish(a, k)
    \/ \E a \in Attempts : \E k \in Algorithms : StartAlgorithm(a, k)
    \/ \E a \in Attempts : CancelTask(a) /\ UNCHANGED <<dialogVars, connected, toldVars>>
    \/ Reject \/ RemoveConnection

Next ==
    /\ \/ \E a \in Attempts : Worker(a) \/ Portal(a) \/ CancelJob(a)
       \/ Poll
       \/ User
    /\ UNCHANGED env

\* QGIS runs tasks and their callbacks, the timer fires, and the portal's
\* import worker ends what it began.  Nothing is assumed of the user.
Spec ==
    /\ Init /\ [][Next]_vars
    /\ \A a \in Attempts : /\ WF_vars(Worker(a) /\ UNCHANGED env)
                           /\ WF_vars(Portal(a) /\ UNCHANGED env)
                           /\ WF_vars(CancelJob(a))
    /\ WF_vars(Poll)

-----------------------------------------------------------------------------
(* Properties                                                              *)

Dialog == {a \in Attempts : kind[a] \in {"vector", "raster"}}

\* What the dialog or an algorithm calls published is published: the item is
\* there, every layer of it has been imported, a raster's tiles are finalized,
\* and a raster layer is stamped only with such an item.  (_on_job_finished,
\* wait_for_import_job over outcome.jobs, _publish_raster's done.)
PublishedIsImported ==
    \A a \in Attempts :
        told[a] = "published" \/ stamped[a] =>
            /\ item[a] = "live"
            /\ kind[a] = "raster" => ready[a]
            /\ kind[a] # "raster" =>
                  /\ probed[a] > 0
                  /\ \A k \in 1 .. probed[a] : job[a][k] = "succeeded"

\* A dialog that was closed leaves no import running unwatched, once its own
\* tasks have come back: unless the cancel itself failed, the connection was
\* removed, or the dialog had already lost sight of the job and said so.  (A
\* publish that failed is PublishPromise's matter.)
ClosedLeavesNoImport ==
    dlg = "closed" /\ connected =>
        \A a \in Dialog :
            job[a][1] = "active" /\ pc[a] = "over" =>
                \/ cause[a] # "none"
                \/ cancelReq[a] \in {"sent", "failed"}
                \/ told[a] = "pollerror"

\* Nothing is said to a user who has closed the dialog: no answer, late or
\* failed, of a publish or of a poll.
QuietAfterClose ==
    [][\A a \in Attempts :
           dlg = "closed" /\ kind[a] \in {"vector", "raster"} => told'[a] = told[a]]_vars

\* The dialog begins a publish only when its user has been told how the one
\* before ended, on every path by which its buttons come back.
ToldBeforeNext ==
    \A a, b \in Dialog : a < b => told[a] # "nothing"

\* A temporary GeoPackage outlives its publish in two cases only: it is the half
\* of a single layer whose writing failed, or its removal failed.  A whole export
\* is never left, nor is a half of several layers, on any path.
ExportIsRemoved ==
    \A a \in Attempts :
        temp[a] # "none" /\ pc[a] # "stage" =>
            \/ temp[a] = "stuck" /\ May("unlinkfail")
            \/ /\ temp[a] = "half" /\ kind[a] # "batch"
               /\ cause[a] = "failed" /\ item[a] = "none"

\* The buttons come back, or the dialog goes, however a publish ends; only a
\* connection removed meanwhile leaves it disabled.
DialogComesBack == busy ~> (~busy \/ dlg # "open" \/ ~connected)

\* An algorithm always returns or raises: a model that runs it goes on.
AlgorithmEnds ==
    \A a \in Attempts : kind[a] \in Algorithms ~> kind[a] \in Algorithms /\ pc[a] = "over"

-----------------------------------------------------------------------------
(* The promise                                                             *)

\* Nobody waits any more to hear how the dialog's import ends.
Unheard(a) ==
    kind[a] = "vector" /\ pc[a] = "over" /\ (dlg = "closed" \/ (~timer /\ poll = "none"))

\* An import is over for its user once told of it, and if nobody
\* waits to hear of it, when the portal has done with it.
ImportFate(a) ==
    CASE told[a] = "published" -> "complete"
      [] told[a] \in {"error", "pollerror"} -> "reported"
      [] told[a] = "nothing" ->
            IF ~Unheard(a) \/ job[a][1] \notin Terminal THEN "importing"
            ELSE IF job[a][1] = "succeeded" THEN "complete" ELSE "left"

\* A failed publish reports an item it could not remove with the message that
\* its callback shows: to the user of an open dialog, and of an algorithm.
FailureFate(a) ==
    CASE item[a] # "live" -> "withdrawn"
      [] item[a] = "live" /\ note[a] # "stranded" -> "orphaned"
      [] item[a] = "live" /\ note[a] = "stranded" ->
            IF pc[a] = "raised" THEN "holding"
            ELSE IF told[a] = "error" THEN "reported" ELSE "left"

Fate(a) ==
    IF kind[a] = "none" THEN "none"
    ELSE IF pc[a] \in {"export", "stage", "probe", "create"} THEN "begun"
    ELSE IF Guarded(a) \/ pc[a] = "clean" THEN "holding"
    ELSE IF cause[a] # "none" THEN FailureFate(a)
    ELSE IF kind[a] = "raster" THEN "complete" ELSE ImportFate(a)

Promise ==
    INSTANCE PublishPromise
        WITH Publishes <- Attempts,
             fate <- [a \in Attempts |-> Fate(a)],
             away <- dlg = "closed" \/ ~connected

\* The dialog and the algorithms keep PublishPromise: whatever fails and whenever
\* a cancel arrives, an item the client knows of is completed, taken back or
\* reported, and is left to be found on the portal only when the dialog was
\* closed or its connection removed.
KeepsPromise == Promise!Spec
=============================================================================
