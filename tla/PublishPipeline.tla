-------------------------- MODULE PublishPipeline --------------------------
(***************************************************************************)
(* Publishing a layer, on the worker: the sequence of portal calls of      *)
(* run_vector_pipeline (export, stage, create the item, enqueue one import *)
(* job per layer) and of run_raster_pipeline (create the item, check the   *)
(* space, presign, upload, finalize), with the clean-up of an item left    *)
(* half made.                                                              *)
(*                                                                         *)
(* Code: gratisgis_qgis/publish/vector_pipeline.py,                        *)
(* gratisgis_qgis/ui/publish_raster_dialog.py.  The portal is external: an *)
(* item and its import jobs, as the two pipelines use them.  Who starts a  *)
(* pipeline and hears of its end is PublishLayer's business.               *)
(***************************************************************************)
EXTENDS Naturals

CONSTANTS
    Envs,        \* the environments considered, each a set of Behaviours
    MaxPublish,  \* bound: publishes begun
    MaxLayers    \* bound: layers of one upload

Behaviours ==
    { "fail",        \* a call of a pipeline is refused or cannot be sent
      "lost",        \* the portal does what is asked and the answer is lost
      "cleanfail",   \* deleting a half-made item fails
      "cancel",      \* the user cancels the task in QGIS
      "vector", "raster",            \* what the dialog publishes
      "single", "batch",             \* what the algorithms do: a layer, or several
      "unlinkfail",  \* a temporary file is not removed: it is held, or something
                     \* raised on the way to its removal
      "jobfail",     \* an import job fails
      "pollfail",    \* reading a job's status fails
      "cancelfail",  \* cancelling a job fails
      "removed",     \* the connection is removed, in another QGIS window
      "timeout" }    \* an algorithm has waited long enough

Attempts == 1 .. MaxPublish
Layers == 1 .. MaxLayers

Algorithms == {"single", "batch"}
Uploads == {"vector"} \cup Algorithms

ASSUME EnvAssumption == Envs \subseteq SUBSET Behaviours
ASSUME BoundAssumption == MaxPublish \in Nat /\ MaxLayers \in Nat \ {0}

VARIABLES
    env,       \* what this behaviour allows
    \* the portal
    item,      \* [Attempts -> the item the publish created]
    ready,     \* [Attempts -> the item's tiles are finalized]
    job,       \* [Attempts -> [Layers -> the import job of a layer]]
    \* the workers
    kind,      \* [Attempts -> what is published; "none" before]
    pc,        \* where its pipeline is
    canceled,  \* handle.is_canceled()
    temp,      \* the temporary GeoPackage: "none", "whole", "half" written, or
               \* "stuck": its removal failed
    probed,    \* layers found in the upload
    enqueued,  \* len(jobs)
    cause,     \* why it failed
    note       \* cleanup_notes

portalVars == <<item, ready, job>>
workerVars == <<kind, pc, canceled, temp, probed, enqueued, cause, note>>
pipelineVars == <<env, item, ready, job, kind, pc, canceled, temp, probed, enqueued, cause, note>>

JobStates == {"none", "active", "succeeded", "failed", "cancelled", "void"}
Terminal == {"succeeded", "failed", "cancelled"}

VectorSteps == {"export", "stage", "probe", "create", "enqueue"}
RasterSteps == {"create", "check", "presign", "upload", "finalize"}
Steps == VectorSteps \cup RasterSteps \cup {"clean"}

PipelineTypeOK ==
    /\ env \in Envs
    /\ item \in [Attempts -> {"none", "live", "deleted"}]
    /\ ready \in [Attempts -> BOOLEAN]
    /\ job \in [Attempts -> [Layers -> JobStates]]
    /\ kind \in [Attempts -> {"none", "raster"} \cup Uploads]
    /\ pc \in [Attempts -> Steps \cup {"idle", "returned", "raised", "waiting", "over"}]
    /\ canceled \in [Attempts -> BOOLEAN]
    /\ temp \in [Attempts -> {"none", "whole", "half", "stuck"}]
    /\ probed \in [Attempts -> 0 .. MaxLayers]
    /\ enqueued \in [Attempts -> 0 .. MaxLayers]
    /\ cause \in [Attempts -> {"none", "failed", "cancelled", "empty"}]
    /\ note \in [Attempts -> {"none", "removed", "stranded"}]

PipelineInit ==
    /\ env \in Envs
    /\ item = [a \in Attempts |-> "none"]
    /\ ready = [a \in Attempts |-> FALSE]
    /\ job = [a \in Attempts |-> [k \in Layers |-> "none"]]
    /\ kind = [a \in Attempts |-> "none"]
    /\ pc = [a \in Attempts |-> "idle"]
    /\ canceled = [a \in Attempts |-> FALSE]
    /\ temp = [a \in Attempts |-> "none"]
    /\ probed = [a \in Attempts |-> 0]
    /\ enqueued = [a \in Attempts |-> 0]
    /\ cause = [a \in Attempts |-> "none"]
    /\ note = [a \in Attempts |-> "none"]

-----------------------------------------------------------------------------
(* Steps shared by the two pipelines                                       *)

Go(a, from, to) == pc[a] = from /\ pc' = [pc EXCEPT ![a] = to]

\* Once the item's create has been answered, whatever is raised is caught.
Guarded(a) == pc[a] \in {"enqueue", "check", "presign", "upload", "finalize"}

\* (A guard that a cancellation slips past.)
RaiseUncaught(a, why) ==
    /\ pc' = [pc EXCEPT ![a] = IF Guarded(a) /\ why # "cancelled" THEN "clean" ELSE "raised"]
    /\ cause' = [cause EXCEPT ![a] = why]

\* An exception, on its way to the caller.
Raise(a, why) ==
    /\ pc' = [pc EXCEPT ![a] = IF Guarded(a) THEN "clean" ELSE "raised"]
    /\ cause' = [cause EXCEPT ![a] = why]

May(what) == what \in env

\* _safe_unlink: a file that cannot be removed stays, and nobody is told.
Unlinked == {"none"} \cup {t \in {"stuck"} : May("unlinkfail")}

\* The finally around staging.
UnlinkStaged(a) ==
    IF pc[a] = "stage"
    THEN \E t \in Unlinked : temp' = [temp EXCEPT ![a] = t]
    ELSE UNCHANGED temp

\* The handle is asked before every long step, and while the upload is read.
SeeCancel(a) ==
    /\ pc[a] \in {"export", "stage", "probe", "enqueue", "check", "presign", "upload", "finalize"}
    /\ enqueued[a] < probed[a] \/ pc[a] # "enqueue"
    /\ canceled[a]
    /\ Raise(a, "cancelled")
    /\ UnlinkStaged(a)
    /\ UNCHANGED <<portalVars, kind, canceled, probed, enqueued, note>>

\* A call that fails with nothing done.
CallFails(a) ==
    /\ May("fail") /\ ~canceled[a]
    /\ pc[a] \in {"stage", "create", "enqueue", "presign", "upload", "finalize"}
    /\ enqueued[a] < probed[a] \/ pc[a] # "enqueue"
    /\ Raise(a, "failed")
    /\ UnlinkStaged(a)
    /\ UNCHANGED <<portalVars, kind, canceled, probed, enqueued, note>>

\* Best-effort delete, and what the user will be told of it.  The portal treats
\* a job against a deleted item as a no-op.
DeleteItemQuietly(a) ==
    /\ Go(a, "clean", "raised")
    /\ \/ /\ item' = [item EXCEPT ![a] = "deleted"]
          /\ job' = [job EXCEPT ![a] =
                        [k \in Layers |-> IF @[k] = "active" THEN "void" ELSE @[k]]]
          /\ \/ note' = [note EXCEPT ![a] = "removed"]
             \/ May("lost") /\ note' = [note EXCEPT ![a] = "stranded"]
       \/ /\ May("cleanfail")
          /\ note' = [note EXCEPT ![a] = "stranded"]
          /\ UNCHANGED <<item, job>>
    /\ UNCHANGED <<ready, kind, canceled, temp, probed, enqueued, cause>>

CreateItem(a) ==
    /\ pc[a] = "create"
    /\ item' = [item EXCEPT ![a] = "live"]
    /\ \/ /\ Go(a, "create", IF kind[a] = "raster" THEN "check" ELSE "enqueue")
          /\ UNCHANGED cause
       \/ May("lost") /\ Raise(a, "failed")
    /\ UNCHANGED <<ready, job, kind, canceled, temp, probed, enqueued, note>>

-----------------------------------------------------------------------------
(* run_vector_pipeline                                                     *)

\* What an export that fails leaves: _export_to_geopackage, of the dialog and of
\* the algorithm for one layer, its half-written file, if it got as far as one;
\* _export_layers_to_geopackage unlinks its own.
HalfWritten(k) == IF k = "batch" THEN Unlinked ELSE {"none", "half"}

Export(a) ==
    /\ pc[a] = "export" /\ ~canceled[a]
    /\ \/ /\ Go(a, "export", "stage")
          /\ temp' = [temp EXCEPT ![a] = "whole"]
          /\ UNCHANGED cause
       \/ /\ May("fail")
          /\ Raise(a, "failed")
          /\ \E t \in HalfWritten(kind[a]) : temp' = [temp EXCEPT ![a] = t]
    /\ UNCHANGED <<portalVars, kind, canceled, probed, enqueued, note>>

\* (The export is only removed after a failure.)
StageKeepsFile(a) ==
    /\ ~canceled[a]
    /\ Go(a, "stage", "probe")
    /\ probed' = [probed EXCEPT ![a] = 1]
    /\ UNCHANGED <<portalVars, kind, canceled, temp, enqueued, cause, note>>

\* The portal reports the layers it found; the local copy goes either way, if
\* it can be removed.
Stage(a) ==
    /\ ~canceled[a]
    /\ Go(a, "stage", "probe")
    /\ UnlinkStaged(a)
    /\ probed' \in {[probed EXCEPT ![a] = n] : n \in 0 .. IF kind[a] = "batch" THEN MaxLayers ELSE 1}
    /\ UNCHANGED <<portalVars, kind, canceled, enqueued, cause, note>>

\* NoLayersProbed
Probe(a) ==
    /\ pc[a] = "probe" /\ ~canceled[a]
    /\ IF probed[a] = 0 THEN Raise(a, "empty") ELSE Go(a, "probe", "create") /\ UNCHANGED cause
    /\ UNCHANGED <<portalVars, kind, canceled, temp, probed, enqueued, note>>

\* (One job too many.)
EnqueuePastTheLast(a) ==
    /\ pc[a] = "enqueue" /\ enqueued[a] <= probed[a] /\ ~canceled[a]
    /\ job' = [job EXCEPT ![a] = [k \in Layers |-> IF k = enqueued[a] + 1 THEN "active" ELSE @[k]]]
    /\ enqueued' = [enqueued EXCEPT ![a] = @ + 1]
    /\ UNCHANGED <<item, ready, kind, pc, canceled, temp, probed, cause, note>>

\* One job per layer, in order.
Enqueue(a) ==
    /\ pc[a] = "enqueue" /\ enqueued[a] < probed[a] /\ ~canceled[a]
    /\ job' = [job EXCEPT ![a][enqueued[a] + 1] = "active"]
    /\ \/ /\ enqueued' = [enqueued EXCEPT ![a] = @ + 1]
          /\ UNCHANGED <<pc, cause>>
       \/ May("lost") /\ Raise(a, "failed") /\ UNCHANGED enqueued
    /\ UNCHANGED <<item, ready, kind, canceled, temp, probed, note>>

EnqueuedAll(a) ==
    /\ enqueued[a] = probed[a]
    /\ Go(a, "enqueue", "returned")
    /\ UNCHANGED <<portalVars, kind, canceled, temp, probed, enqueued, cause, note>>

-----------------------------------------------------------------------------
(* run_raster_pipeline                                                     *)

\* A portal that says there is no room stops it; a check that fails does not.
CheckSpace(a) ==
    /\ pc[a] = "check" /\ ~canceled[a]
    /\ \/ Go(a, "check", "presign") /\ UNCHANGED cause
       \/ May("fail") /\ Raise(a, "failed")
    /\ UNCHANGED <<portalVars, kind, canceled, temp, probed, enqueued, note>>

Presign(a) ==
    /\ ~canceled[a]
    /\ Go(a, "presign", "upload")
    /\ UNCHANGED <<portalVars, kind, canceled, temp, probed, enqueued, cause, note>>

\* _upload_to_presigned
Upload(a) ==
    /\ ~canceled[a]
    /\ Go(a, "upload", "finalize")
    /\ UNCHANGED <<portalVars, kind, canceled, temp, probed, enqueued, cause, note>>

Finalize(a) ==
    /\ pc[a] = "finalize" /\ ~canceled[a]
    /\ ready' = [ready EXCEPT ![a] = TRUE]
    /\ \/ Go(a, "finalize", "returned") /\ UNCHANGED cause
       \/ May("lost") /\ Raise(a, "failed")
    /\ UNCHANGED <<item, job, kind, canceled, temp, probed, enqueued, note>>

-----------------------------------------------------------------------------
PipelineStep(a) ==
    \/ SeeCancel(a) \/ CallFails(a) \/ DeleteItemQuietly(a) \/ CreateItem(a)
    \/ Export(a) \/ Stage(a) \/ Probe(a) \/ Enqueue(a) \/ EnqueuedAll(a)
    \/ CheckSpace(a) \/ Presign(a) \/ Upload(a) \/ Finalize(a)

\* QGIS's task manager and a Processing run can cancel; a vector publish of the
\* dialog is not cancelable.
CancelTask(a) ==
    /\ May("cancel") /\ kind[a] \in {"raster"} \cup Algorithms /\ ~canceled[a]
    /\ pc[a] \in Steps \cup {"waiting"}
    /\ canceled' = [canceled EXCEPT ![a] = TRUE]
    /\ UNCHANGED <<portalVars, kind, pc, temp, probed, enqueued, cause, note>>

\* The portal's import worker ends a job.
JobEnds(a, k) ==
    /\ job[a][k] = "active"
    /\ \/ job' = [job EXCEPT ![a][k] = "succeeded"]
       \/ May("jobfail") /\ job' = [job EXCEPT ![a][k] = "failed"]
    /\ UNCHANGED <<item, ready, workerVars>>
=============================================================================
