----------------------------- MODULE CloneSync -----------------------------
(***************************************************************************)
(* Offline-clone synchronisation: one GeoPackage clone of one portal layer,*)
(* the "Sync layer" dialog that sends its edits, the tasks that run its    *)
(* pushes (one whose dialog was closed goes on while the next dialog works *)
(* on the same file), other people editing the layer on the portal, and    *)
(* crashes.                                                                *)
(*                                                                         *)
(* Code: offline/sync_state.py (what changed, what conflicts),             *)
(* edit/sync.py (the ordered plan), ui/push_edits_dialog.py (stamp, check, *)
(* ask, send, refresh), offline/clone.py (the baseline table) and          *)
(* offline/reader.py (snapshots).  The portal is external: it is modelled  *)
(* from how client/endpoints/features.py calls it.                         *)
(***************************************************************************)
EXTENDS Naturals

CONSTANTS
    Ids,          \* portal feature ids (uuids), cloned and still to be minted
    NCloned,      \* rows of the clone when it was made, fids 1 .. NCloned
    CloneId,      \* [fid -> id]: the portal feature each of them is
    Attrs,        \* attribute values of a row
    Geoms,        \* geometries of a row
    NoGeom,       \* a row without geometry
    HasColumns,   \* whether the layer has user columns at all
    NoId,         \* a local row that has no portal id
    DrawnId,      \* [fid -> id]: what the reader takes for the id of a row drawn
                  \* in the clone (the container's own fid, or NoId)
    Envs,         \* the environments considered, each a set of Behaviours
    MaxFid,       \* bound: local row numbers
    MaxEdits,     \* bound: saved local edits
    MaxRemote,    \* bound: edits other people make on the portal
    MaxPush       \* bound: presses of the Sync button

Behaviours ==
    { "remoteEdit",    \* somebody else edits a portal row
      "remoteDelete",  \* somebody else deletes a portal row
      "checkfail",     \* the portal cannot be read before sending
      "garbled",       \* ... or answers a read with a 2xx that is no collection
      "skip",          \* the user keeps the portal's version of a conflict
      "reject",        \* the portal refuses an op
      "lost",          \* an op is applied but its response never arrives
      "dismiss",       \* the dialog is closed while the worker runs
      "crash",         \* QGIS dies
      "stalefail",     \* the baseline refresh fails before touching the table
      "dropfail",      \* ... or after dropping it
      "split",         \* a feature split copies the portal id to the new row
      "clear",         \* a geometry is removed from a row
      "lateEdit" }     \* local edits go on after the first push

Fids == 1 .. MaxFid
Pushes == 1 .. MaxPush
Content == [attr : Attrs, geom : Geoms \cup {NoGeom}]
Row == [gid : Ids \cup {NoId}, attr : Attrs, geom : Geoms \cup {NoGeom}]
PortalRow == [live : BOOLEAN, attr : Attrs, geom : Geoms \cup {NoGeom}, stamp : Nat]
Entry == [attr : Attrs, geom : Geoms \cup {NoGeom}, stamp : Nat]
Op == [kind : {"create", "update"}, fid : Fids, id : Ids,
       attr : Attrs, geom : Geoms \cup {NoGeom}]
      \cup [kind : {"delete"}, fid : {0}, id : Ids,
            attr : Attrs, geom : Geoms \cup {NoGeom}]

ASSUME CloneAssumption ==
    /\ NCloned \in Nat /\ MaxFid \in Nat /\ NCloned <= MaxFid
    /\ CloneId \in [1 .. NCloned -> Ids]
    /\ \A f, g \in 1 .. NCloned : CloneId[f] = CloneId[g] => f = g
ASSUME DrawnAssumption ==
    /\ DrawnId \in [NCloned + 1 .. MaxFid -> Ids \cup {NoId}]
    /\ \A f \in NCloned + 1 .. MaxFid : DrawnId[f] # NoId =>
          /\ \A g \in NCloned + 1 .. MaxFid : DrawnId[f] = DrawnId[g] => f = g
          /\ \A g \in 1 .. NCloned : DrawnId[f] # CloneId[g]
ASSUME ValueAssumption ==
    /\ NoId \notin Ids
    /\ NoGeom \notin Geoms
    /\ Attrs # {} /\ Geoms # {}
    /\ HasColumns \in BOOLEAN
    /\ Envs \subseteq SUBSET Behaviours
ASSUME BoundAssumption == MaxEdits \in Nat /\ MaxRemote \in Nat /\ MaxPush \in Nat

VARIABLES
    \* the portal
    portal,      \* [Ids -> PortalRow]; not live: deleted or never created
    \* the GeoPackage: survives a crash
    local,       \* [fid -> Row], the saved rows, each with the id it is read with
    lastFid,     \* the container's row counter; fids are never reused
    baseline,    \* [id -> Entry], rows of gratisgis_baseline
    hasTable,    \* whether the table gratisgis_baseline exists
    issued,      \* ids ever written into the id column (a uuid is minted once)
    \* the dialog on screen: lost in a crash
    phase,       \* what it is at; "closed" when there is none
    plan,        \* self._plan.ops, the operations it shows
    conflicts,   \* ids reported by find_conflicts, while the user is asked
    \* the push tasks, by the press of Sync that started them: lost in a crash
    at,          \* "idle", "sending", or returned ("complete", "cancelled")
    ops,         \* the operations the task was given
    todo,        \* ... those it has not taken yet
    inflight,    \* {} or {op}: the request on the wire
    failed,      \* operations recorded in `failures'
    cancelled,   \* the task's cancel flag
    \* observers: read by properties only
    sent,        \* [id -> contents this clone knows the portal has held]
    origin,      \* [id -> the local rows the feature was created from]
    foreign,     \* rows others changed that this clone never pulled
    restamped,   \* ... whose new stamp a baseline refresh took over
    late,        \* by push: rows others changed since its conflict check
    blind,       \* by push: rows its conflict check had no two stamps for
    consented,   \* by push: ids the user agreed to overwrite
    declined,    \* by push: ids the user asked to leave alone
    superseded,  \* an earlier push moved the baseline under the dialog's plan
    env,         \* what the environment may do in this behaviour
    edits, remotes, pushes  \* how often it did

portalVars == <<portal, sent, origin, foreign, late, restamped>>
fileVars == <<local, lastFid, baseline, hasTable, issued>>
dialogVars == <<phase, plan, conflicts, superseded>>
taskVars == <<at, ops, todo, inflight, failed, cancelled, blind, consented, declined>>
boundVars == <<env, edits, remotes, pushes>>
vars == <<portalVars, fileVars, dialogVars, taskVars, boundVars>>

-----------------------------------------------------------------------------
(* Planning: the difference between the saved rows and the baseline.       *)

ContentOf(r) == [attr |-> r.attr, geom |-> r.geom]
OfContent(id, c) == [gid |-> id, attr |-> c.attr, geom |-> c.geom]

\* Features arrive in fid order: the first row claiming an id keeps it.
Owns(rows, f) ==
    /\ rows[f].gid # NoId
    /\ \A g \in DOMAIN rows : g < f => rows[g].gid # rows[f].gid

Recorded(rows, base, f) == Owns(rows, f) /\ rows[f].gid \in DOMAIN base

Unchanged(rows, base, f) == ContentOf(rows[f]) = ContentOf(base[rows[f].gid])

\* Nothing to send: no geometry, and a layer without columns of its own.
EmptyRow(r) == ~HasColumns /\ r.geom = NoGeom

OpFor(kind, f, id, r) ==
    [kind |-> kind, fid |-> f, id |-> id, attr |-> r.attr, geom |-> r.geom]

\* (A create sent without an id, for the portal to assign one.)
CreatesUnminted(rows, base, mint) ==
    { OpFor("create", f, IF Owns(rows, f) THEN rows[f].gid ELSE NoId, rows[f]) :
        f \in {g \in DOMAIN rows : ~Recorded(rows, base, g) /\ ~EmptyRow(rows[g])} }

Creates(rows, base, mint) ==
    { OpFor("create", f, IF Owns(rows, f) THEN rows[f].gid ELSE mint[f], rows[f]) :
        f \in {g \in DOMAIN rows : ~Recorded(rows, base, g) /\ ~EmptyRow(rows[g])} }

Updates(rows, base) ==
    { OpFor("update", f, rows[f].gid, rows[f]) :
        f \in {g \in DOMAIN rows : /\ Recorded(rows, base, g)
                                   /\ ~Unchanged(rows, base, g)
                                   /\ ~EmptyRow(rows[g])} }

Deletes(rows, base) ==
    { OpFor("delete", 0, i, base[i]) :
        i \in {j \in DOMAIN base : \A f \in DOMAIN rows : rows[f].gid # j} }

PlanOps(rows, base, mint) ==
    Creates(rows, base, mint) \cup Updates(rows, base) \cup Deletes(rows, base)

\* Ids the reader takes from the fids of drawn rows: never minted.
Drawn == {DrawnId[f] : f \in NCloned + 1 .. MaxFid} \ {NoId}

\* Ids freshly minted for the rows that do not own one.
Mintings(rows, used) ==
    LET need == {f \in DOMAIN rows : ~Owns(rows, f)}
    IN  {m \in [need -> Ids \ (used \cup Drawn)] : \A f, g \in need : m[f] = m[g] => f = g}

\* Creates go first, then updates, then deletes.
Rank(op) == CASE op.kind = "create" -> 1 [] op.kind = "update" -> 2 [] OTHER -> 3

\* (Deletes are not looked at.)
FindUpdateConflicts(changes, base, rows) ==
    {op.id : op \in {o \in changes :
        /\ o.kind = "update"
        /\ o.id \in DOMAIN base
        /\ rows[o.id].live => base[o.id].stamp # 0 /\ rows[o.id].stamp # base[o.id].stamp}}

\* Rows that moved on both sides, given the portal as read just now.
FindConflicts(changes, base, rows) ==
    {op.id : op \in {o \in changes :
        /\ o.kind # "create"
        /\ o.id \in DOMAIN base
        /\ IF rows[o.id].live
           THEN base[o.id].stamp # 0 /\ rows[o.id].stamp # base[o.id].stamp
           ELSE o.kind # "delete" }}

\* Rows to be written that there are no two stamps to compare for.
Uncompared(changes, base, rows) ==
    {op.id : op \in {o \in changes :
        /\ o.kind # "create"
        /\ o.id \notin DOMAIN base \/ base[o.id].stamp = 0 \/ ~rows[o.id].live}}

\* What a read of the portal's features yields.  A 2xx body that is no feature
\* collection is turned into an empty one.
Emptied == [i \in Ids |-> [live |-> FALSE, attr |-> portal[i].attr,
                           geom |-> portal[i].geom, stamp |-> portal[i].stamp]]
Answers == {portal} \cup (IF "garbled" \in env THEN {Emptied} ELSE {})

\* Of several rows with one id the last one read fills the entry.
LastWith(rows, i) ==
    CHOOSE f \in DOMAIN rows :
        /\ rows[f].gid = i
        /\ \A g \in DOMAIN rows : rows[g].gid = i => g <= f

\* The portal's features, instead of the local rows, set the baseline's keys.
SnapshotOfPortal(rows, feats) ==
    [i \in {j \in {rows[f].gid : f \in DOMAIN rows} \ {NoId} : feats[j].live} |->
        [attr |-> rows[LastWith(rows, i)].attr, geom |-> rows[LastWith(rows, i)].geom,
         stamp |-> feats[i].stamp]]

\* The baseline a snapshot of the rows and of the portal's stamps yields.
SnapshotBaseline(rows, feats) ==
    [i \in {rows[f].gid : f \in DOMAIN rows} \ {NoId} |->
        [attr |-> rows[LastWith(rows, i)].attr, geom |-> rows[LastWith(rows, i)].geom,
         stamp |-> IF feats[i].live THEN feats[i].stamp ELSE 0]]

-----------------------------------------------------------------------------
(* Initially: a fresh clone, in step with the portal.                      *)

Cloned == {CloneId[f] : f \in 1 .. NCloned}
FirstContent == CHOOSE c \in Content : c.geom # NoGeom

Init ==
    /\ portal = [i \in Ids |-> [live |-> i \in Cloned, attr |-> FirstContent.attr,
                                geom |-> FirstContent.geom,
                                stamp |-> IF i \in Cloned THEN 1 ELSE 0]]
    /\ local = [f \in 1 .. NCloned |->
                    [gid |-> CloneId[f], attr |-> FirstContent.attr, geom |-> FirstContent.geom]]
    /\ lastFid = NCloned
    /\ baseline = [i \in Cloned |-> [attr |-> FirstContent.attr,
                                     geom |-> FirstContent.geom, stamp |-> 1]]
    /\ hasTable = TRUE
    /\ issued = Cloned
    /\ phase = "closed" /\ plan = {} /\ conflicts = {} /\ superseded = FALSE
    /\ at = [k \in Pushes |-> "idle"]
    /\ ops = [k \in Pushes |-> {}] /\ todo = ops /\ inflight = ops /\ failed = ops
    /\ cancelled = [k \in Pushes |-> FALSE]
    /\ sent = [i \in Ids |-> IF i \in Cloned THEN {FirstContent} ELSE {}]
    /\ origin = [i \in Ids |-> {f \in 1 .. NCloned : CloneId[f] = i}]
    /\ foreign = {} /\ restamped = {}
    /\ late = ops /\ blind = ops /\ consented = ops /\ declined = ops
    /\ env \in Envs
    /\ edits = 0 /\ remotes = 0 /\ pushes = 0

-----------------------------------------------------------------------------
(* The user edits the clone and saves.  The dialog is modal, so nothing can*)
(* be edited while it is on screen; a push whose dialog was closed goes on *)
(* behind the user's back.                                                 *)

CanEdit ==
    /\ phase = "closed"
    /\ edits < MaxEdits
    /\ pushes = 0 \/ "lateEdit" \in env
    /\ edits' = edits + 1

SaveRows(rows) ==
    /\ local' = rows
    /\ UNCHANGED <<portalVars, baseline, hasTable, issued, dialogVars, taskVars,
                   env, remotes, pushes>>

EditRow(f, c) ==
    /\ CanEdit
    /\ f \in DOMAIN local
    /\ c # ContentOf(local[f])
    /\ c.geom = NoGeom => "clear" \in env
    /\ SaveRows([local EXCEPT ![f] = OfContent(local[f].gid, c)])
    /\ UNCHANGED lastFid

\* The id column of a new row is empty, and the reader falls back on the
\* container's own fid (_global_id_of).
AddRow(c) ==
    /\ CanEdit
    /\ lastFid < MaxFid
    /\ c.geom = NoGeom => "clear" \in env
    /\ lastFid' = lastFid + 1
    /\ SaveRows([f \in DOMAIN local \cup {lastFid'} |->
                    IF f = lastFid' THEN OfContent(DrawnId[lastFid'], c) ELSE local[f]])

\* Splitting keeps the original row and adds a row for the other part, a copy
\* of every attribute, the portal id column included if it has been filled.
CopiedId(f) == IF local[f].gid \in issued THEN local[f].gid ELSE DrawnId[lastFid + 1]

SplitRow(f) ==
    /\ "split" \in env
    /\ CanEdit
    /\ f \in DOMAIN local
    /\ local[f].geom # NoGeom
    /\ lastFid < MaxFid
    /\ lastFid' = lastFid + 1
    /\ \E g1, g2 \in Geoms :
          LET Part(g) == [attr |-> local[f].attr, geom |-> g]
          IN  SaveRows([h \in DOMAIN local \cup {lastFid'} |->
                            IF h = f THEN OfContent(local[f].gid, Part(g1))
                            ELSE IF h = lastFid' THEN OfContent(CopiedId(f), Part(g2))
                            ELSE local[h]])

DeleteRow(f) ==
    /\ CanEdit
    /\ f \in DOMAIN local
    /\ SaveRows([g \in DOMAIN local \ {f} |-> local[g]])
    /\ UNCHANGED lastFid

-----------------------------------------------------------------------------
(* Other people work on the portal.                                        *)

\* A push compares what it read of the portal with the baseline, and from then
\* on misses what happens there.
HasChecked(k) == at[k] # "idle" \/ (k = pushes /\ phase \in {"unread", "asking"})

\* Deletes are soft, and like every write they move the stamp on.
Removed(r) == [live |-> FALSE, attr |-> r.attr, geom |-> r.geom, stamp |-> r.stamp + 1]

RemoteEdit(i, c) ==
    /\ "remoteEdit" \in env
    /\ remotes < MaxRemote
    /\ portal[i].live
    /\ c.geom # NoGeom
    /\ c # ContentOf(portal[i])
    /\ remotes' = remotes + 1
    /\ portal' = [portal EXCEPT ![i] = [live |-> TRUE, attr |-> c.attr, geom |-> c.geom,
                                        stamp |-> @.stamp + 1]]
    /\ foreign' = foreign \cup {i}
    /\ late' = [k \in Pushes |-> IF HasChecked(k) THEN late[k] \cup {i} ELSE {}]
    /\ restamped' = restamped \ {i}
    /\ UNCHANGED <<sent, origin, fileVars, dialogVars, taskVars, env, edits, pushes>>

RemoteDelete(i) ==
    /\ "remoteDelete" \in env
    /\ remotes < MaxRemote
    /\ portal[i].live
    /\ remotes' = remotes + 1
    /\ portal' = [portal EXCEPT ![i] = Removed(@)]
    /\ foreign' = foreign \ {i}
    /\ UNCHANGED <<sent, origin, late, restamped, fileVars, dialogVars, taskVars, env,
                   edits, pushes>>

-----------------------------------------------------------------------------
(* The dialog, on the GUI thread.                                          *)

\* Opening it works the plan out, ids minted in memory only; whether a push of
\* an earlier dialog is still out is not asked.  Without a baseline table it
\* refuses, and says to clone again.
OpenDialog ==
    /\ phase = "closed"
    /\ hasTable
    /\ \E mint \in Mintings(local, issued) : plan' = PlanOps(local, baseline, mint)
    /\ phase' = "open"
    /\ superseded' = FALSE
    /\ UNCHANGED <<conflicts, portalVars, fileVars, taskVars, boundVars>>

CreatesRow(planned, f) == \E op \in planned : op.kind = "create" /\ op.fid = f
WithMintedId(r, planned, f) ==
    OfContent((CHOOSE op \in planned : op.kind = "create" /\ op.fid = f).id, ContentOf(r))

\* (No id is written down, or none on a split's copy, which already has one.)
StampedNot(rows, planned) == rows

StampedIfNone(rows, planned) ==
    [f \in DOMAIN rows |->
        IF CreatesRow(planned, f) /\ rows[f].gid = NoId
        THEN WithMintedId(rows[f], planned, f) ELSE rows[f]]

\* The rows once every create has written its id into its row.
Stamped(rows, planned) ==
    [f \in DOMAIN rows |->
        IF CreatesRow(planned, f) THEN WithMintedId(rows[f], planned, f) ELSE rows[f]]

\* Sync pressed: the ids of all creates are committed to the clone before
\* anything is sent.  (If they cannot be, nothing happens at all.)
StampMintedIds ==
    /\ phase = "open"
    /\ plan # {}
    /\ pushes < MaxPush
    /\ pushes' = pushes + 1
    /\ local' = Stamped(local, plan)
    /\ issued' = issued \cup {op.id : op \in {o \in plan : o.kind = "create"}}
    /\ phase' = "stamped"
    /\ UNCHANGED <<portalVars, lastFid, baseline, hasTable, plan, conflicts, superseded,
                   taskVars, env, edits, remotes>>

StartTask(work, agreed, skipped) ==
    /\ phase' = "pushing"
    /\ at' = [at EXCEPT ![pushes] = "sending"]
    /\ ops' = [ops EXCEPT ![pushes] = work]
    /\ todo' = [todo EXCEPT ![pushes] = work]
    /\ consented' = [consented EXCEPT ![pushes] = agreed]
    /\ declined' = [declined EXCEPT ![pushes] = skipped]
    /\ conflicts' = {}
    /\ UNCHANGED <<plan, superseded, inflight, failed, cancelled>>

BackToOpen ==
    /\ phase' = "open"
    /\ conflicts' = {}
    /\ UNCHANGED <<plan, superseded, at, ops, todo, inflight, failed, cancelled,
                   consented, declined>>

\* The portal is read once, synchronously, and compared with the baseline.
CheckConflicts ==
    /\ phase = "stamped"
    /\ \E seen \in Answers :
          LET found == FindConflicts(plan, baseline, seen) IN
          /\ late' = [late EXCEPT ![pushes] = {}]
          /\ blind' = [blind EXCEPT ![pushes] = Uncompared(plan, baseline, seen)]
          /\ IF found = {}
             THEN StartTask(plan, {}, {})
             ELSE /\ phase' = "asking"
                  /\ conflicts' = found
                  /\ UNCHANGED <<plan, superseded, at, ops, todo, inflight, failed,
                                 cancelled, consented, declined>>
    /\ UNCHANGED <<portal, sent, origin, foreign, restamped, fileVars, boundVars>>

\* It cannot be read: the user is asked whether to send all the same.
CheckFails ==
    /\ "checkfail" \in env
    /\ phase = "stamped"
    /\ phase' = "unread"
    /\ UNCHANGED <<plan, conflicts, superseded, portalVars, fileVars, taskVars, boundVars>>

SendUnchecked ==
    /\ phase = "unread"
    /\ StartTask(plan, Ids, {})
    /\ UNCHANGED <<blind, portalVars, fileVars, boundVars>>

OverwriteConflicts ==
    /\ phase = "asking"
    /\ StartTask(plan, conflicts, {})
    /\ UNCHANGED <<blind, portalVars, fileVars, boundVars>>

\* (Only updates are dropped.)
WithoutUpdates(changes, ids) == {op \in changes : op.kind = "update" => op.id \notin ids}

WithoutConflicts(changes, ids) == {op \in changes : op.id \notin ids}

\* "Skip those, send the rest"; with nothing left the dialog stays.
SkipConflicts ==
    /\ "skip" \in env
    /\ phase = "asking"
    /\ IF WithoutConflicts(plan, conflicts) = {}
       THEN BackToOpen
       ELSE StartTask(WithoutConflicts(plan, conflicts), {}, conflicts)
    /\ UNCHANGED <<blind, portalVars, fileVars, boundVars>>

AbandonPush ==
    /\ phase \in {"asking", "unread"}
    /\ BackToOpen
    /\ UNCHANGED <<blind, portalVars, fileVars, boundVars>>

LeaveScreen ==
    /\ phase' = "closed"
    /\ plan' = {} /\ conflicts' = {} /\ superseded' = FALSE

\* Closing the idle dialog drops the plan.
CloseDialog ==
    /\ phase = "open"
    /\ LeaveScreen
    /\ UNCHANGED <<portalVars, fileVars, taskVars, boundVars>>

\* Closing it during a push cancels the task and leaves the worker to notice.
DismissDuringPush ==
    /\ "dismiss" \in env
    /\ phase = "pushing"
    /\ LeaveScreen
    /\ cancelled' = [cancelled EXCEPT ![pushes] = TRUE]
    /\ UNCHANGED <<portalVars, fileVars, at, ops, todo, inflight, failed, blind, consented,
                   declined, boundVars>>

-----------------------------------------------------------------------------
(* The worker: one request at a time, the cancel flag read before each.    *)

WorkerTake(k) ==
    /\ at[k] = "sending" /\ inflight[k] = {} /\ todo[k] # {}
    /\ ~cancelled[k]
    /\ \E op \in todo[k] :
          /\ \A other \in todo[k] : Rank(op) <= Rank(other)
          /\ inflight' = [inflight EXCEPT ![k] = {op}]
          /\ todo' = [todo EXCEPT ![k] = @ \ {op}]
    /\ UNCHANGED <<portalVars, fileVars, dialogVars, at, ops, failed, cancelled, blind,
                   consented, declined, boundVars>>

\* What the portal makes of an op (external).  An append is deduplicated on the
\* id of a live feature; a PATCH leaves alone what it is not given.
Refused(op) == op.kind # "create" /\ ~portal[op.id].live

Deduplicated(op) == op.kind = "create" /\ portal[op.id].live

Written(op) ==
    LET old == portal[op.id]
    IN  IF op.kind = "delete" THEN Removed(old)
        ELSE [live |-> TRUE, attr |-> op.attr, stamp |-> old.stamp + 1,
              geom |-> IF op.kind = "update" /\ op.geom = NoGeom THEN old.geom ELSE op.geom]

Apply(op) ==
    IF Refused(op) \/ Deduplicated(op)
    THEN UNCHANGED portalVars
    ELSE /\ portal' = [portal EXCEPT ![op.id] = Written(op)]
         /\ sent' = IF op.kind = "delete" THEN sent
                    ELSE [sent EXCEPT ![op.id] = @ \cup {ContentOf(Written(op))}]
         /\ origin' = IF op.kind = "create"
                      THEN [origin EXCEPT ![op.id] = @ \cup {op.fid}] ELSE origin
         /\ foreign' = foreign \ {op.id}
         /\ late' = [k \in Pushes |-> late[k] \ {op.id}]
         /\ restamped' = restamped \ {op.id}

\* The request ends: with an answer, refused, or applied with its answer lost.
WorkerDone(k) ==
    /\ at[k] = "sending"
    /\ \E op \in inflight[k] :
          \/ /\ Apply(op)
             /\ failed' = IF Refused(op) THEN [failed EXCEPT ![k] = @ \cup {op}] ELSE failed
          \/ /\ "reject" \in env
             /\ UNCHANGED portalVars
             /\ failed' = [failed EXCEPT ![k] = @ \cup {op}]
          \/ /\ "lost" \in env
             /\ Apply(op)
             /\ failed' = [failed EXCEPT ![k] = @ \cup {op}]
    /\ inflight' = [inflight EXCEPT ![k] = {}]
    /\ UNCHANGED <<fileVars, dialogVars, at, ops, todo, cancelled, blind, consented,
                   declined, boundVars>>

\* (The cancel flag is read, and the loop not left.)
LoopEmpty(k) == todo[k] = {}

LoopOver(k) == todo[k] = {} \/ cancelled[k]

\* With nothing left the loop ends as "complete", the flag no longer read.
WorkerReturn(k) ==
    /\ at[k] = "sending" /\ inflight[k] = {}
    /\ LoopOver(k)
    /\ at' = [at EXCEPT ![k] = IF todo[k] = {} THEN "complete" ELSE "cancelled"]
    /\ UNCHANGED <<portalVars, fileVars, dialogVars, ops, todo, inflight, failed, cancelled,
                   blind, consented, declined, boundVars>>

-----------------------------------------------------------------------------
(* The callback `done', back on the GUI thread: that of the dialog on      *)
(* screen, or that of one long closed.  It cannot come between the stamping*)
(* and the end of the check, which are one call.                           *)

Returned(k) == at[k] \in {"complete", "cancelled"} /\ phase # "stamped"

\* (Failures do not hold the baseline back, or failed deletes do not.)
AllAttempted(k) == at[k] = "complete"

AllButDeletes(k) == at[k] = "complete" /\ \A op \in failed[k] : op.kind = "delete"

AllSent(k) == at[k] = "complete" /\ failed[k] = {}

\* Whether the dialog that started the push is still on screen.
OnScreen(k) == phase = "pushing" /\ k = pushes

TaskOver(k) ==
    /\ at' = [at EXCEPT ![k] = "idle"]
    /\ ops' = [ops EXCEPT ![k] = {}] /\ todo' = [todo EXCEPT ![k] = {}]
    /\ failed' = [failed EXCEPT ![k] = {}] /\ cancelled' = [cancelled EXCEPT ![k] = FALSE]
    /\ blind' = [blind EXCEPT ![k] = {}] /\ late' = [late EXCEPT ![k] = {}]
    /\ consented' = [consented EXCEPT ![k] = {}] /\ declined' = [declined EXCEPT ![k] = {}]
    /\ UNCHANGED <<inflight, local, lastFid, issued, boundVars, portal, sent, origin, foreign>>

\* Cancelled, or something failed: the baseline stays where it is, and a dialog
\* still on screen keeps its plan for another press of Sync.
PushIncomplete(k) ==
    /\ Returned(k)
    /\ ~AllSent(k)
    /\ phase' = IF OnScreen(k) THEN "open" ELSE phase
    /\ TaskOver(k)
    /\ UNCHANGED <<plan, conflicts, superseded, baseline, hasTable, restamped>>

\* accept() closes the dialog of the push; it does nothing to a later one, which
\* goes on with the plan it has.
Accept(k) ==
    IF OnScreen(k)
    THEN LeaveScreen
    ELSE /\ superseded' = (superseded \/ (phase # "closed" /\ baseline' # baseline))
         /\ UNCHANGED <<phase, plan, conflicts>>

\* Everything was sent: the baseline becomes a snapshot of all the saved rows,
\* with the stamps the portal shows now.
RefreshBaseline(k) ==
    /\ Returned(k)
    /\ AllSent(k)
    /\ \E seen \in Answers :
          /\ baseline' = SnapshotBaseline(local, seen)
          /\ restamped' = IF seen = portal THEN foreign ELSE restamped
    /\ hasTable' = TRUE
    /\ Accept(k)
    /\ TaskOver(k)

\* The refresh is best effort: it may fail before it touches the table ...
RefreshFails(k) ==
    /\ "stalefail" \in env
    /\ Returned(k)
    /\ AllSent(k)
    /\ UNCHANGED <<baseline, hasTable, restamped>>
    /\ Accept(k)
    /\ TaskOver(k)

\* ... or after DROP TABLE: each of DROP and CREATE commits by itself, only the
\* rows travel in a transaction.
RefreshDropsTable(k) ==
    /\ "dropfail" \in env
    /\ Returned(k)
    /\ AllSent(k)
    /\ baseline' = << >>
    /\ hasTable' \in BOOLEAN
    /\ UNCHANGED restamped
    /\ Accept(k)
    /\ TaskOver(k)

\* QGIS dies: the dialog and the tasks are gone, the file is what it was.
Crash ==
    /\ "crash" \in env
    /\ phase # "closed" \/ \E k \in Pushes : at[k] # "idle"
    /\ LeaveScreen
    /\ at' = [k \in Pushes |-> "idle"] /\ cancelled' = [k \in Pushes |-> FALSE]
    /\ ops' = [k \in Pushes |-> {}]
    /\ todo' = ops' /\ inflight' = ops' /\ failed' = ops'
    /\ late' = ops' /\ blind' = ops' /\ consented' = ops' /\ declined' = ops'
    /\ UNCHANGED <<portal, sent, origin, foreign, restamped, fileVars, boundVars>>

-----------------------------------------------------------------------------
User ==
    \/ \E f \in Fids, c \in Content : EditRow(f, c)
    \/ \E c \in Content : AddRow(c)
    \/ \E f \in Fids : SplitRow(f)
    \/ \E f \in Fids : DeleteRow(f)

Others == \E i \in Ids : RemoteDelete(i) \/ \E c \in Content : RemoteEdit(i, c)

Check == CheckConflicts \/ CheckFails

Dialog ==
    \/ OpenDialog \/ StampMintedIds \/ Check \/ SendUnchecked
    \/ OverwriteConflicts \/ SkipConflicts \/ AbandonPush
    \/ CloseDialog \/ DismissDuringPush

Worker(k) == WorkerTake(k) \/ WorkerDone(k) \/ WorkerReturn(k)

Callback(k) ==
    PushIncomplete(k) \/ RefreshBaseline(k) \/ RefreshFails(k) \/ RefreshDropsTable(k)

Next ==
    \/ User \/ Others \/ Dialog \/ Crash
    \/ \E k \in Pushes : Worker(k) \/ Callback(k)

Spec == Init /\ [][Next]_vars

\* Each task runs on a QGIS pool thread and every request has a timeout, so the
\* workers, their callbacks and the synchronous check go on; the user and the
\* portal owe nobody a step.
FairSpec ==
    /\ Spec
    /\ WF_vars(Check)
    /\ \A k \in Pushes : WF_vars(Worker(k)) /\ WF_vars(Callback(k))
-----------------------------------------------------------------------------
(* Properties.                                                             *)

PortalTypeOK ==
    /\ portal \in [Ids -> PortalRow]
    /\ sent \in [Ids -> SUBSET Content]
    /\ origin \in [Ids -> SUBSET Fids]
    /\ foreign \subseteq Ids /\ restamped \subseteq Ids
    /\ late \in [Pushes -> SUBSET Ids]

FileTypeOK ==
    /\ lastFid \in NCloned .. MaxFid
    /\ DOMAIN local \subseteq 1 .. lastFid
    /\ local \in [DOMAIN local -> Row]
    /\ DOMAIN baseline \subseteq Ids
    /\ baseline \in [DOMAIN baseline -> Entry]
    /\ hasTable \in BOOLEAN
    /\ issued \subseteq Ids

DialogTypeOK ==
    /\ phase \in {"closed", "open", "stamped", "unread", "asking", "pushing"}
    /\ plan \subseteq Op
    /\ conflicts \subseteq Ids
    /\ superseded \in BOOLEAN

TasksTypeOK ==
    /\ at \in [Pushes -> {"idle", "sending", "complete", "cancelled"}]
    /\ ops \in [Pushes -> SUBSET Op] /\ todo \in [Pushes -> SUBSET Op]
    /\ inflight \in [Pushes -> SUBSET Op] /\ failed \in [Pushes -> SUBSET Op]
    /\ cancelled \in [Pushes -> BOOLEAN]
    /\ blind \in [Pushes -> SUBSET Ids]
    /\ consented \in [Pushes -> SUBSET Ids] /\ declined \in [Pushes -> SUBSET Ids]

BoundTypeOK ==
    env \in Envs /\ edits \in Nat /\ remotes \in Nat /\ pushes \in 0 .. MaxPush

\* Every variable keeps its type.  In particular every operation ever planned or
\* sent names an id, so the portal is never left to assign one, and no local fid
\* is beyond the container's counter.
TypeOK == PortalTypeOK /\ FileTypeOK /\ DialogTypeOK /\ TasksTypeOK /\ BoundTypeOK

\* Retry safety, the reason ids are minted locally and written to the clone
\* before the create is sent (new_global_id): whatever is lost, refused, split,
\* cancelled or killed, no local row ever makes two portal features.
OneCopyPerRow ==
    \A i, j \in Ids : i # j => origin[i] \cap origin[j] = {}

NoMint == [f \in DOMAIN local |-> NoId]

HasRow(i) == \E f \in DOMAIN local : local[f].gid = i

\* An op says what the file holds: a row under its id, or that it is gone.
OfTheFile(op) ==
    IF op.kind = "delete" THEN ~HasRow(op.id)
    ELSE /\ op.fid \in DOMAIN local /\ local[op.fid].gid = op.id
         /\ ContentOf(local[op.fid]) = ContentOf(op)

\* The dialog keeps its plan after a failed push and sends it again as it is.
\* From the stamping of the ids on that sends what the file holds, and it is the
\* same as reading the file anew (reopening the dialog, or QGIS after a crash):
\* the file yields exactly this plan, unless the callback of an earlier push,
\* whose dialog was closed while it ran, has moved the baseline underneath it.
ReplanIsSamePlan ==
    phase \in {"stamped", "unread", "asking", "pushing"}
        => /\ \A op \in plan : OfTheFile(op)
           /\ PlanOps(local, baseline, NoMint) = plan \/ superseded

\* What the sync page calls synced: a saved row that reads as unchanged has a
\* content that was on the portal, put there by this clone or cloned from it
\* (`done': the baseline moves only once everything was sent, so that no unsent
\* work is marked as already synced).
SyncedMeansSent ==
    hasTable =>
        \A f \in DOMAIN local :
            Recorded(local, baseline, f) /\ Unchanged(local, baseline, f)
                => ContentOf(local[f]) \in sent[local[f].gid]

\* Deletes are derived from absence (plan_local_changes): a feature this clone
\* put on the portal, or cloned, and that has lost its local row is still
\* recorded in the baseline as long as it is live, so its delete is pending.
DeletionsStayPending ==
    hasTable =>
        \A i \in Ids :
            /\ sent[i] # {} /\ portal[i].live
            /\ \A f \in DOMAIN local : local[f].gid # i
            => i \in DOMAIN baseline

\* The push changes a row that somebody else has changed, without the user
\* having agreed to overwrite it.
Overwrites(k, i) ==
    /\ \E op \in inflight[k] : op.id = i /\ op.kind # "create"
    /\ inflight'[k] = {}
    /\ portal'[i] # portal[i]
    /\ i \in foreign \ consented[k]

\* find_conflicts' promise: say so rather than overwrite in silence.  Nothing
\* can be said of a change that lands after the check.
NoSilentClobber ==
    [][\A k \in Pushes, i \in Ids : Overwrites(k, i) => i \in late[k]]_vars

\* What the stamp comparison does give: a silent overwrite hits only a change
\* that landed after the push's own check, one whose stamp a baseline refresh
\* had already taken over, or a row the check had no two stamps for.  The last
\* takes a portal that answered a read with something else than features, or an
\* earlier push, its dialog closed, that touched the baseline after the plan was
\* made.
ConflictWindow ==
    [][\A k \in Pushes, i \in Ids :
          Overwrites(k, i)
              => \/ i \in late[k] \cup restamped
                 \/ i \in blind[k] /\ {"garbled", "dismiss"} \cap env # {}]_vars

\* ops_without_conflicts: a row the user chose to leave as it is on the portal
\* is not written by that push, in whatever order the rest goes out.
SkipHonoured ==
    [][\A k \in Pushes : \A i \in declined[k] :
          inflight[k] # {} /\ inflight'[k] = {} => portal'[i] = portal[i]]_vars

\* find_conflicts: a local change to a row nobody else touched is never
\* reported as a conflict.
ConflictsAreForeign ==
    [][phase = "stamped" /\ phase' = "asking" =>
          \A i \in conflicts' : i \in foreign \/ ~portal[i].live]_vars

\* _refresh_baseline: after a successful sync no row goes on reading as changed.
RefreshSettles ==
    [][phase = "pushing" /\ phase' = "closed" /\ baseline' # baseline /\ baseline' # << >>
          => PlanOps(local', baseline', [f \in DOMAIN local' |-> NoId]) = {}]_vars

\* The push loop always comes back: each op is attempted once, whatever became
\* of it, and the callback runs, however many dialogs are opened meanwhile.
PushEnds == \A k \in Pushes : at[k] = "sending" ~> at[k] = "idle"
=============================================================================
