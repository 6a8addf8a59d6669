# GratisGIS for QGIS: a TLA+ model

This directory models the parts of the GratisGIS QGIS plugin and its client
library whose correctness depends on an order of events: what happens when a
request is lost, a dialog is closed too early, two threads meet, a write fails
half-way, or QGIS dies. Paths below are relative to the repository;
`gratisgis_qgis` and `gratisgis_client` live under `src/`.

## 1. Inventory

| Component | State it keeps | Operations | What makes it hard | What must be true | Modelled |
|---|---|---|---|---|---|
| **Offline clone sync**: `offline/sync_state.py`, `offline/reader.py`, `offline/clone.py`, `ui/push_edits_dialog.py` | the GeoPackage rows; the baseline table in the same file; the plan on screen; the push task's failures | plan, stamp ids, check conflicts, ask, send op by op, refresh the baseline, dismiss | lost answers and retries, other people's edits, partial failure, a dialog dismissed mid-push and the next one opened, crashes, split features that share an id, a proxy's answer in place of the portal's | no row is published twice; nothing unsent reads as synced; nobody's edit is overwritten unasked | `CloneSync` |
| **Session and token refresh**: `gratisgis_client/auth/manager.py`, `http.py`, `portal.py`, `auth_bridge.py`, sign-in and sign-out in `ui/connection_dialog.py` | tokens in memory per client; the client cache; the blob in the QGIS auth database; the profile's authcfg id | access_token, force_refresh, sign in, sign out, restart | many threads share one manager; rotation makes a lost race fatal; sign-out under running requests | one refresh at a time; the retry uses a new token; the disk follows the memory; signed out means empty | `AuthSession` |
| **Vector and raster publish**: `publish/vector_pipeline.py`, `ui/publish_vector_dialog.py`, `ui/publish_raster_dialog.py`, the publish algorithms of `processing/` | staged upload, item, import jobs; the dialog's job and poll timer | export, stage, create, enqueue; check, presign, upload, finalize; clean up, poll, cancel, wait | cancellation between steps, clean-up that fails, lost answers, late polls, a dialog that has gone | an item the client knows of is finished, taken back or reported, unless its user went away; a closed dialog leaves no job running | `PublishPipeline`, `PublishLayer`, `PublishPromise` |
| **Whole-project publish, opening a map, the Browser's layers**: `ui/publish_project_dialog.py`, `publish/project_to_map.py`, `open_map.py`, `browser/` | the project's layers; the portal index; the rendered list; the ticks; one task | add from the tree, open a map, index, render, untick, add what is missing, publish | the canvas and the portal change under the list; builders and parsers written apart | the list is what is published; what came from the portal goes back as the same reference | `PortalLayers`, `MapTranslation`, `PublishProject` |
| **Clone write**: `ui/clone_dialog.py`, `offline/clone.py`, `layer_placement.py`, the clone algorithm | the target file, the staged copy, the backup, the project's layers | download, close layers, stage, promote or copy in place, put back, write the baseline, restore | failure after each step; a file that is locked; a dialog closed during the download | the old copy or the new one, never neither; the message is true | `CloneWrite` |
| **Connection profiles and layer keys**: `ui/connection_dialog.py`, `layer_auth.py`, `auth_bridge.py`, `settings.py` | the profile, two entries of the auth database, the keys the portal honours | new, edit, sign in, sign out, delete; mint, store, revoke | profiles captured before a task and saved after it; five places that can fail | no live key that the profile has forgotten; the vault follows the profile | `ConnectionKeys` |
| **Search dock**: `ui/search_dock.py`, `layer_targets.py` | sequence number, combo box, results | search, render, open | late answers, a selection that changed | results belong to the last search | `SearchDock` |
| **Freeze watchdog**: `freeze_watch.py`, `plugin.py` | last tick, stalled flag, stop event, thread | start, tick, poll, stop | two threads with no lock, a reload | one dump per stall | `FreezeWatch` |
| **Background tasks**: `tasks.py` | active tasks, result or exception | schedule, run, cancel, finish | cancel racing the result, callbacks that raise | exactly one callback | its contract, in every module with a task |
| **Edit-buffer planner**: `edit/sync.py` | none (a pure fold) | merge, order and drop ops | several edits of one feature; deletes that supersede | one op per feature and kind, deletes last | in part, in `CloneSync` |
| **The rest**: symbology, sharing, logging, discovery, transport, models, scripts | little or none | wrappers, parsing, I/O | | | no |

How they meet. Every dialog, Browser node and processing algorithm gets a client
from `portal.py`'s cache and so shares one `AuthManager` per connection; every
request goes through `http.py`, which asks that manager for a token. Anything slow
is a function handed to `tasks.py`, whose callback comes back on the GUI thread.
The sync dialog reads and writes the same GeoPackage the user edits, and the
clone dialog replaces; the portal is edited by others meanwhile. The publish
dialog opens the vector dialog for a local layer and stamps what it published.
The dock lists what the connection manager left in the store. `PROJECT.json` lists
the hazards this leaves, each at its line, with the properties that cover it.

## 2. Modules

| Module | What it is |
|---|---|
| `CloneSync` | one clone of one layer, the sync dialog, the tasks of its pushes, the portal and other people |
| `MCCloneSync` | its instances for TLC |
| `CloneSyncProofs` | `TypeCorrect`: the type invariant, proved |
| `CloneSyncSafety` | what a push may never do, proved: `OneCopyHolds`, `ReplanIsTheSame`, `SkipIsHonoured`, `OnlyWindowIsSilent`, `RefreshHasSettled`, and, in steady environments, `SyncedWasSent` and `DeletesStayPlanned` |
| `AuthSession` | the threads, the shared AuthManager, the cache, the stored blob, the connection dialog, Keycloak |
| `MCAuthSession` | its instances for TLC |
| `AuthSessionProofs` | `AuthTypeCorrect`, `SharedRefreshHolds`, `RetryCarriesNew`, `DiskIsCurrent`, `NoHerdHolds`, proved |
| `PublishPipeline` | the steps of the two publish pipelines on their workers, and the portal's item and jobs |
| `PublishLayer` | extends it with the publish dialog, its poll and its cancel, and the Processing algorithms |
| `PublishPromise` | the abstract specification: what becomes of an item |
| `PublishProofs` | `PublishTypeCorrect` and `PublishedHolds`, proved |
| `PublishDialogProofs` | what the publish dialog tells and leaves behind, proved: `ToldFirst`, `ClosedIsQuiet`, `ClosedStopsImports`, `ExportsGo`, and `PromiseKept`: the refinement's safety |
| `MCPublish` | the instance of the three |
| `PortalLayers` | layer sources: built from an item, read back from a source (pure) |
| `MapTranslation` | extends it: a map document planned for opening, a canvas translated for publishing (pure) |
| `PublishProject` | extends it: the canvas, opening a map, the dialog that publishes the project |
| `MCMaps` | its portals, items, map and canvas layers for TLC |
| `PublishProjectProofs` | `MapsTypes`, `UntickedIsLeftOut`, `ShownIsPublished`, `BackrefsAreOwn`, `AddedIsFound`, `ReferencesReturn`, and the lemmas about sequences they need, proved |
| `Happenings` | the environment of one session, which the next four share |
| `CloneWrite` | the clone dialog and algorithm, the file and the project's layers |
| `ConnectionKeys` | the connection manager: one connection's profile, session, key and entry |
| `SearchDock` | extends it with the dock, which lists its connection beside another |
| `FreezeWatch` | the watchdog, access by access |
| `Desk` | composes the four, with the one interaction they have, and states their properties |
| `MCDesk` | its instance |
| `CloneWriteProofs` | `CopyIsKept`, `NoteIsTrue`, `EditsStay`: the file, what is said of it, and the edits in its layers, proved |
| `DeskProofs` | what shares the desk with the clones, proved: `WatchdogIsQuiet`; `KeysAreRemembered`, `VaultFollows`, `NewestShown`; `DeskTypes` |

In every module an operator whose comment is in parentheses, just before the one
that models the code, is a variant with a plausible bug. `PROJECT.json` lists them
as mutants: put in the place of the real operator, each makes TLC violate the
property it belongs to.

In every module the environment is a set of `Behaviours`, chosen once in `Init`
(`env`, read through `May`). A run says with it what may go wrong, or who may act,
together. A run lists several environments because most failures do not
interact, and all at once would hide the interesting ones behind states.

### 2.1 CloneSync

The GeoPackage is `local` (saved rows by fid, with the portal id column `gid`)
and `baseline` (the table `gratisgis_baseline`: what each id looked like at the
last sync and the portal's `_edited_at` then). `hasTable` says whether the table
exists. These survive a crash. The dialog on screen is `phase`, `plan` and
`conflicts`. Each press of Sync starts a task of its own: `at[k]`, `ops[k]`,
`todo[k]`, `inflight[k]`, `failed[k]` and `cancelled[k]` are those of the push
started by the `k`-th press, and a push whose dialog was closed goes on while the
next dialog plans and sends (nothing in `plugin.py:374-379` or in the dialog asks
whether one is still out). A crash drops all of them. The portal is external:
`portal[id]` has a content, a live flag and a stamp every write moves on.

- **Planning** (`Owns`, `Recorded`, `Creates`, `Updates`, `Deletes`, `PlanOps`)
  translates `plan_local_changes` and, for the ops a clone yields, `build_sync_plan`.
  Hashes become equality of contents; a content is an attribute value and a geometry.
  The first row in fid order keeps an id that several rows claim. A row drawn in the
  clone has an empty id column, and `_global_id_of` falls back on the container's
  fid: `DrawnId` says which id that makes of each new row (or `NoId`). Such ids are
  never minted and are no ids of cloned features.
- **The dialog**: `OpenDialog` plans with ids minted in memory; `StampMintedIds`
  commits them to the rows; `CheckConflicts` reads the portal once, and
  `OverwriteConflicts`, `SkipConflicts`, `AbandonPush` are the three answers;
  `CheckFails` is the portal that cannot be read, and `SendUnchecked` the answer that
  sends all the same.
- **Reading the portal** yields one of `Answers`: its features or, with `garbled`,
  none (`Emptied`), which is what `download_geojson` makes of a 2xx body that is no
  feature collection. The check and the refresh both read this way. An emptied
  answer hides every stamp from the check and makes the refresh record none.
- **The worker**: `WorkerTake` and `WorkerDone` are one request each, creates
  before updates before deletes; within a kind any order, which covers the
  code's. The cancel flag is read before each one. A request ends applied,
  refused, or applied with its answer lost.
- **The callback**: `PushIncomplete`, or `RefreshBaseline` and the two ways
  the refresh can fail: before it touches the table, and after `DROP TABLE`
  (Python's sqlite3 commits DROP and CREATE by themselves). It belongs to the dialog
  that started the push: `accept()` closes that one and does nothing to a later one,
  whose plan then was made of another baseline (`superseded`).
- **Observers**: `sent`, `origin`, `foreign`, `restamped`, and by push `late`, `blind`,
  `consented`, `declined`, are read by properties, and so is `superseded`; no guard reads one.

The environments are sets of `Behaviours`, chosen once in `Init`, so that a run can
say what it allows. The rows of a clone start with one content: only whether a
content changed matters to the code.

### 2.2 AuthSession

A token set is the number Keycloak issued it under. Keycloak (external) rotates: a
refresh of a session's last token set issues the next one and kills the old.
Staleness is time passing (`Expire`, `Lapse`), in issue order; `Revoke` is an access
token the portal rejects early. Each thread runs `access_token`: the unlocked load
(two steps, since two threads race in it), the unlocked check, the lock, the second
check, the grant, the assignment, the save. A 401 leads to one forced refresh.
The connection dialog signs in (reserve an authcfg id, drop the cached client,
browser, exchange, assign, save) and out (drop the client, clear the blob, clear
the profile). A sign-in whose tokens cannot be stored (`LoginSaveFails`) has failed,
and the client keeps what it assigned. Threads that already have a client keep it,
as in the code.
`Restart` ends the process and leaves the profile and the blobs.

`disturbed` marks a client whose tokens something other than a refresh of its own
replaced: a sign-in, a logout, a racing first load, a failed save, an old client
saving into the same slot. The code gives no guarantee for those, and
`SharedRefresh`, `RetryIsFresh` and `DiskFollowsMemory` say what it does give for the
others. `AuthManager.logout` is part of the library and is modelled, although the plugin
never calls it.

### 2.3 PublishPipeline, PublishLayer and PublishPromise

An attempt is one press of Publish or one run of an algorithm: a `vector` or `raster`
layer of the dialog, a `single` layer of `PublishVectorLayerAlgorithm`, or a `batch` of
`PublishLayersAsItemAlgorithm`. `pc[a]` is where its
worker is, in the order of `run_vector_pipeline` (export, stage, probe, create,
enqueue) or `run_raster_pipeline` (create, check, presign, upload, finalize). Each
step is an action; `CallFails` is a call that fails with nothing done, the disjuncts
with `"lost"` are calls whose answer is lost, and `SeeCancel` is the handle asked
before each long step. `Raise` is the `try` around everything after the create:
from there an exception goes to `DeleteItemQuietly`, whose failure becomes the
note the user reads. The portal (external) is `item`, `ready` (a raster's
tiles) and `job`, one job per layer; a job against a deleted item is void.
`temp` is the temporary GeoPackage. The two exporters differ: the one for a single
layer, of the dialog and of the `single` algorithm, leaves a half-written file behind
when the writer fails, the one for several unlinks its own (`HalfWritten`). `_safe_unlink`
swallows errors, so a removal may leave the file (`Unlinked`: it is then `stuck`).

`PublishLayer` adds who calls: the dialog (`PressPublish`, `VectorDone`,
`RasterDone`, `PublishFailed`), its timer and poll (`PollOnce`, `PollRead` on the
poll's own task, `PollDone`, `PollFailed`), closing it (`Reject`, with the cancel
of the first job), and the algorithms, which wait for every job
(`WaitForImportJob`). `cancelReq` is the task that asks the portal to cancel.

`PublishPromise` is about what becomes of a publish (`fate`) and whether its user went
`away`. A publish is begun, holds an item once the portal has named it, and hands it to
the import. It ends complete, withdrawn or reported. There are two worse ends: orphaned,
only of a publish that never learned the item's name, and left, unfinished with nothing
said, only when the user closed the dialog or removed the connection. `Fate` maps the
state of a pipeline to it from what the user has really been told: a stranded item counts
as reported when its message was shown, and an import as complete when it was called
published or, with nobody waiting to hear, when its job succeeded. A raster is complete
when it is finalized; the portal's conversion after that is not observed by the client.
`KeepsPromise` says that `Spec` implements `PublishPromise!Spec`, its fairness included.
The end `left` is real: a dialog closed during its publish returns from `failed`
before the clean-up note is shown (`publish_vector_dialog.py:600-603`), although
the comment at 567-569 says the user "hears what happened to the half-created item either way".

### 2.4 PortalLayers, MapTranslation and PublishProject

A source URI is a record of the parts the parsers tell apart: its shape (one per
builder of `browser/uris.py`), portal, item, layer and address. `PortalLayers`
translates the builders, what every Browser node offers to drag (`RoutedSources`,
with the access, the layer key, the geometry and the size that decide), which
items a bucket shows, and the parsers. `MapTranslation` translates `plan_map_open`
and `translate` (`EntryFor` is `_resolve_layer` and what is made of it). Styles,
opacity, titles and groups are carried along both ways and left out.

`PublishProject` is the state: `store` (every portal's items), `canvas`, the
map being opened, and the dialog (`index`, `translation`, `excluded`, `busy`,
`task` are its fields). The dialog has one task at a time and is modal, but a map
whose fetch was under way lands behind it. Each row of a bulk add fails on its own; one
that was made and whose answer was lost has failed as far as the dialog knows. `drawn`, `unticked`, `added` and
`sent` are observers; so is a layer's `from`, the reference a map on its portal
makes to what was added, which `ReferencesComeBack` compares with what is
published.

### 2.5 Desk: CloneWrite, ConnectionKeys, SearchDock and FreezeWatch

`CloneWrite`. `copy` is the file at the target: where its data come from (a clone,
the previous contents, or `Torn`), where its baseline comes from (`Empty` when the
table has no rows), and whether it has the origin table. The dialog's write is one
stretch of the GUI thread; its steps are the actions from `BeginWrite` to
`CloneWritten` or `CloneRaised`, and `GuiIsFree` keeps everybody else out.
`Rename` fails on Windows while a handle is open; `SetAside`, `OverwriteInPlace` and
`PutBack` are the fallback. A clone that raised has its `trouble`: before its file
was in place ("early") or after ("late"). The algorithm takes the same steps on a
worker and closes no layer.

`ConnectionKeys`. `prof`, `tokens`, `entries` and `live` are the four places that
hold a part of the truth: the profile in the settings, the token entry and the
layer entry of the auth database, and the keys the portal honours. A flow (new, sign in,
sign out, delete, edit) works on the profile it read when it was begun
(`flow[f].prof`), and every request of it is a step. `overlap` remembers that a
flow began while another one was out, which a manager closed during a discovery
makes possible.

`SearchDock`. Every search is a task of its own; `seq` is `_search_seq`. The Search
button is disabled during a search, Return in the query is not. A double click
goes through the connection the combo box shows then, as in the code: the model
keeps both the connection that was searched and the one it goes through.

`FreezeWatch`. `tick` and `poll` share two fields and no lock, so each access is a
step: `TickStamps` then `TickClears`; `Wake`, `Look`, `Decide`, `WriteDump`. A
thread that runs its events lets no second pass without a tick. `stop()` sets an
event and joins nothing, so a watcher that was stopped may still be at work when
the reloaded plugin starts another.

`Desk` composes them. They share the GUI thread and little else: when the manager
closes, the dock reads the store again (`ManagerClosed`), and a modal dialog keeps
the dock away.

## 3. Runs

All bounds are CONSTANTS named `Max...`. They are guards of the environment's
actions (edits, presses, requests, searches, freezes), never of the code's; the
exceptions are `MaxToken` and `MaxFid`, beyond which Keycloak refuses and no row
is added. A bound that is no constant is named in a comment at its guard (one
dialog, one algorithm at a time, one deletion). Deadlock is not checked: a
behaviour that has used its bounds up stops, as the real system does when nobody
does anything.

| Run | Instance | Shows |
|---|---|---|
| `sync_storm` | 2 cloned rows, 1 more fid, an id the reader makes of it and 1 id to mint, 2 edits, 1 remote edit or delete, 2 pushes, four environments: everything but overlapping pushes, and overlapping pushes with conflicts and splits, with failures and crashes, with lost answers | `TypeOK`, `OneCopyPerRow`, `ReplanIsSamePlan`, `ConflictWindow`, `SkipHonoured`, `RefreshSettles` |
| `sync_synced` | 1 cloned row, 2 more fids, 2 ids to mint, 3 edits, 2 pushes; five environments: calm pushes in a row, every failure with the edits before the first push, and overlapping pushes with failures, foreign edits or emptied answers | `SyncedMeansSent`, `DeletionsStayPending`, and that every push ends (`PushEnds`) |
| `auth_daily` | 2 threads, 1 request each, 3 token sets, 2 clients, 2 authcfg slots, three environments | `TypeOK`, `SharedRefresh`, `NoHerd`, `RetryIsFresh`, `DiskFollowsMemory`, `RequestEnds` |
| `publish` | 2 attempts, uploads of up to 2 layers, six environments | `PublishedIsImported`, `ClosedLeavesNoImport`, `QuietAfterClose`, `ToldBeforeNext`, `ExportIsRemoved`, `DialogComesBack`, `AlgorithmEnds`, and the refinement `KeepsPromise` |
| `maps` | 2 portals that both know one basemap, an item of each kind, a map with an entry of each kind, 2 layers put on the canvas besides, 1 unticked, ten environments | `UntickedStaysOut`, `ShownIsShipped`, `BackrefsAreOfThisPortal`, `AddedIsRecognised`, `ReferencesComeBack`, `MapDialogComesBack` |
| `desk` | 2 clones over 2 readers; 3 flows in 2 openings of the manager; 2 searches; 4 seconds, a stall after 2, 2 freezes, 2 loads; ten environments | `KeepsTheCopy`, `CloneNoteIsTrue`, `UnsavedEditsStay`; `KeyIsRemembered`, `VaultFollowsProfile`; `NewestSearchShown`; `OneDumpPerFreeze`; `DeskComesBack` |
| `sync_skip`, `sync_clobber`, `sync_own_conflict`, `auth_cold`, `auth_sign_out`, `maps_signed` | the smallest environment that shows it | a disagreement with the code's own words, see section 5 |

Why these bounds are enough to be interesting.

- *Sync.* Two rows are needed for one op of a push to fail while another succeeds;
  one more fid and id for a create or a split's copy; two pushes for a retry, or for one
  that is still out when the next begins; one remote edit for a conflict. All behaviours at
  once with overlapping pushes are more states than can be visited, so overlap has
  environments of its own; the proofs know no such division.
- *Auth.* Two threads race for a lock; three token sets let the loser of a race present
  a token twice rotated; two clients let an old one save while a new one is in use.
- *Publish.* Two attempts are a publish that failed or was forgotten and the next one;
  two layers let one job fail, or one enqueue, after another succeeded.
- *Maps.* Two portals with one basemap address are what an index of the wrong portal
  would show by; two loose layers are two rows with one address, or one that is
  unticked beside one that is not. The opened map comes on top of them.
- *Desk.* Two clones are the first copy and the one that replaces it; two readers
  are a layer that is put back and one that is not; three flows are a sign-in, a second one that
  supersedes its key, and a sign-out; two managers let flows overlap; two searches an
  answer that is late; two freezes and two loads a flag left over from the one before.

What the properties leave out, and why. `ReplanIsSamePlan` holds of the rows always, and
of the baseline unless an earlier push moved it (`superseded`), which needs a dialog
dismissed during its push. `ConflictWindow` names four ways to overwrite in silence: a
change after the check, one whose stamp a refresh took over, and a row with no two stamps
to compare, because an answer was emptied or because an earlier push rewrote or dropped
the baseline after the plan was made. `ExportIsRemoved` excepts the half that a
single layer's failed writing leaves, and a removal that fails. `ClosedLeavesNoImport` excepts a cancel request
that failed, a connection that was removed and a job the dialog lost sight of
and said so. `KeyIsRemembered` and `VaultFollowsProfile` are of flows that
do not overlap; with overlap the last one to save wins (section 5).
`ReferencesComeBack` excepts signed-in features (the run `maps_signed`), map
services of an opened map (section 5), and references to a sublayer that is gone; of
several services at one address any will do, since the portal's listing decides.
`AddedIsRecognised` is about basemaps that are still there, and is checked and proved where
items are not both deleted and made without an answer: a row whose basemap was gone
when the index was fetched, and of which a copy was then made that no answer told of, stays.
`BackrefsAreOfThisPortal` excepts data layers, whose portal the code drops
(section 5). `KeepsTheCopy` excepts a put-back that itself fails, and a death in
the middle of the in-place write.

**Fairness.** `sync_synced` assumes weak fairness of each push's worker and callback, and of
the conflict check, which is one call with the stamping and keeps callbacks waiting meanwhile:
the task runs on a pool thread, every request has a timeout (`transport.py`), and QGIS
calls `finished` after `run`. `auth_daily` assumes it of each thread's steps,
for the same reason. The fairness is weak on the whole thread, so waiting for a lock
is only rewarded if the holder releases it. No request of `auth_daily` can starve at
the lock, because the requests it could lose to are bounded by the environment and not by
the fairness. `publish` assumes it of each attempt's worker and callbacks, of the
cancel request's task, of the poll timer, and of the portal's import worker,
which ends a job one way or the other: without that an algorithm with no timeout
would wait for ever, as the code does. `maps` assumes it of the dialog's task and its
callback; `desk` of the tasks and callbacks of the clone, of the manager and of
the dock. The user, time, other people, the watchdog and (but for
import jobs) the portal owe nobody a step.

## 4. Proofs

All are checked by TLAPS for every value of the constants allowed by the named
ASSUMEs of the modules they are about: any set of ids, any clone of distinct ids,
any finite set of threads, any number of publishes, layers, clones, freezes
and reloads, any bounds and environments.

- `TypeCorrect` and `AuthTypeCorrect`: the type invariants. They hold of more than
  types. That an op of the clone names an id needs the plan to be made of owned
  or freshly minted ids (`CloneSyncProofs`), and that a token is at most the
  last one issued needs what is in flight to be bounded while `Mint` moves on
  (`AuthSessionProofs`, by the inductive `TypeInv`, which adds `Founded` to
  `TypeOK`: every client built has its authcfg slot, threads use clients that were
  built, a sign-in under way has an authcfg id, and what is posted or assigned is
  a real token).
- `OneCopyHolds`. `OneCopyPerRow` is not inductive: it says nothing of the ops still
  to be sent. `OneCopyInv` adds that the queue and the wire of each push hold only ops it was given,
  and the push on screen only planned ones (`TasksInv`, which all these proofs share), that no two creates of a plan share a row or an id
  (`CreatesApart`), that each id is the row's own or new before the stamping and the
  row's own after it (`BeforeStamping`, `AfterStamping`, `RowsIssued`), that the row
  a feature came from, if it is still there, owns the feature's id
  (`OriginsSettled`), and that whoever creates a row, the dialog or any push still
  out, names one id, that of the feature it already made (`OneId`). A row that already has a feature and is planned as a create again
  (lost answer, crash, dropped table) is then planned under the same id.
- `ReplanIsTheSame`: the saved rows still yield the plan on screen. `ReplanInv` says how
  the two keep together: every id in the baseline is one of a row (`BaseFits`), and
  the plan is what the rows give with some baseline, the file's own unless the plan is
  superseded (`PlannedFrom`), with fresh ids before the stamping and with their own after
  it (`PlanFromFile`). The lemma `StampedPlan` is the heart of it: committing the minted
  ids to the rows changes nothing of the plan.
- `RefreshHasSettled`: a baseline taken of the rows is one they do not differ from
  (`SettledPlan`). It assumes `HasColumns`: of a layer with geometry only, a split's
  copy whose geometry is then removed is an empty row, nothing is sent for it, but the
  snapshot takes its geometry for the id it shares, and the original reads as changed
  (TLC finds this with `HasColumns = FALSE` and three edits).
- `SkipIsHonoured` and `OnlyWindowIsSilent` are about single steps, and need
  `PushInv`: whatever some push has queued or out was compared with the portal, consented
  to, changed since, or blind, and none of it is of a declined row (`WarnInv`). That the comparison
  sees every other change needs `StampInv`: a baseline stamp is never
  ahead of the portal's, and a row somebody else changed, and no refresh took over,
  has another stamp than the baseline holds, if it holds one; it holds none of a live row
  only in an environment with emptied answers or overlapping pushes. With neither, one push
  is out at a time (`OnePush`) and its plan is of the baseline in the file (`PlanBased`). `RequestReturns` says that the portal changes
  through a request of the push only while its worker has one out.
- `SyncedWasSent` and `DeletesStayPlanned` hold of *steady* environments (`Steady`): no
  geometry is cleared, no conflict is skipped, and edits are saved after the first push
  only if nothing goes wrong but a check that fails or an answer that is emptied. Section 5
  has the traces that each clause excludes. `SteadyInv` says what a baseline is worth there.
  It holds only what was sent; a live feature is recorded or has its row; and the content of a
  live row that is not recorded has been sent (`Accounted`), so that a create the portal has
  already, which it answers without taking the contents, loses nothing. What a dialog shows
  and what every push was given leaves nothing out: each row and each missing row that is not
  as it was sent has its op (`Covers`, in `PlanFits` and `OpsFit`), and rows keep to that to the
  end of the push, though the dialog was dismissed (`RowsStay`). What a worker is through with and
  did not see fail was done (`DoneIsDone`), and that a row's content was once sent, and a deleted
  feature is gone, is never undone by another push (`Progress`); so whichever push completes, and
  in whatever order, its refresh records what the portal was given. Where edits go on, every push
  completes (`CalmPush`), and what it leaves is a baseline of exactly what is live. The rest is
  `FirstPush`, that nothing is live that nobody issued, and `NoneEmpty`, that every row has a
  geometry to send.
- `SharedRefreshHolds`. `RefreshInv` says that a thread in the critical section
  holds its client's lock, that what it is about to present is what the client
  holds, and that the tokens an undisturbed client holds were never exchanged.
- `RetryCarriesNew` adds to it (`RetryHolds`) that what is being saved is what the client
  holds, and that a forced refresh holds its rejected token until a new one has come.
- `DiskIsCurrent`. `DiskInv` adds that the blob is what the client holds unless somebody is
  between assigning tokens and writing them, that a first load still has the
  blob in hand, and that a sign-in writes to the cached client (`MemoryInv`, `GuiInv`).
- `NoHerdHolds` is a count, for any finite set of threads. `HerdCount` says that the token
  sets issued, with the 401s whose refresh is still to come, are no more than the
  sign-ins, the 401s, and the stale tokens a later one has replaced (`Spent`). Each
  refresh nobody was told to make is of a stale token (`StaleOnly`), which it supersedes:
  it moves one token into `Spent`, and no second refresh can find it there.
- `PublishTypeCorrect` and `PublishedHolds` (`PublishProofs`), for any
  number of publishes and layers. The dialog polls the first job only, and calls the
  whole publish done when that job is. That is right because it publishes one
  layer at a time, and this needs an invariant over the way there. `IInv` says of every
  publish whose step it is and whether something was raised (`CauseAndPlace`), that
  it has a live item from the create on while all goes well (`ItemIsHeld`), that
  every enqueued layer has its job and only a publish that failed has a void
  one (`JobsAreMade`), that it is called published at its good end alone
  (`ToldIsSo`), and that the dialog has one publish in course, watches a vector
  publish that ended well, and may trust a good answer later (`DialogInv`).
  Assumed: `EnvAssumption` and `BoundAssumption` of `PublishPipeline`.
- `ToldFirst`, `ClosedIsQuiet`, `ClosedStopsImports` and `ExportsGo`
  (`PublishDialogProofs`) rest on the same `IInv`. `UserInv` adds that publishes are
  begun in order, that an open dialog owes its user word of one publish at most, the
  one in course or the one it watches (`ToldInv`), that only an open dialog's timer runs
  (`WatchInv`), and that every import of its own that runs is watched or given up aloud
  (`ImportInv`): closing has no other to cancel. `ExportInv` says where a file that is
  still there comes from.
- `PromiseKept` (`PublishDialogProofs`) is the safety half of `KeepsPromise`: `Fate` of the initial
  state is the abstract one's, and each step moves every fate as `PublishPromise` allows, or leaves
  it. A fate depends on what was said and on whether anybody still listens, so one step of
  the dialog may move the fate of a publish whose worker did nothing. `HeardInv` says who listens:
  the timer runs for a publish not yet told of, and what an open dialog has not said of an
  ended publish is what it watches, unless the connection is gone; the moves of each kind of
  step are the lemmas `PipelineMoves`, `CallbackMoves` and `HearingMoves`.
- `WatchdogIsQuiet` (`DeskProofs`), for any number of freezes, reloads and seconds.
  `OneDumpPerFreeze` counts dumps; `FreezeInv` says why the count stays one: a
  watcher that has seen a stall saw a freeze that is not dumped (`WatcherInv`), no
  two watchers saw the same one, although an unloaded plugin's watcher lives
  on (`WatchersApart`), and a tick is late only in a freeze or before the first tick after
  it, when the flag says whether the freeze was dumped (`StallInv`). `StallAssumption`
  is used: with a stall no longer than one tick a thread that is only slow
  would be dumped.
- `CopyIsKept` (`CloneWriteProofs`), for any number of clones and layers that read
  the file. `KeepsTheCopy` looks at the file alone; `CloneInv` adds that one clone at a
  time writes (`Turns`), that what is staged is that clone's own and neither the file
  nor the backup has anything of a clone that has not been placed or failed early
  (`StagedInv`), and that a backup is whole unless a put-back failed (`TornInv`).
  That there is one writer is a bound of the model for the algorithm (section 6), and
  what the dialog does for itself.
- `NoteIsTrue` and `EditsStay` (`CloneWriteProofs`). A message is said at the end of some
  ten steps, of which each may fail. `Progress` says of every place between them what has
  become of the file against what the write found there (`before`), `DialogInv` that the
  dialog waits for its newest clone alone, and `EditInv` that no layer of the file has
  edits while it waits, which is why the look at the buffers, before the download, still
  holds at the removal, after it. `DeskCloneInv` is their conjunction with `CloneInv`.
- `KeysAreRemembered` and `VaultFollows` (`DeskProofs`), for any number of flows,
  while none overlap (`~overlap`, as in the properties). `KeysInv` says that one flow is out at
  a time and works on the profile as it is stored (`OneFlow`), that every key the
  portal honours is the profile's, or on its way in or out, or lost to a failure
  (`KeyInv`), and which entry holds what at each place of a flow (`VaultInv`).
- `NewestShown` needs only that what is shown was the newest when it was shown, and that
  a new search clears it. `DeskTypes` is the type invariant of the four parts together.

- `MapsTypes`, `UntickedIsLeftOut`, `ShownIsPublished` and `BackrefsAreOwn`
  (`PublishProjectProofs`), for any canvas, any portals and any environment.
  What is published is a translation of a part of the canvas, and the lemmas
  say what translation does with a part: `OnlyTwice` and `OnlyMapped`
  (keeping before or after mapping is the same), from which `LeftOut`: leaving layers out
  leaves out their entries and nothing else, provided none of them is a basemap, of
  which the document has one. `MapsInv` supplies the proviso. The list is the translation
  of the canvas as it was drawn, and the layers drawn keep their ids, their sources and
  what makes them no basemap, although the canvas grows under the list and a publish stamps
  its layers (`DrawnInv`, `CanvasGrows`); so a box the user could untick is never a
  basemap's (`TickInv`). For `BackrefsAreOwn`: an index names items of
  one portal, which keep it (`IndexOf`, `StoreKept`); a task in an open dialog is of
  the portal chosen (`TaskInv`); and an index of another portal than the chosen one
  is there only while the new one is fetched (`IndexInv`), when the button
  is off. Assumed: `NoneAssumption`, `ItemsAssumption` (finitely many ids), and that seeds and palette
  are items and layers there can be (`SeedsAssumption`, `PaletteAssumption`). These
  proofs go by induction over sequences, with the set of the sequences a fact holds
  of in the place of a predicate (`SequenceInduction`); the model selects with a recursive
  function, `Only`, since the provers know nothing of `SelectSeq`.
- `AddedIsFound` (`PublishProjectProofs`). What the dialog was told is made is on the portal
  while nobody deletes (`KnownStep`); whatever was made and is there the index has, once
  it is back, since between a create and the index sought after it the dialog is
  busy (`Recognised`, `RecognisedStep`); and a layer without a portal item whose
  template is in the index is a basemap, not skipped (`TemplatesInv`). `AddedInv` splits by environment:
  without deletions a copy made without an answer is of something already found, and
  without lost answers nothing is made that was not told of.
- `ReferencesReturn` (`PublishProjectProofs`), in every environment. Builders and parsers are
  written apart in the code, and the theorem says that they meet: `OriginInv` ties the
  source of every layer of the canvas, however it got there, to the reference it came
  from (`Tied`: `TreeTied` for what the tree draws, `TwinTied` for the Layers panel's twin,
  `PlanTied` for an opened map, `MatchedIsNamed` for the sublayer a reference finds), and
  survives deletions, since an item that is gone keeps its name and its layers. `SentInv`
  carries this to the moment of the button, with `TranslatesAll`: a translation has an
  entry of every layer that resolves. `TiedComesBack` then reads each source with the parsers.
  Assumed besides: maps of the seeds name an item in every reference to one
  (`EntryOK`), and an XYZ layer has its template (`LoneOK`; `_resolve_wms_basemap`
  and `_build_skipped` both read it).

Each inductive invariant was checked by TLC on the instance of its run; of `ReplanInv`, whose
quantifier over baselines TLC cannot enumerate, that is the property itself.

Model-checked only:

- liveness, which this prover does not do under fairness (`PushEnds`, `RequestEnds`,
  `DialogComesBack`, `AlgorithmEnds`, `MapDialogComesBack`, `DeskComesBack`, and the
  fairness of `KeepsPromise`).

Every safety property the runs check is stated by a theorem.

## 5. What the code does and its comments do not say

Six runs end in a counterexample on purpose.

1. `sync_skip`. "Skip those, send the rest" drops the conflicting ops from the
   push; it then completes, and the refresh takes the baseline from all saved
   rows. The skipped local edit now reads as unchanged and is never sent.
2. `sync_clobber`. The refresh takes the portal's stamps of today for rows whose
   content was never pulled, so a row somebody else changed has their stamp and our
   old content. Editing it later overwrites theirs without a question.
   `ConflictWindow`, which passes, says which other ways there are (section 3).
3. `sync_own_conflict`. If one op fails the baseline keeps the old stamps,
   and the retry calls our own successful updates conflicts.
4. `auth_cold`. `_load_persisted` is not under the refresh lock. The slower of two
   first requests can put the stored token back after the other exchanged it.
5. `auth_sign_out`. A refresh in flight during sign-out saves its tokens into the slot
   just cleared.
6. `maps_signed`. A private layer added as true features has a source on
   `/api/ogc`, and `parse_oapif_uri` knows only the public root: a map published
   from it leaves it out.

The models of `publish`, `maps` and `desk` have the following behaviours too; the
passing properties are stated around them, and `PROJECT.json` quotes the line each
disagrees with.

- *Publish.* A dialog closed during its publish says nothing of an item that could not be
  removed, and a removed connection stops the poll without a word: such an item is `left`. The
  exporter of a single layer leaves its temporary file when the writer fails. Closing the dialog
  does not stop a raster upload, although the comment at `publish_vector_dialog.py:106-107` says it can.
- *Maps.* A published map opens without its camera (`PlannedView` reads where
  `translate` does not write). A map service of an opened map is skipped when that map is
  published (`layer='N'` against `layers='show:N'`). A layer of another portal goes into a map
  as a reference to an item this portal does not have. A published raster is
  stamped and then referred to as a data layer.
- *Clone.* A baseline that fails after the file was promoted is reported as a file
  that is unchanged. Of several layers that read the file one is put back. A
  download that is no feature collection replaces the copy with an empty one. The
  algorithm uses the in-place fallback without closing anything.
- *Connections.* A manager that is closed during a discovery or a revocation can
  be opened again, and two flows overlap. A sign-in whose mint fails removes a layer
  entry that saved projects name.
- *Dock.* A double click opens the row through the connection the box shows now.
- *Watchdog.* A tick between the comparison and the flag leaves the flag set, and a
  freeze that begins before the next tick is not dumped; `stop()` does not
  wait for a dump that is being written.

The model of `CloneSync` has further traces of the same family, found by adding one
behaviour to the environments of `sync_synced`, and excluded there by name: a geometry that is cleared
locally is sent as "leave it alone" (`clear`, with `features.py:174`); a local edit made
after a failed push to a row whose create did arrive is deduplicated away and then
marked synced (`lost` or `reject` with `lateEdit`); a dialog dismissed during its last
request still refreshes the baseline, with edits saved since, or under the plan of the next
dialog (`dismiss` with `lateEdit`); an empty baseline table left by a failed rewrite turns every row into a
create that the portal deduplicates (`dropfail` with `lateEdit`). A row deleted on
both sides is not reported as a conflict, but its delete is sent, answered 404,
and keeps every later push from completing.

## 6. Not modelled

Wording, layout and logging; hashing, the spelling of URLs, JSON and style
dictionaries; the tree widgets; the PKCE listener and discovery; symbology, sharing and
item properties, Processing parameters, maintenance scripts. In `CloneSync`: ids typed into the id column by hand, and drawn rows whose fid is the id of
a cloned feature (`DrawnAssumption`); two clones of one layer; the live-layer
branch of the dialog, `_write_back_created_ids` (it stores ids that creates of a clone
already have), and a stamp that cannot be committed (the push then ends before
anything is sent). In `AuthSession`: several connections,
and reading `self._tokens` twice in `access_token` (one step here). In
`PublishProject`: drag and drop onto a bucket, node lifetimes, a second dialog. In
`CloneWrite`: two writers at once. In `ConnectionKeys`: edits of several connections,
and the reload of layers on the canvas after a sign-in. Of `tasks.py`: a callback that raises
is logged and swallowed, and its dialog then stays as it was; a task QGIS drops
at its exit. Properties of the portal and of Keycloak are assumptions, taken from how the code
uses them; `PROJECT.json` marks those definitions external.

## 7. Plan

What is left, in order.

1. `AuthSession` and `ConnectionKeys` in one run: the second as an
   abstraction of the sign-in and sign-out of the first, with running requests.
2. `TaskRunner`: run, cancel, finish, with a callback that raises.
3. `EditBufferPlan` (pure, against a reference definition), with the live-layer branch of the
   sync dialog.
