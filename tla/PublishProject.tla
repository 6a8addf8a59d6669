--------------------------- MODULE PublishProject ---------------------------
(***************************************************************************)
(* Between the canvas and the portal's maps: adding items from the Browser *)
(* tree, opening a map, and the dialog that publishes the project as one,  *)
(* with its index of the portal, its ticks and its "add to portal" tasks.  *)
(*                                                                         *)
(* Code: gratisgis_qgis/ui/publish_project_dialog.py, open_map.py (the     *)
(* QGIS side) and plugin.py (the Layers panel's twin).  The dialog is      *)
(* modal: the canvas changes behind it only when a map that was being      *)
(* opened lands.  Bound: one dialog.                                       *)
(***************************************************************************)
EXTENDS MapTranslation

CONSTANTS
    Portals,
    Seeds,      \* the stores a behaviour may begin with
    Palette,    \* canvas layers with no portal item behind their source
    Envs,       \* the environments considered, each a set of Behaviours
    MaxCanvas,  \* bound: layers the user puts on the canvas
    MaxUntick   \* bound: layers unticked at once

Behaviours ==
    { "browse", "open", "outside",  \* where canvas layers come from
      "untick",     \* the user unticks layers
      "choose",     \* the user changes the portal
      "add",        \* the user adds what is missing
      "keyless",    \* the connections have no layer key
      "unknown",    \* the profiles do not say who the caller is
      "fail",       \* a request fails
      "lost",       \* a create is done and its answer lost
      "delete",     \* somebody deletes an item
      "removed" }   \* a connection is removed in another window

ASSUME MapsEnvAssumption == Envs \subseteq SUBSET Behaviours
ASSUME NoneAssumption == None \notin Items \cup Portals \cup Urls
ASSUME ItemsAssumption == IsFiniteSet(Items)

IsSequence(s) == s \in Seq(ToSet(s))

\* An item as a portal can have it.
ItemOK(x) ==
    /\ x \in [live : BOOLEAN, portal : Portals \cup {None},
              kind : Consumable \cup {"none", "other"}, access : {x.access}, mine : {x.mine},
              url : {x.url}, layers : {x.layers}, doc : {x.doc}]
    /\ x.live => x.portal # None
    /\ x.kind = "map" => IsSequence(x.doc.entries)
    /\ IsSequence(x.layers)

\* An entry as a map can have it: a layer's and a raster's name an item, and
\* have nothing besides that they have no use for.
EntryOK(e) ==
    /\ e.kind \in {"data-layer", "tile"} => e.item # None /\ e.url = None
    /\ e.kind = "tile" => e.layer = None

DocOK(doc) == \A e \in ToSet(doc.entries) : EntryOK(e)

\* A layer of another make as QGIS can have it: an XYZ layer has its template.
LoneOK(l) == l.src.shape \in SourceShapes /\ (l.src.shape = "xyz" => l.src.url # None)

ASSUME SeedsAssumption ==
    \A s \in Seeds :
        /\ s = [i \in Items |-> s[i]]
        /\ \A i \in Items : ItemOK(s[i]) /\ (s[i].kind = "map" => DocOK(s[i].doc))
ASSUME PaletteAssumption == \A l \in Palette : LoneOK(l)

VARIABLES
    env,
    store,        \* the items of every portal
    connections,  \* the discovered profiles in the store
    canvas,       \* the project's layers, top first
    opening,      \* the open-map task
    dlg,          \* "none", "open", "closed" or "published"
    chosen,       \* the combo's portal
    index,        \* _index
    translation,  \* _translation: [doc, skipped], as rendered
    excluded,     \* _excluded_layer_ids
    busy,         \* _busy
    task,         \* the dialog's task
    \* what the properties look at
    drawn,        \* the canvas when the list was last rendered
    unticked,     \* the layers the user last unticked
    added,        \* <<portal, url>> of the basemaps the dialog was told are made
    sent          \* the publish that was pressed

canvasVars == <<canvas, opening>>
dialogVars == <<dlg, chosen, index, translation, excluded, busy, task, drawn, unticked, added, sent>>
vars == <<env, store, connections, canvasVars, dialogVars>>

May(what) == what \in env
Keyed == ~May("keyless")

NoOpening == [state |-> "none", portal |-> None, item |-> None, plan |-> <<>>]
NoTask == [kind |-> "none", state |-> "none", portal |-> None, arg |-> None, out |-> None]

MapsTypeOK ==
    /\ env \in Envs
    /\ \A i \in Items : store[i].kind \in Consumable \cup {"none", "other"}
    /\ connections \subseteq Portals
    /\ \A l \in ToSet(canvas) : l.id \in 1 .. Len(canvas) /\ l.src.shape \in SourceShapes
    /\ \A k, n \in DOMAIN canvas : canvas[k].id = canvas[n].id => k = n
    /\ opening.state \in {"none", "sent", "planned"}
    /\ dlg \in {"none", "open", "closed", "published"}
    /\ chosen \in Portals \cup {None}
    /\ index.of \in Portals \cup {None}
    /\ excluded \subseteq 1 .. Len(canvas)
    /\ busy \in BOOLEAN
    /\ task.kind \in {"none", "index", "create", "bulk", "publish"}
    /\ task.state \in {"none", "sent", "done", "failed"}
    /\ task.kind = "none" <=> task.state = "none"

Init ==
    /\ env \in Envs
    /\ store \in Seeds
    /\ connections = Portals
    /\ canvas = <<>> /\ opening = NoOpening
    /\ dlg = "none" /\ chosen = None /\ index = NoIndex
    /\ translation = [doc |-> MapDoc(None, <<>>, None, None), skipped |-> <<>>]
    /\ excluded = {} /\ busy = FALSE /\ task = NoTask
    /\ drawn = <<>> /\ unticked = {} /\ added = {} /\ sent = None

-----------------------------------------------------------------------------
(* The canvas.  "from" is where a layer came from: [portal, entry], the     *)
(* reference a map on that portal makes to it; no code reads it.            *)

Layer(id, src, origin, from) == [id |-> id, src |-> src, origin |-> origin, from |-> from]

\* (Ids counted from one again.)
PutOnTopRenumbered(sources) ==
    canvas' = [k \in DOMAIN sources |->
                  Layer(k, sources[k].src, sources[k].origin, sources[k].from)]
              \o canvas

\* New layers go on top, in order.
PutOnTop(sources) ==
    canvas' = [k \in DOMAIN sources |->
                  Layer(Len(canvas) + k, sources[k].src, sources[k].origin, sources[k].from)]
              \o canvas

UserAdds == dlg = "none" /\ Len(canvas) < MaxCanvas

\* The reference to a source in a map on the portal of item i.
Reference(i, src) ==
    CASE store[i].kind = "data_layer" -> DocEntry(0, "data-layer", i, src.layer, None)
      [] store[i].kind = "tile_layer" -> DocEntry(0, "tile", i, None, None)
      [] store[i].kind = "basemap" -> DocEntry(0, "basemap", i, None, None)
      [] OTHER -> DocEntry(0, store[i].kind, i, src.layer, src.url)

\* An item dragged from the tree of a signed-in connection, or one of its leaf
\* actions.
AddFromBrowser(p, i) ==
    /\ May("browse") /\ UserAdds /\ p \in connections
    /\ i \in InTheTree(store, p, ~May("unknown"))
    /\ \E src \in RoutedSources(p, i, store[i], Keyed) :
          PutOnTop(<<[src |-> src, origin |-> None,
                      from |-> [portal |-> p, entry |-> Reference(i, src)]]>>)
    /\ UNCHANGED <<env, store, connections, opening, dialogVars>>

\* _on_add_with_attributes
AddFeatureTwin(l) ==
    /\ May("browse") /\ UserAdds
    /\ Provider(l.src) = "vectortile" /\ feature_twin_uri(l.src) # None
    /\ PutOnTop(<<[src |-> feature_twin_uri(l.src), origin |-> None, from |-> l.from]>>)
    /\ UNCHANGED <<env, store, connections, opening, dialogVars>>

\* A layer from elsewhere, a clone or a layer stamped by an earlier publish.
AddOutside(l) ==
    /\ May("outside") /\ UserAdds
    /\ PutOnTop(<<[src |-> l.src, origin |-> l.origin, from |-> None]>>)
    /\ UNCHANGED <<env, store, connections, opening, dialogVars>>

\* launch_open_map, from MapItem or OpenMapDialog.
LaunchOpenMap(p, i) ==
    /\ May("open") /\ opening = NoOpening /\ p \in connections
    /\ dlg = "none" /\ Len(canvas) < MaxCanvas
    /\ Has(store, p, i) /\ store[i].kind = "map"
    /\ opening' = [NoOpening EXCEPT !.state = "sent", !.portal = p, !.item = i]
    /\ UNCHANGED <<env, store, connections, canvas, dialogVars>>

\* The map and what it refers to are fetched and planned on a worker.
FetchMap ==
    /\ opening.state = "sent"
    /\ \E unread \in IF May("fail") THEN SUBSET Items ELSE {{}} :
          LET p == opening.portal
              full == IF opening.item \in unread THEN None ELSE Lookup(store, p, opening.item)
              doc == IF full = None THEN MapDoc(None, <<>>, None, None) ELSE full.doc
              referenced == [i \in ReferencedItemIds(doc) |->
                                IF i \in unread THEN None ELSE Lookup(store, p, i)]
          IN /\ unread \subseteq {opening.item} \cup ReferencedItemIds(doc)
             /\ opening' = [opening EXCEPT !.state = "planned",
                                           !.plan = PlanMapOpen(doc, referenced, p, Keyed)]
    /\ UNCHANGED <<env, store, connections, canvas, dialogVars>>

\* open_map_in_project, whenever the task's callback runs.
BuildMap ==
    /\ opening.state = "planned"
    /\ PutOnTop([k \in DOMAIN opening.plan |->
                    [src |-> opening.plan[k].src, origin |-> None,
                     from |-> [portal |-> opening.portal, entry |-> opening.plan[k].entry]]])
    /\ opening' = NoOpening
    /\ UNCHANGED <<env, store, connections, dialogVars>>

-----------------------------------------------------------------------------
(* The dialog                                                              *)

View == "the canvas"

\* (The list redrawn with every box ticked again.)
RenderTicked(ix) ==
    /\ translation' = [doc |-> Translate(canvas, ix, View), skipped |-> Skipped(canvas, ix)]
    /\ excluded' = {}
    /\ drawn' = canvas

\* _snapshot_and_render
Render(ix) ==
    /\ translation' = [doc |-> Translate(canvas, ix, View), skipped |-> Skipped(canvas, ix)]
    /\ UNCHANGED excluded
    /\ drawn' = canvas

Start(kind, portal, arg) ==
    /\ busy' = TRUE
    /\ task' = [NoTask EXCEPT !.kind = kind, !.state = "sent", !.portal = portal, !.arg = arg]

\* Fresh ids.  Bound: nothing is made that would want more of them.
FreshItems == {i \in Items : ~store[i].live /\ store[i].portal = None}

Room(n) == Cardinality(FreshItems) >= n

Profile(p) == IF p \in connections THEN p ELSE None

\* _refresh_index
RefreshIndex(p) ==
    IF Profile(p) = None
    THEN /\ index' = NoIndex /\ Render(NoIndex)
         /\ busy' = FALSE /\ task' = NoTask
    ELSE Start("index", p, None) /\ UNCHANGED <<index, translation, excluded, drawn>>

\* __init__: the project is drawn with an empty index, and the index is sought.
OpenDialog(p) ==
    /\ dlg = "none" /\ canvas # <<>>
    /\ dlg' = "open"
    /\ p \in IF connections = {} THEN {None} ELSE connections
    /\ chosen' = p
    /\ index' = NoIndex /\ Render(NoIndex)
    /\ IF p = None THEN UNCHANGED <<busy, task>> ELSE Start("index", p, None)
    /\ UNCHANGED <<env, store, connections, canvasVars, unticked, added, sent>>

\* The combo is disabled while a task runs.
ChoosePortal(p) ==
    /\ May("choose") /\ dlg = "open" /\ ~busy /\ chosen # p
    /\ chosen' = p
    /\ RefreshIndex(p)
    /\ UNCHANGED <<env, store, connections, canvasVars, dlg, unticked, added, sent>>

\* _on_layer_ticked, by a user who does so only while the rows are the
\* canvas's; ticking is possible while a task runs.
Tick(id) ==
    /\ May("untick") /\ dlg = "open"
    /\ id \in excluded \/ Cardinality(excluded) < MaxUntick
    /\ \E e \in ToSet(translation.doc.entries) : e.id = id
    /\ excluded' = IF id \in excluded THEN excluded \ {id} ELSE excluded \cup {id}
    /\ unticked' = IF id \in excluded THEN unticked \ {id} ELSE unticked \cup {id}
    /\ UNCHANGED <<env, store, connections, canvasVars, dlg, chosen, index, translation, busy,
                   task, drawn, added, sent>>

\* _on_skipped_action on a basemap's row.
AddBasemap(l) ==
    /\ May("add") /\ dlg = "open" /\ ~busy /\ Profile(chosen) # None
    /\ l \in ToSet(translation.skipped) /\ Hint(l) = "basemap" /\ Room(1)
    /\ Start("create", chosen, <<l.src.url>>)
    /\ UNCHANGED <<env, store, connections, canvasVars, dlg, chosen, index, translation, excluded,
                   drawn, unticked, added, sent>>

\* _on_bulk_add_missing
BulkAddMissing ==
    /\ May("add") /\ dlg = "open" /\ ~busy /\ Profile(chosen) # None
    /\ LET candidates == Only(translation.skipped,
                              {l \in ToSet(translation.skipped) : Hint(l) = "basemap"})
       IN /\ candidates # <<>> /\ Room(Len(candidates))
          /\ Start("bulk", chosen, [k \in DOMAIN candidates |-> candidates[k].src.url])
    /\ UNCHANGED <<env, store, connections, canvasVars, dlg, chosen, index, translation, excluded,
                   drawn, unticked, added, sent>>

\* _run_publish_vector: a dialog of its own, on a portal of its own choice; of
\* what it published only a raster is stamped.  Then the index is sought again.
PublishLocal(l, p, i) ==
    /\ May("add") /\ dlg = "open" /\ ~busy /\ Profile(chosen) # None /\ p \in connections
    /\ l \in ToSet(translation.skipped) /\ Hint(l) = "local"
    /\ ~store[i].live /\ store[i].portal = None
    /\ \/ UNCHANGED <<store, canvas>>
       \/ LET raster == l.src.shape = "local-raster"
          IN /\ store' = [store EXCEPT ![i] =
                    [BlankItem EXCEPT !.live = TRUE, !.portal = p,
                                      !.kind = IF raster THEN "tile_layer" ELSE "data_layer"]]
             /\ canvas' = [k \in DOMAIN canvas |->
                              IF raster /\ canvas[k].id = l.id
                              THEN [canvas[k] EXCEPT !.origin = [item |-> i, layer |-> None]]
                              ELSE canvas[k]]
    /\ Start("index", chosen, None)
    /\ UNCHANGED <<env, connections, opening, dlg, chosen, index, translation, excluded, drawn,
                   unticked, added, sent>>

\* _publish_translation
PublishTranslation ==
    Translate(Only(canvas, {l \in ToSet(canvas) : l.id \notin excluded}), index, View)

\* _on_publish
PressPublish ==
    /\ dlg = "open" /\ ~busy /\ Profile(chosen) # None /\ Room(1)
    /\ Start("publish", chosen, PublishTranslation)
    /\ sent' = [doc |-> PublishTranslation, on |-> chosen, drawn |-> drawn = canvas,
                shown |-> translation.doc, unticked |-> unticked, index |-> index,
                layers |-> ToSet(canvas)]
    /\ UNCHANGED <<env, store, connections, canvasVars, dlg, chosen, index, translation, excluded,
                   drawn, unticked, added>>

\* reject: at any time.
Close ==
    /\ dlg = "open" /\ dlg' = "closed"
    /\ UNCHANGED <<env, store, connections, canvasVars, chosen, index, translation, excluded, busy,
                   task, drawn, unticked, added, sent>>

-----------------------------------------------------------------------------
(* The dialog's task, on its worker                                        *)

Finish(state, out) == task' = [task EXCEPT !.state = state, !.out = out]

RunFetchIndex ==
    /\ task.kind = "index" /\ task.state = "sent"
    /\ LET tiles == TileLayersOn(canvas)
           index_(readable) == PortalIndexOf(store, task.portal, tiles, readable)
       IN \/ Finish("done", index_(tiles))
          \/ May("fail") /\ Finish("done", index_({}))
          \/ May("fail") /\ Finish("failed", None)
    /\ UNCHANGED store

Create(made) == store' = [i \in Items |-> IF i \in DOMAIN made THEN made[i] ELSE store[i]]

\* One item per row, though two rows have the same URL.  Each row fails on its
\* own, and one whose answer is lost has failed for all the dialog knows; a single
\* add fails as a whole.
RunCreate ==
    /\ task.kind \in {"create", "bulk"} /\ task.state = "sent"
    /\ \E done \in IF May("fail") THEN SUBSET DOMAIN task.arg ELSE {DOMAIN task.arg} :
          /\ LET id == CHOOSE f \in Injection(done, FreshItems) : TRUE
                 row(i) == CHOOSE k \in done : id[k] = i
             IN Create([i \in {id[k] : k \in done} |-> NewBasemap(task.portal, task.arg[row(i)])])
          /\ \E told \in IF May("lost") THEN SUBSET done ELSE {done} :
                IF task.kind = "create" /\ told = {}
                THEN Finish("failed", None)
                ELSE Finish("done", {task.arg[k] : k \in told})

RunPublish ==
    /\ task.kind = "publish" /\ task.state = "sent"
    /\ \/ May("fail") /\ Finish("failed", None) /\ UNCHANGED store
       \/ /\ FreshItems # {}
          /\ LET i == CHOOSE x \in FreshItems : TRUE
             IN Create([x \in {i} |-> NewMap(task.portal, task.arg)])
          /\ \/ Finish("done", None)
             \/ May("lost") /\ Finish("failed", None)

Worker ==
    /\ RunFetchIndex \/ RunCreate \/ RunPublish
    /\ UNCHANGED <<env, connections, canvasVars, dlg, chosen, index, translation, excluded, busy,
                   drawn, unticked, added, sent>>

-----------------------------------------------------------------------------
(* The dialog's callbacks; a closed dialog only drops its task             *)

Landed == task.state \in {"done", "failed"}

CallbackWhenClosed ==
    /\ Landed /\ dlg # "open"
    /\ task' = NoTask
    /\ UNCHANGED <<env, store, connections, canvasVars, dlg, chosen, index, translation, excluded,
                   busy, drawn, unticked, added, sent>>

\* (A failure that leaves the last portal's index in place.)
KeepIndex == IF task.state = "done" THEN task.out ELSE index

\* The index, or an empty one when it could not be fetched.
NewIndex == IF task.state = "done" THEN task.out ELSE NoIndex

\* (The list is drawn anew only when there is something new to show.)
IndexLandedUnrendered ==
    /\ Landed /\ dlg = "open" /\ task.kind = "index"
    /\ index' = NewIndex
    /\ IF task.state = "done" THEN Render(NewIndex) ELSE UNCHANGED <<translation, excluded, drawn>>
    /\ busy' = FALSE /\ task' = NoTask
    /\ UNCHANGED <<env, store, connections, canvasVars, dlg, chosen, unticked, added, sent>>

IndexLanded ==
    /\ Landed /\ dlg = "open" /\ task.kind = "index"
    /\ index' = NewIndex /\ Render(NewIndex)
    /\ busy' = FALSE /\ task' = NoTask
    /\ UNCHANGED <<env, store, connections, canvasVars, dlg, chosen, unticked, added, sent>>

\* (An item was made and the index is left alone.)
StopThere(p) == busy' = FALSE /\ task' = NoTask /\ UNCHANGED <<index, translation, excluded, drawn>>

\* After a create: the index again, so that the new item is found.
ReIndex(p) == RefreshIndex(p)

CreateLanded ==
    /\ Landed /\ dlg = "open" /\ task.kind \in {"create", "bulk"}
    /\ IF task.state = "done"
       THEN ReIndex(chosen) /\ added' = added \cup {<<task.portal, u>> : u \in task.out}
       ELSE busy' = FALSE /\ task' = NoTask /\ UNCHANGED <<index, translation, excluded, drawn, added>>
    /\ UNCHANGED <<env, store, connections, canvasVars, dlg, chosen, unticked, sent>>

\* (A failed publish that leaves the dialog waiting.)
StillBusy == TRUE

NoLongerBusy == FALSE

PublishLanded ==
    /\ Landed /\ dlg = "open" /\ task.kind = "publish"
    /\ busy' = NoLongerBusy /\ task' = NoTask
    /\ IF task.state = "done"
       THEN dlg' = "published" /\ UNCHANGED <<translation, excluded, drawn>>
       ELSE Render(index) /\ UNCHANGED dlg
    /\ UNCHANGED <<env, store, connections, canvasVars, chosen, index, unticked, added, sent>>

Callback == CallbackWhenClosed \/ IndexLanded \/ CreateLanded \/ PublishLanded

-----------------------------------------------------------------------------
(* Others                                                                  *)

\* Bound: one deletion.
DeleteItem(i) ==
    /\ May("delete") /\ store[i].live
    /\ \A x \in Items : store[x].live \/ store[x].portal = None
    /\ store' = [store EXCEPT ![i].live = FALSE]
    /\ UNCHANGED <<env, connections, canvasVars, dialogVars>>

RemoveConnection(p) ==
    /\ May("removed") /\ p \in connections
    /\ connections' = connections \ {p}
    /\ UNCHANGED <<env, store, canvasVars, dialogVars>>

User ==
    \/ \E p \in Portals, i \in Items : AddFromBrowser(p, i) \/ LaunchOpenMap(p, i)
    \/ \E l \in ToSet(canvas) : AddFeatureTwin(l)
    \/ \E l \in Palette : AddOutside(l)
    \/ \E p \in Portals \cup {None} : OpenDialog(p)
    \/ \E p \in Portals : ChoosePortal(p)
    \/ \E k \in DOMAIN canvas : Tick(k)
    \/ \E l \in ToSet(translation.skipped) : AddBasemap(l)
    \/ \E l \in ToSet(translation.skipped), p \in Portals, i \in Items : PublishLocal(l, p, i)
    \/ BulkAddMissing \/ PressPublish \/ Close
    \/ \E i \in Items : DeleteItem(i)
    \/ \E p \in Portals : RemoveConnection(p)

OpenMapStep == FetchMap \/ BuildMap

Next == User \/ OpenMapStep \/ Worker \/ Callback

\* QGIS runs tasks and their callbacks; nothing is assumed of the user.
Spec == Init /\ [][Next]_vars /\ WF_vars(Worker) /\ WF_vars(Callback)

-----------------------------------------------------------------------------
(* Properties                                                              *)

Pressed == sent # None

\* A layer the user unticked is in no map that is published, whatever was
\* refreshed, added or chosen between the untick and the button.
\* (_on_layer_ticked, _publish_translation.)
UntickedStaysOut ==
    Pressed => \A e \in ToSet(sent.doc.entries) : e.id \notin sent.unticked

\* What the list shows is what is published, less what was unticked, as long as
\* no map landed on the canvas after the list was drawn.  (_publish_translation
\* against _snapshot_and_render.)
ShownIsShipped ==
    Pressed /\ sent.drawn =>
        /\ sent.doc.basemap = sent.shown.basemap
        /\ sent.doc.entries =
              Only(sent.shown.entries, {e \in ToSet(sent.shown.entries) : e.id \notin sent.unticked})

\* The items a published map owes to the index are items of the portal it is
\* published on, though the portal was changed and indexes failed before.
BackrefsAreOfThisPortal ==
    Pressed =>
        /\ sent.doc.basemap # None => store[sent.doc.basemap].portal = sent.on
        /\ \A e \in ToSet(sent.doc.entries) :
              e.kind # "data-layer" /\ e.item # None => store[e.item].portal = sent.on

\* What the dialog has added is not offered again: once an index has come back,
\* a row for a basemap it made on this portal is no longer among the skipped.
AddedIsRecognised ==
    dlg = "open" /\ ~busy /\ index.of = chosen /\ chosen # None =>
        \A l \in ToSet(translation.skipped) :
            Hint(l) = "basemap" /\ <<chosen, l.src.url>> \in added =>
                \A i \in Items : store[i].portal = chosen /\ store[i].kind = "basemap"
                                     /\ store[i].url = l.src.url => ~store[i].live

\* The same item; of several at one address the portal's listing decides.
SameItem(e, f) ==
    \/ e.item = f.item
    \/ f.url # None /\ e.item # None /\ store[e.item].url = f.url

\* The same layer of the same item; a reference that named none means the first.
SameReference(e, f) ==
    /\ e.kind = f.kind /\ SameItem(e, f) /\ e.url = f.url
    /\ \/ e.layer = f.layer
       \/ /\ f.kind = "data-layer" /\ f.layer = None
          /\ store[f.item].layers # <<>> /\ e.layer = store[f.item].layers[1].id

\* Layer l goes back to its portal as the reference it came from.
ComesBack(l) ==
    IF l.from.entry.kind = "basemap"
    THEN sent.doc.basemap # None
    ELSE \E e \in ToSet(sent.doc.entries) : e.id = l.id /\ SameReference(e, l.from.entry)

\* The layers of a published map that came from the portal it is published on,
\* whose item the index found where the layer reads it, details and all.
Returning ==
    {l \in sent.layers :
        /\ l.from # None /\ l.from.portal = sent.on /\ sent.index.of = sent.on
        /\ l.id \notin sent.unticked
        /\ l.from.entry.kind = "tile" => l.from.entry.item \in sent.index.tiles
        /\ l.from.entry.kind = "basemap" => \E b \in sent.index.basemaps : b.url = l.src.url
        /\ l.from.entry.kind \in {"FeatureServer", "MapServer"} =>
              /\ l.src.layer # None
              /\ \E s \in sent.index.services :
                    s.item = l.from.entry.item /\ s.kind = l.src.shape /\ s.url = l.src.url}

\* A reference to a sublayer its item does not have.
Dangling(entry) ==
    entry.kind = "data-layer" /\ entry.layer # None /\
        \A lyr \in ToSet(store[entry.item].layers) : lyr.id # entry.layer

\* What comes from the portal goes back as the same reference: tiles signed or
\* public, public features, rasters, feature services, map services from the
\* tree, basemaps.  Not so the signed-in features, the map services of an
\* opened map and the references to a sublayer that is gone.
ReferencesComeBack ==
    Pressed => \A l \in Returning :
        \/ l.src.shape \in {"signed-features", "MapServer-by-layer"}
        \/ Dangling(l.from.entry)
        \/ ComesBack(l)

\* _resolve_layer is the "Inverse of the URI builders": a layer of a private
\* item, opened as true features, goes back too.
SignedFeaturesComeBack ==
    Pressed => \A l \in Returning : l.src.shape = "signed-features" => ComesBack(l)

\* The dialog's buttons come back, or it goes, whatever its task came to.
MapDialogComesBack == busy ~> (~busy \/ dlg # "open")
=============================================================================
