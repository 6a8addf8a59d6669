--------------------------- MODULE MapTranslation ---------------------------
(***************************************************************************)
(* A portal map and a stack of QGIS layers, translated both ways: the plan *)
(* for opening a map document, and the document published from a project.  *)
(*                                                                         *)
(* Code: gratisgis_qgis/open_map.py, gratisgis_qgis/publish/               *)
(* project_to_map.py and the index, the snapshot and the item bodies of    *)
(* ui/publish_project_dialog.py.  Style, opacity, visibility, groups and   *)
(* titles are carried along both ways and left out.                        *)
(***************************************************************************)
EXTENDS PortalLayers

-----------------------------------------------------------------------------
(* Map documents.  An entry is [id, kind, item, layer, url].  The camera    *)
(* is in "view" when QGIS wrote the document, in "center" when the reader   *)
(* of open_map.py is to find it.                                            *)

DocEntry(id, kind, item, layer, url) ==
    [id |-> id, kind |-> kind, item |-> item, layer |-> layer, url |-> url]

MapDoc(basemap, entries, view, center) ==
    [basemap |-> basemap, entries |-> entries, view |-> view, center |-> center]

EntryKinds == {"data-layer", "tile", "FeatureServer", "MapServer", "proxied-service", "unsupported"}

\* referenced_item_ids
ReferencedItemIds(doc) ==
    ({doc.basemap} \cup
     {e.item : e \in {x \in ToSet(doc.entries) : x.kind \in {"data-layer", "tile"}}}) \ {None}

-----------------------------------------------------------------------------
(* Opening: plan_map_open.  "referenced" maps the ids to items, or None     *)
(* when the fetch failed.                                                   *)

\* The layer of an item a reference means: the named one, the first when none
\* is named, and the alias when the item has no such layer.
MatchedLayer(item, layer) ==
    LET matches == Only(item.layers, {lyr \in ToSet(item.layers) : layer \in {None, lyr.id}})
    IN IF matches = <<>> THEN ImplicitLayer ELSE matches[1]

\* _data_layer_source
DataLayerSource(i, layer, item, portal, keyed) ==
    LET lyr == MatchedLayer(item, layer)
    IN IF prefers_features(lyr)
       THEN FeaturesUri(portal, i, item, lyr.id, keyed)
       ELSE SpatialSublayerUri(portal, i, item, lyr.id, keyed)

\* _plan_one: the source to build, or None for an entry that is skipped.
PlanOne(e, referenced, portal, keyed) ==
    CASE e.kind = "data-layer" /\ referenced[e.item] # None ->
            DataLayerSource(e.item, e.layer, referenced[e.item], portal, keyed)
      [] e.kind = "tile" /\ referenced[e.item] # None -> tile_layer_xyz_uri(portal, e.item)
      [] e.kind = "FeatureServer" -> Outside("FeatureServer", e.url, e.layer)
      [] e.kind = "MapServer" -> Outside("MapServer-by-layer", e.url, e.layer)
      [] OTHER -> None

\* _plan_basemap
PlanBasemap(doc, referenced) ==
    IF doc.basemap = None \/ referenced[doc.basemap] = None \/ referenced[doc.basemap].url = None
    THEN None
    ELSE Outside("xyz", referenced[doc.basemap].url, None)

\* The plan: [src, entry] of each layer to build, the basemap last.
PlanMapOpen(doc, referenced, portal, keyed) ==
    LET plan(e) == [src |-> PlanOne(e, referenced, portal, keyed), entry |-> e]
        base == [src |-> PlanBasemap(doc, referenced),
                 entry |-> DocEntry(0, "basemap", doc.basemap, None, None)]
        all == Append([k \in DOMAIN doc.entries |-> plan(doc.entries[k])], base)
    IN Only(all, {p \in ToSet(all) : p.src # None})

\* Where the canvas goes: only a top-level centre and zoom are read.
PlannedView(doc) == doc.center

-----------------------------------------------------------------------------
(* Publishing.  A canvas layer is [id, src, origin]; origin is the portal   *)
(* item it is known to stand for (a clone's file, a published layer's       *)
(* stamp), as [item, layer], or None.                                       *)

\* A PortalIndex; "of" is the portal it was fetched from.
NoIndex == [of |-> None, basemaps |-> {}, services |-> {}, tiles |-> {}]

\* _fetch_portal_index, when the details of the rasters in "readable" come.
PortalIndexOf(store, portal, canvasTiles, readable) ==
    LET of(kinds) == {i \in Items : /\ Has(store, portal, i)
                                    /\ store[i].kind \in kinds /\ store[i].url # None}
    IN [of |-> portal,
        basemaps |-> {[url |-> store[i].url, item |-> i] : i \in of({"basemap"})},
        services |-> {[url |-> store[i].url, kind |-> store[i].kind, item |-> i] :
                         i \in of({"FeatureServer", "MapServer"})},
        tiles |-> canvasTiles \cap readable \cap of({"tile_layer"})]

\* _tile_layer_ids_on_canvas
TileLayersOn(canvas) ==
    {l.src.item : l \in {x \in ToSet(canvas) : parse_tile_layer_uri(x.src)}}

\* The portal's listing decides which of several with the same URL is taken.
ItemFor(entries, url) ==
    IF \E x \in entries : x.url = url THEN (CHOOSE x \in entries : x.url = url).item ELSE None

\* _resolve_arcgis: a feature service needs its /N, a map service "show:N".
ResolvesAsService(src) ==
    src.shape \in {"FeatureServer", "MapServer"} /\ src.layer # None

ServiceItem(src, index) ==
    ItemFor({x \in index.services : x.kind = src.shape}, src.url)

\* _resolve_layer, but for basemaps: does the layer stand for something a map
\* can refer to?
Resolves(l, index) ==
    \/ l.origin # None
    \/ parse_tile_layer_uri(l.src) /\ l.src.item \in index.tiles
    \/ parse_portal_layer_source(l.src)
    \/ ResolvesAsService(l.src)

\* The entry translate makes of a layer that resolves.
EntryFor(l, index) ==
    CASE l.origin # None -> DocEntry(l.id, "data-layer", l.origin.item, l.origin.layer, None)
      [] l.origin = None /\ parse_tile_layer_uri(l.src) ->
            DocEntry(l.id, "tile", l.src.item, None, None)
      [] l.origin = None /\ parse_portal_layer_source(l.src) ->
            DocEntry(l.id, "data-layer", l.src.item, l.src.layer, None)
      [] l.origin = None /\ ResolvesAsService(l.src) ->
            DocEntry(l.id, l.src.shape, ServiceItem(l.src, index), l.src.layer, l.src.url)

\* _resolve_wms_basemap
BasemapFor(l, index) ==
    IF l.origin = None /\ l.src.shape = "xyz" THEN ItemFor(index.basemaps, l.src.url) ELSE None

\* translate: the layers that resolve, the first basemap, and the rest.
Included(layers, index) == Only(layers, {l \in ToSet(layers) : Resolves(l, index)})
BasemapsOf(layers, index) == Only(layers, {l \in ToSet(layers) : BasemapFor(l, index) # None})
Skipped(layers, index) ==
    Only(layers, {l \in ToSet(layers) : ~Resolves(l, index) /\ BasemapFor(l, index) = None})

Translate(layers, index, view) ==
    LET kept == Included(layers, index)
        bases == BasemapsOf(layers, index)
    IN MapDoc(IF bases = <<>> THEN None ELSE BasemapFor(bases[1], index),
              [k \in DOMAIN kept |-> EntryFor(kept[k], index)],
              view, None)

\* _build_skipped: what the dialog can do about a skipped layer.  A service is
\* never skipped while its URL parses, so the service hint is never given.
Hint(l) ==
    CASE l.src.shape = "xyz" -> "basemap"
      [] l.src.shape \in {"local-raster", "local-vector"} -> "local"
      [] OTHER -> "none"

\* _create_basemap_item and the map item of _on_publish.
NewBasemap(portal, url) ==
    [BlankItem EXCEPT !.live = TRUE, !.portal = portal, !.kind = "basemap", !.url = url]

NewMap(portal, doc) ==
    [BlankItem EXCEPT !.live = TRUE, !.portal = portal, !.kind = "map", !.doc = doc]
=============================================================================
