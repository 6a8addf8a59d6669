---------------------------- MODULE PortalLayers ----------------------------
(***************************************************************************)
(* A portal item on the QGIS canvas: the layer sources the Browser tree    *)
(* builds for it, by access, geometry and size, and what the parsers read  *)
(* back out of a source.                                                   *)
(*                                                                         *)
(* Code: gratisgis_qgis/browser/uris.py, browser/items.py and              *)
(* browser/buckets.py.  A source URI is a record of the parts the parsers  *)
(* tell apart; its spelling, the zoom range and the extent seed are left   *)
(* out.                                                                    *)
(***************************************************************************)
EXTENDS Naturals, Sequences, FiniteSets, SequencesExt

CONSTANTS
    Items,    \* item ids
    Urls,     \* tile templates and service roots outside the portals
    None      \* no value

\* What of s is in the set, in order: a SelectSeq that a proof can unfold.
Only(s, keep) ==
    LET upto[n \in 0 .. Len(s)] ==
            IF n = 0 THEN <<>>
            ELSE IF s[n] \in keep THEN Append(upto[n - 1], s[n]) ELSE upto[n - 1]
    IN upto[Len(s)]

-----------------------------------------------------------------------------
(* Items.  A sublayer is [id, spatial, size]; size says where featureCount *)
(* stands: "small", "huge" (over FEATURE_DEFAULT_MAX_COUNT) or "unknown".  *)

BlankItem ==
    [live |-> FALSE, portal |-> None, kind |-> "none", access |-> "private", mine |-> TRUE,
     url |-> None, layers |-> <<>>, doc |-> None]

\* The portal has the item...
Has(store, portal, i) == i \in Items /\ store[i].live /\ store[i].portal = portal

\* ... as it is, or None.
Lookup(store, portal, i) == IF Has(store, portal, i) THEN store[i] ELSE None

\* is_qgis_consumable, by normalized type.
Consumable == {"map", "data_layer", "derived_layer", "tile_layer", "basemap",
               "FeatureServer", "MapServer"}

\* _infer_caller_id: the owner of the private items there are.  The portal
\* lists a private item of another owner only when it was shared.
InferCallerId(listed, store) ==
    LET private == {i \in listed : store[i].access = "private"}
        own     == {i \in private : store[i].mine}
    IN IF private = {} THEN {}
       ELSE {m \in BOOLEAN : IF m THEN 2 * Cardinality(own) >= Cardinality(private)
                                  ELSE 2 * Cardinality(own) <= Cardinality(private)}

\* filter_for_bucket, for a caller taken to be the user (TRUE) or another.
FilterForBucket(listed, store, bucket, me) ==
    {i \in listed :
        CASE bucket = "public" -> store[i].access = "public"
          [] bucket = "org"    -> store[i].access \in {"org", "public"}
          [] bucket = "mine"   -> \E m \in me : store[i].mine = m
          [] bucket = "shared" -> store[i].access = "org" /\ \E m \in me : store[i].mine # m}

Buckets == {"mine", "shared", "org", "public"}

\* What the tree of a signed-in connection shows: BucketItem.createChildren.
InTheTree(store, portal, knowsCaller) ==
    LET listed == {i \in Items : Has(store, portal, i)}
        me == IF knowsCaller THEN {TRUE} ELSE InferCallerId(listed, store)
    IN {i \in UNION {FilterForBucket(listed, store, b, me) : b \in Buckets} :
           store[i].kind \in Consumable}

-----------------------------------------------------------------------------
(* Building sources                                                        *)

Source(shape, portal, item, layer) ==
    [shape |-> shape, portal |-> portal, item |-> item, layer |-> layer, url |-> None]

Outside(shape, url, layer) ==
    [shape |-> shape, portal |-> None, item |-> None, layer |-> layer, url |-> url]

oapif_uri(portal, item, layer) == Source("features", portal, item, layer)
authed_oapif_uri(portal, item, layer) == Source("signed-features", portal, item, layer)
vector_tile_uri(portal, item, layer) == Source("tiles", portal, item, layer)
authed_vector_tile_uri(portal, item, layer) == Source("signed-tiles", portal, item, layer)
tile_layer_xyz_uri(portal, item) == Source("raster", portal, item, None)
tile_layer_cog_uri(portal, item) == Source("file", portal, item, None)

prefers_features(lyr) == ~lyr.spatial \/ lyr.size = "small"

\* _features_uri and _spatial_sublayer_uri: public items stay on the public
\* root, others use the layer key if the connection has one.
FeaturesUri(portal, i, item, layer, keyed) ==
    IF item.access # "public" /\ keyed
    THEN authed_oapif_uri(portal, i, layer)
    ELSE oapif_uri(portal, i, layer)

SpatialSublayerUri(portal, i, item, layer, keyed) ==
    IF item.access # "public" /\ keyed /\ layer # None
    THEN authed_vector_tile_uri(portal, i, layer)
    ELSE vector_tile_uri(portal, i, layer)

\* _DataLayerSublayerItem: the default, and the action that adds the other.
SublayerSources(portal, i, item, lyr, keyed) ==
    {FeaturesUri(portal, i, item, lyr.id, keyed)}
        \cup {SpatialSublayerUri(portal, i, item, lyr.id, keyed) : s \in {lyr.spatial} \ {FALSE}}

\* The alias of an item with no layer list: spatial, its size unknown.
ImplicitLayer == [id |-> None, spatial |-> TRUE, size |-> "unknown"]

\* DataLayerItem.createChildren
DataLayerSources(portal, i, item, keyed) ==
    UNION {SublayerSources(portal, i, item, lyr, keyed) :
              lyr \in IF item.layers = <<>> THEN {ImplicitLayer} ELSE ToSet(item.layers)}

\* TileLayerItem: always the tile route; one that has no file yet is an
\* UnsupportedTileLayerItem, which cannot be dragged.
TileLayerSources(portal, i, item) ==
    {tile_layer_xyz_uri(portal, i) : u \in {item.url} \ {None}}

\* BasemapItem: its template, which only the whole item carries.
BasemapSources(item) == {Outside("xyz", item.url, None) : u \in {item.url} \ {None}}

\* _ServiceSublayerItem: a feature service's layer has an address of its own, a
\* map service is filtered by its root.
ServiceSublayer(item, n) == Outside(item.kind, item.url, n)

\* ServiceItem.createChildren: one child per layer, or one for the service.
ServiceSources(item) ==
    LET named == {lyr.id : lyr \in ToSet(item.layers)} IN
    IF item.url = None THEN {}
    ELSE {ServiceSublayer(item, n) : n \in IF named = {} THEN {None} ELSE named}

\* _routed_item: the sources a user can drag from an item; one of any other
\* kind draws nothing.
RoutedSources(portal, i, item, keyed) ==
    CASE item.kind = "data_layer" -> DataLayerSources(portal, i, item, keyed)
      [] item.kind = "tile_layer" -> TileLayerSources(portal, i, item)
      [] item.kind = "basemap" -> BasemapSources(item)
      [] item.kind \in {"FeatureServer", "MapServer"} -> ServiceSources(item)
      [] OTHER -> {}

-----------------------------------------------------------------------------
(* Reading sources back                                                    *)

\* The provider QGIS reports.
Provider(src) ==
    CASE src.shape \in {"features", "signed-features"} -> "oapif"
      [] src.shape \in {"tiles", "signed-tiles"} -> "vectortile"
      [] src.shape \in {"raster", "xyz"} -> "wms"
      [] src.shape = "FeatureServer" -> "arcgisfeatureserver"
      [] src.shape \in {"MapServer", "MapServer-by-layer"} -> "arcgismapserver"
      [] src.shape \in {"file", "local-raster"} -> "gdal"
      [] src.shape = "local-vector" -> "ogr"
      [] OTHER -> "other"

parse_tile_layer_uri(src) == src.shape \in {"raster", "file"}

\* Only the public root ends the way the parser asks.
parse_oapif_uri(src) == src.shape = "features"

\* (A parser that only knows the public tiles.)
PublicTilesOnly(src) == src.shape = "tiles"

\* Public tiles, or the signed-in route (_parse_authed_tile_template).
parse_vector_tile_uri(src) == src.shape \in {"tiles", "signed-tiles"}

\* parse_portal_layer_source: what clone and publish take for a portal layer.
parse_portal_layer_source(src) == parse_oapif_uri(src) \/ parse_vector_tile_uri(src)

\* feature_twin_uri, for a tile layer on the canvas.
feature_twin_uri(src) ==
    IF ~parse_portal_layer_source(src) THEN None
    ELSE IF src.shape = "signed-tiles"
         THEN authed_oapif_uri(src.portal, src.item, src.layer)
         ELSE oapif_uri(src.portal, src.item, src.layer)

SourceShapes == {"features", "signed-features", "tiles", "signed-tiles", "raster", "file", "xyz",
                 "FeatureServer", "MapServer", "MapServer-by-layer",
                 "local-raster", "local-vector", "other"}
=============================================================================
