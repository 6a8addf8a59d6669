------------------------------- MODULE MCMaps -------------------------------
(* PublishProject for TLC: two portals that both know one basemap, one item *)
(* of each kind, a map with an entry of each kind.                          *)
EXTENDS PublishProject

CONSTANTS p1, p2, d1, d2, d3, t1, b1, b2, f1, s1, m1, x1, n1, n2, u1, u2, u3, u4, u5, a, b, c

MCItems == {d1, d2, d3, t1, b1, b2, f1, s1, m1, x1, n1, n2}

Sub(id, spatial, size) == [id |-> id, spatial |-> spatial, size |-> size]

It(portal, kind, access, url, layers) ==
    [BlankItem EXCEPT !.live = TRUE, !.portal = portal, !.kind = kind, !.access = access,
                      !.url = url, !.layers = layers]

MCDoc ==
    MapDoc(b1,
           << DocEntry(1, "data-layer", d1, None, None), DocEntry(2, "data-layer", d1, b, None),
              DocEntry(3, "data-layer", d2, None, None), DocEntry(4, "data-layer", d1, c, None),
              DocEntry(5, "tile", t1, None, None), DocEntry(6, "FeatureServer", f1, a, u2),
              DocEntry(7, "MapServer", s1, a, u3), DocEntry(8, "unsupported", None, None, None) >>,
           None, "where the author was")

MCStore(own) ==
    [i \in MCItems |->
        CASE i = d1 -> It(p1, "data_layer", "private", None, <<Sub(a, TRUE, "small"), Sub(b, TRUE, "huge")>>)
          [] i = d2 -> It(p1, "data_layer", "public", None, <<Sub(a, FALSE, "unknown"), Sub(b, TRUE, "unknown")>>)
          [] i = d3 -> [It(p2, "data_layer", "org", None, <<>>) EXCEPT !.mine = own]
          [] i = t1 -> It(p1, "tile_layer", "org", u4, <<>>)
          [] i = b1 -> It(p1, "basemap", "public", u1, <<>>)
          [] i = b2 -> It(p2, "basemap", "private", u1, <<>>)
          [] i = f1 -> It(p1, "FeatureServer", "org", u2, <<Sub(a, TRUE, "small")>>)
          [] i = s1 -> [It(p1, "MapServer", "private", u3, <<Sub(a, TRUE, "small")>>) EXCEPT !.mine = own]
          [] i = m1 -> [It(p1, "map", "org", None, <<>>) EXCEPT !.doc = MCDoc]
          [] i = x1 -> It(p1, "other", "public", None, <<>>)
          [] OTHER -> BlankItem]

MCSeeds == {MCStore(TRUE), MCStore(FALSE)}

OnCanvas(src, origin) == [src |-> src, origin |-> origin]

\* A raster saved by an old version, a basemap no portal knows, local layers, a
\* clone of an item of the other portal, and a service without its layer.
MCPalette ==
    { OnCanvas(tile_layer_cog_uri(p1, t1), None),
      OnCanvas(Outside("xyz", u5, None), None),
      OnCanvas(Source("local-raster", None, None, None), None),
      OnCanvas(Source("local-vector", None, None, None), None),
      OnCanvas(Source("local-vector", None, None, None), [item |-> d3, layer |-> None]),
      OnCanvas(Outside("FeatureServer", u2, None), None) }

MCEnvs ==
    { {"browse", "fail"},
      {"browse", "keyless", "unknown"},
      {"open", "fail"},
      {"open", "untick"},
      {"outside", "add", "lost", "untick"},
      {"outside", "choose", "removed"},
      {"open", "choose", "lost"},
      {"outside", "add", "fail"},
      {"outside", "choose", "fail"},
      {"open", "delete"} }
=============================================================================
