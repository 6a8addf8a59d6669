----------------------------- MODULE SearchDock -----------------------------
(***************************************************************************)
(* The search dock: it lists the connections the store had when the        *)
(* manager was last closed, searches one of them from a task, shows the    *)
(* newest search's results and adds the one that is double-clicked.        *)
(*                                                                         *)
(* Code: gratisgis_qgis/ui/search_dock.py, layer_targets.py, and plugin.py *)
(* (_on_manage_connections).                                               *)
(*                                                                         *)
(* Two connections: ConnectionKeys' own, and another that stays signed in. *)
(***************************************************************************)
EXTENDS ConnectionKeys

CONSTANT MaxSearch     \* bound: searches

VARIABLES
    offered,   \* connections in the combo box
    picked,    \* the one it shows
    seq,       \* _search_seq
    asked,     \* [Searches -> the connection searched, and the answer]
    shown,     \* the search whose results are listed; 0 for none
    searchBtn, \* the Search button is enabled
    opening    \* the double-clicked result: its connection, and the one it goes through

dockVars == <<offered, picked, seq, asked, shown, searchBtn, opening>>

Searches == 1 .. MaxSearch
Mine == "mine"      \* the connection ConnectionKeys is about
Other == "other"    \* a second one, whose name sorts after it

Stored == {Other} \cup {n \in {Mine} : prof.there}
FirstOf(names) == IF Mine \in names THEN Mine ELSE Other

DockTypeOK ==
    /\ offered \subseteq {Mine, Other} /\ picked \in {Mine, Other}
    /\ seq \in 0 .. MaxSearch /\ shown \in 0 .. MaxSearch
    /\ asked \in [Searches -> [of : {Mine, Other}, answer : {"none", "out", "items", "error", "over"}]]
    /\ searchBtn \in BOOLEAN
    /\ opening \in [of : {Mine, Other}, through : {Mine, Other},
                    at : {"none", "resolving", "added"}]

DockInit ==
    /\ offered = {Other} /\ picked = Other
    /\ seq = 0 /\ shown = 0 /\ searchBtn = TRUE
    /\ asked = [s \in Searches |-> [of |-> Other, answer |-> "none"]]
    /\ opening = [of |-> Other, through |-> Other, at |-> "none"]

\* No modal dialog is over the dock.
DockReachable == May("dock") /\ mgr = 0 /\ ~Modal

\* refresh_connections: the combo box is filled again, and so shows its first
\* name whatever it showed before.
RefreshConnections ==
    /\ offered' = Stored /\ picked' = FirstOf(Stored)
    /\ UNCHANGED <<seq, asked, shown, searchBtn, opening>>

PickConnection(n) ==
    /\ DockReachable /\ n \in offered
    /\ picked' = n
    /\ UNCHANGED <<offered, seq, asked, shown, searchBtn, opening>>

\* _on_search: the button, or Return in the query, which is never disabled.  A
\* name that has left the store starts nothing.
Search ==
    /\ DockReachable /\ seq < MaxSearch /\ picked \in Stored
    /\ seq' = seq + 1
    /\ asked' = [asked EXCEPT ![seq + 1] = [of |-> picked, answer |-> "out"]]
    /\ searchBtn' = FALSE /\ shown' = 0
    /\ UNCHANGED <<offered, picked, opening>>

\* list_items, on the worker.
Fetch(s) ==
    /\ asked[s].answer = "out"
    /\ \E a \in {"items"} \cup {x \in {"error"} : May("nosearch")} :
           asked' = [asked EXCEPT ![s].answer = a]
    /\ UNCHANGED <<offered, picked, seq, shown, searchBtn, opening>>

\* (An answer listed whichever search it belongs to.)
AnyAnswerShown(s) ==
    /\ asked[s].answer \in {"items", "error"}
    /\ asked' = [asked EXCEPT ![s].answer = "over"]
    /\ searchBtn' = TRUE
    /\ shown' = IF asked[s].answer = "items" THEN s ELSE shown
    /\ UNCHANGED <<offered, picked, seq, opening>>

\* done and failed: for any search but the newest, nothing.
SearchDone(s) ==
    /\ asked[s].answer \in {"items", "error"}
    /\ asked' = [asked EXCEPT ![s].answer = "over"]
    /\ IF s = seq
       THEN searchBtn' = TRUE /\ shown' = IF asked[s].answer = "items" THEN s ELSE shown
       ELSE UNCHANGED <<searchBtn, shown>>
    /\ UNCHANGED <<offered, picked, seq, opening>>

\* _on_double_click: through the connection the combo box shows now.
DoubleClick ==
    /\ DockReachable /\ shown # 0 /\ picked \in Stored
    /\ opening.at = "none"    \* bound: one result added
    /\ opening' = [of |-> asked[shown].of, through |-> picked, at |-> "resolving"]
    /\ UNCHANGED <<offered, picked, seq, asked, shown, searchBtn>>

\* resolve_layer_target and its callbacks: the layer, or a message; the other
\* portal knows no such item.
Resolved ==
    /\ opening.at = "resolving"
    /\ \/ opening.of = opening.through /\ opening' = [opening EXCEPT !.at = "added"]
       \/ opening' = [of |-> Other, through |-> Other, at |-> "none"]
    /\ UNCHANGED <<offered, picked, seq, asked, shown, searchBtn>>

DockUser == Search \/ DoubleClick \/ \E n \in {Mine, Other} : PickConnection(n)

DockStep == Resolved \/ \E s \in Searches : Fetch(s) \/ SearchDone(s)
=============================================================================
