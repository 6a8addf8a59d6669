--------------------------- MODULE ConnectionKeys ---------------------------
(***************************************************************************)
(* One portal connection in the manager dialog: signing in, which revokes  *)
(* the old layer key and mints one, signing out, deleting and editing.     *)
(* Four places hold a part of the truth: the profile in the settings, the  *)
(* tokens and the layer entry in the QGIS auth database, and the keys the  *)
(* portal honours.                                                         *)
(*                                                                         *)
(* Code: gratisgis_qgis/ui/connection_dialog.py, layer_auth.py,            *)
(* auth_bridge.py, settings.py.                                            *)
(*                                                                         *)
(* Every flow works on the profile it read when it began.  The manager can *)
(* be closed, and opened again, while a discovery or a revocation is out:  *)
(* then two flows overlap.                                                 *)
(***************************************************************************)
EXTENDS Happenings, Naturals

CONSTANTS
    MaxFlows,      \* bound: flows begun
    MaxManagers    \* bound: times the manager is opened

VARIABLES
    prof,       \* the stored profile: there, session, key, layer
    tokens,     \* token entries in the auth database
    entries,    \* [Ids -> what the layer entry of that id holds]
    live,       \* layer keys the portal honours
    lostKeys,   \* those whose revoke failed, or whose mint was never answered
    flow,       \* [Flows -> its kind, its place, its profile]
    minted,     \* [Flows -> the portal's answer to the mint]
    unusable,   \* keys being revoked in the background
    mgr,        \* the manager dialog that is open; 0 for none
    opened,     \* managers opened so far
    mbusy,      \* [1 .. MaxManagers -> its buttons are disabled]
    overlap     \* a flow has begun while another one was out

keyVars == <<prof, tokens, entries, live, lostKeys, flow, minted, unusable, mgr, opened,
             mbusy, overlap>>

Flows == 1 .. MaxFlows
Managers == 1 .. MaxManagers

\* A flow reserves at most one session id, mints at most one key and makes at
\* most one layer entry: all three are named by its number.  0 is the empty id.
Ids == 0 .. MaxFlows
Absent == MaxFlows + 1
SignedOutHeader == MaxFlows + 2

Profile == [there : BOOLEAN, session : Ids, key : Ids, layer : Ids]
NoProfile == [there |-> FALSE, session |-> 0, key |-> 0, layer |-> 0]

FlowPlaces == {"idle", "discover", "login", "cancelled", "revokeold", "mint", "signedin",
               "revoke", "teardown", "rediscover", "over"}

KeysTypeOK ==
    /\ prof \in Profile
    /\ tokens \subseteq Ids \ {0}
    /\ entries \in [Ids \ {0} -> Ids \cup {Absent, SignedOutHeader}]
    /\ live \subseteq Ids \ {0} /\ lostKeys \subseteq Ids \ {0}
    /\ flow \in [Flows -> [kind : {"none", "signin", "new", "signout", "delete", "edit"},
                           at : FlowPlaces, prof : Profile, prior : BOOLEAN,
                           mgr : 0 .. MaxManagers]]
    /\ minted \in [Flows -> BOOLEAN]
    /\ unusable \subseteq Flows
    /\ mgr \in 0 .. MaxManagers /\ opened \in 0 .. MaxManagers
    /\ mbusy \in [Managers -> BOOLEAN]
    /\ overlap \in BOOLEAN

KeysInit ==
    /\ prof = NoProfile
    /\ tokens = {} /\ live = {} /\ lostKeys = {}
    /\ entries = [e \in Ids \ {0} |-> Absent]
    /\ flow = [f \in Flows |-> [kind |-> "none", at |-> "idle", prof |-> NoProfile,
                                prior |-> FALSE, mgr |-> 0]]
    /\ minted = [f \in Flows |-> FALSE] /\ unusable = {}
    /\ mgr = 0 /\ opened = 0 /\ mbusy = [m \in Managers |-> FALSE]
    /\ overlap = FALSE

-----------------------------------------------------------------------------
(* The manager dialog                                                      *)

\* The sign-in's progress window and the edit dialog are modal; a teardown with
\* no key to revoke first is part of the press.
Modal ==
    \E f \in Flows :
        \/ flow[f].at \in {"login", "cancelled", "revokeold", "mint", "signedin", "rediscover"}
        \/ flow[f].kind = "new" /\ flow[f].at = "discover"
        \/ flow[f].at = "teardown" /\ flow[f].prof.key = 0

Out(f) == flow[f].at \notin {"idle", "over"}

OpenManager ==
    /\ May("manager") /\ mgr = 0 /\ opened < MaxManagers
    /\ opened' = opened + 1 /\ mgr' = opened'
    /\ UNCHANGED <<prof, tokens, entries, live, lostKeys, flow, minted, unusable, mbusy, overlap>>

\* Close: there is no reject that waits for the flow, busy or not.
CloseManager ==
    /\ mgr # 0 /\ ~Modal
    /\ mbusy[mgr] => May("closebusy")
    /\ mgr' = 0
    /\ UNCHANGED <<prof, tokens, entries, live, lostKeys, flow, minted, unusable, opened,
                   mbusy, overlap>>

\* _set_busy(True) and what every flow keeps of the moment it began.
BeginFlow(f, kind, place) ==
    /\ mgr # 0 /\ ~Modal /\ ~mbusy[mgr]
    /\ May("dock") => f < MaxFlows     \* bound: one flow fewer beside the dock
    /\ flow[f].kind = "none" /\ \A g \in 1 .. f - 1 : flow[g].kind # "none"
    /\ flow' = [flow EXCEPT ![f] = [kind |-> kind, at |-> place, prof |-> prof,
                                    prior |-> prof.session # 0, mgr |-> mgr]]
    /\ mbusy' = [mbusy EXCEPT ![mgr] = TRUE]
    /\ overlap' = (overlap \/ \E g \in Flows : Out(g))
    /\ UNCHANGED <<prof, tokens, entries, live, lostKeys, minted, unusable, mgr, opened>>

Step(f, place) == flow' = [flow EXCEPT ![f].at = place]

\* What a flow that has ended held is gone.
FlowOver(f) ==
    /\ flow' = [flow EXCEPT ![f] = [kind |-> @.kind, at |-> "over", prof |-> NoProfile,
                                    prior |-> FALSE, mgr |-> 0]]
    /\ mbusy' = [mbusy EXCEPT ![flow[f].mgr] = FALSE]

managerVars == <<mgr, opened, overlap>>

-----------------------------------------------------------------------------
(* The auth database, and the portal's keys                                *)

\* remove_authcfg: best effort.
RemoveEntry(e, rest) ==
    entries' \in IF e = 0 THEN {rest}
                 ELSE {[rest EXCEPT ![e] = Absent]} \cup {r \in {rest} : May("stuckentry")}

\* revoke_layer_key: an empty id is a no-op, and a failure is only logged.
RevokeKey(k) ==
    \/ k = 0 /\ UNCHANGED <<live, lostKeys>>
    \/ k # 0 /\ live' = live \ {k} /\ UNCHANGED lostKeys
    \/ k # 0 /\ May("norevoke") /\ lostKeys' = lostKeys \cup {k} /\ UNCHANGED live

-----------------------------------------------------------------------------
(* Signing in                                                              *)

\* _on_sign_in; _on_new adds a connection the same way, in a dialog that stays.
PressSignIn(f) ==
    \/ prof.there /\ BeginFlow(f, "signin", "discover")
    \/ ~prof.there /\ BeginFlow(f, "new", "discover")

\* (The buttons left to a success that does not come.)
DiscoveryFailsBusy(f) ==
    /\ flow[f].at \in {"discover", "rediscover"} /\ May("nodiscovery")
    /\ Step(f, "over")
    /\ UNCHANGED <<prof, tokens, entries, live, lostKeys, minted, unusable, mbusy, managerVars>>

\* _run_discovery fails: on_failed.
DiscoveryFails(f) ==
    /\ flow[f].at \in {"discover", "rediscover"} /\ May("nodiscovery")
    /\ FlowOver(f)
    /\ UNCHANGED <<prof, tokens, entries, live, lostKeys, minted, unusable, managerVars>>

\* discovered, and _on_discovered for a new connection: the profile that was
\* read at the press is saved with a session id, its own or one reserved now.
Discovered(f) ==
    LET old == flow[f].prof
        new == [old EXCEPT !.there = TRUE, !.session = IF @ = 0 THEN f ELSE @] IN
    /\ flow[f].at = "discover"
    /\ prof' = new
    /\ flow' = [flow EXCEPT ![f].prof = new, ![f].at = "login"]
    /\ UNCHANGED <<tokens, entries, live, lostKeys, minted, unusable, mbusy, managerVars>>

\* login_interactive, on the worker; the user may cancel, or fail it.
LoggedIn(f) ==
    /\ flow[f].at = "login"
    /\ \/ tokens' = tokens \cup {flow[f].prof.session} /\ Step(f, "revokeold")
       \/ May("nologin") /\ Step(f, "cancelled") /\ UNCHANGED tokens
    /\ UNCHANGED <<prof, entries, live, lostKeys, minted, unusable, mbusy, managerVars>>

\* (The previous layer key left to live on.)
KeepOldKey(f) ==
    /\ flow[f].at = "revokeold"
    /\ Step(f, "mint")
    /\ UNCHANGED <<prof, tokens, entries, live, lostKeys, minted, unusable, mbusy, managerVars>>

RevokeOldKey(f) ==
    /\ flow[f].at = "revokeold"
    /\ RevokeKey(flow[f].prof.key)
    /\ Step(f, "mint")
    /\ UNCHANGED <<prof, tokens, entries, minted, unusable, mbusy, managerVars>>

\* mint_layer_key, skipped where QGIS has no API Header method.
Mint(f) ==
    /\ flow[f].at = "mint"
    /\ Step(f, "signedin")
    /\ IF May("nomethod") THEN UNCHANGED <<live, lostKeys, minted>>
       ELSE \/ live' = live \cup {f} /\ minted' = [minted EXCEPT ![f] = TRUE]
               /\ UNCHANGED lostKeys
            \/ May("nomint") /\ UNCHANGED <<live, lostKeys, minted>>
            \/ May("nomint") /\ live' = live \cup {f} /\ lostKeys' = lostKeys \cup {f}
               /\ UNCHANGED minted
    /\ UNCHANGED <<prof, tokens, entries, unusable, mbusy, managerVars>>

\* (The profile goes on naming an entry, and none that there is.)
ClearLayerKeyNamed(p) ==
    /\ prof' = [p EXCEPT !.key = 0, !.layer = Absent]
    /\ RemoveEntry(p.layer, entries)

\* _clear_layer_key
ClearLayerKey(p) ==
    /\ prof' = [p EXCEPT !.key = 0, !.layer = 0]
    /\ RemoveEntry(p.layer, entries)

\* (The key that could not be stored is forgotten and nothing more.)
SignedInKeyDropped(f) ==
    LET p == flow[f].prof IN
    /\ flow[f].at = "signedin"
    /\ \/ /\ ~minted[f] /\ ClearLayerKey(p)
       \/ /\ minted[f]
          /\ LET e == IF p.layer = 0 THEN f ELSE p.layer IN
             /\ entries' = [entries EXCEPT ![e] = f]
             /\ prof' = [p EXCEPT !.key = f, !.layer = e]
       \/ /\ minted[f] /\ May("nostore") /\ ClearLayerKey(p)
    /\ FlowOver(f)
    /\ UNCHANGED <<tokens, live, lostKeys, minted, unusable, managerVars>>

\* _run_pkce_sign_in's done: resolve_sign_in and the save.  A minted key that
\* cannot be stored is revoked in the background.
SignedIn(f) ==
    LET p == flow[f].prof IN
    /\ flow[f].at = "signedin"
    /\ \/ /\ ~minted[f] /\ ClearLayerKey(p) /\ UNCHANGED unusable
       \/ /\ minted[f]
          /\ LET e == IF p.layer = 0 THEN f ELSE p.layer IN
             /\ entries' = [entries EXCEPT ![e] = f]
             /\ prof' = [p EXCEPT !.key = f, !.layer = e]
          /\ UNCHANGED unusable
       \/ /\ minted[f] /\ May("nostore") /\ ClearLayerKey(p)
          /\ unusable' = unusable \cup {f}
    /\ FlowOver(f)
    /\ UNCHANGED <<tokens, live, lostKeys, minted, managerVars>>

\* failed, after plan_sign_in_failure: only an id reserved for this attempt goes.
SignInFailed(f) ==
    /\ flow[f].at = "cancelled"
    /\ prof' = IF flow[f].prior THEN prof ELSE [flow[f].prof EXCEPT !.session = 0]
    /\ FlowOver(f)
    /\ UNCHANGED <<tokens, entries, live, lostKeys, minted, unusable, managerVars>>

\* _revoke_key_in_background
RevokeUnusable(f) ==
    /\ f \in unusable
    /\ unusable' = unusable \ {f}
    /\ RevokeKey(f)
    /\ UNCHANGED <<prof, tokens, entries, flow, minted, mbusy, managerVars>>

-----------------------------------------------------------------------------
(* Signing out, deleting, editing                                          *)

\* _on_sign_out and _on_delete; without a key there is nothing to revoke first.
PressSignOut(f) ==
    /\ prof.there /\ prof.session # 0
    /\ BeginFlow(f, "signout", IF prof.key = 0 THEN "teardown" ELSE "revoke")

PressDelete(f) ==
    /\ prof.there
    /\ BeginFlow(f, "delete", IF prof.key = 0 THEN "teardown" ELSE "revoke")

\* _revoke_layer_key_then
RevokeThen(f) ==
    /\ flow[f].at = "revoke"
    /\ RevokeKey(flow[f].prof.key)
    /\ Step(f, "teardown")
    /\ UNCHANGED <<prof, tokens, entries, minted, unusable, mbusy, managerVars>>

\* (The session ended and the layer entry left as it is.)
SignedOutEntryKept(f) ==
    LET p == flow[f].prof IN
    /\ flow[f].at = "teardown" /\ flow[f].kind = "signout"
    /\ tokens' = tokens \ {p.session}
    /\ prof' = [p EXCEPT !.session = 0, !.key = 0]
    /\ FlowOver(f)
    /\ UNCHANGED <<entries, live, lostKeys, minted, unusable, managerVars>>

\* _on_sign_out's teardown with _signed_out: the entry is emptied and kept, or
\* removed where it cannot be rewritten.
SignedOut(f) ==
    LET p == flow[f].prof IN
    /\ flow[f].at = "teardown" /\ flow[f].kind = "signout"
    /\ tokens' = tokens \ {p.session}
    /\ \/ /\ p.layer # 0 /\ ~May("nomethod")
          /\ entries' = [entries EXCEPT ![p.layer] = SignedOutHeader]
          /\ prof' = [p EXCEPT !.session = 0, !.key = 0]
       \/ /\ p.layer = 0 \/ May("nomethod") \/ May("nostore")
          /\ RemoveEntry(p.layer, entries)
          /\ prof' = [p EXCEPT !.session = 0, !.key = 0, !.layer = 0]
    /\ FlowOver(f)
    /\ UNCHANGED <<live, lostKeys, minted, unusable, managerVars>>

\* Clearing the tokens raises: a warning, and the profile stays as it was.
SignOutFails(f) ==
    /\ flow[f].at = "teardown" /\ flow[f].kind = "signout" /\ May("noclear")
    /\ FlowOver(f)
    /\ UNCHANGED <<prof, tokens, entries, live, lostKeys, minted, unusable, managerVars>>

\* _on_delete's teardown: here a failing clear is only logged.
Deleted(f) ==
    LET p == flow[f].prof IN
    /\ flow[f].at = "teardown" /\ flow[f].kind = "delete"
    /\ tokens' \in {tokens \ {p.session}} \cup {t \in {tokens} : May("noclear")}
    /\ RemoveEntry(p.layer, entries)
    /\ prof' = NoProfile
    /\ FlowOver(f)
    /\ UNCHANGED <<live, lostKeys, minted, unusable, managerVars>>

PressEdit(f) == prof.there /\ BeginFlow(f, "edit", "rediscover")

\* _PortalEditDialog over an existing connection: the profile it was opened
\* with, saved with the new address.
Edited(f) ==
    /\ flow[f].at = "rediscover"
    /\ prof' = flow[f].prof
    /\ FlowOver(f)
    /\ UNCHANGED <<tokens, entries, live, lostKeys, minted, unusable, managerVars>>

-----------------------------------------------------------------------------
KeysStep(f) ==
    \/ DiscoveryFails(f) \/ Discovered(f) \/ LoggedIn(f) \/ RevokeOldKey(f) \/ Mint(f)
    \/ SignedIn(f) \/ SignInFailed(f) \/ RevokeUnusable(f)
    \/ RevokeThen(f) \/ SignedOut(f) \/ SignOutFails(f) \/ Deleted(f) \/ Edited(f)

PressButton ==
    \E f \in Flows : PressSignIn(f) \/ PressSignOut(f) \/ PressDelete(f) \/ PressEdit(f)
=============================================================================
