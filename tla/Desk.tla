-------------------------------- MODULE Desk --------------------------------
(***************************************************************************)
(* One session at the desk: the parts of the plugin that share the GUI     *)
(* thread but little state, one at a time or together as the environment   *)
(* says.  The search dock works on the connections the manager edits; a    *)
(* modal dialog keeps the others away, and a background flow does not.     *)
(***************************************************************************)
EXTENDS CloneWrite, SearchDock, FreezeWatch

Behaviours ==
    { "clone", "algorithm", "edits", "windows", "garbled", "nodownload", "writefails",
      "putbackfails", "baselinefails", "noreopen", "cancelclone", "death",
      "manager", "closebusy", "nodiscovery", "nologin", "norevoke", "nomint", "nomethod",
      "nostore", "stuckentry", "noclear", "dock", "nosearch", "watchdog", "reload" }

ASSUME DeskAssumption ==
    /\ Envs \subseteq SUBSET Behaviours
    /\ {MaxClones, MaxReaders, MaxFlows, MaxManagers, MaxSearch, StallTime, MaxClock,
        MaxFreezes, MaxLoads} \subseteq Nat \ {0}

deskVars == <<env, cloneVars, keyVars, dockVars, watchVars>>

DeskTypeOK ==
    /\ env \in Envs
    /\ CloneTypeOK /\ KeysTypeOK /\ DockTypeOK /\ WatchTypeOK

DeskInit ==
    /\ env \in Envs
    /\ CloneInit /\ KeysInit /\ DockInit /\ WatchInit

ofClone == UNCHANGED <<env, keyVars, dockVars, watchVars>>
ofKeys == UNCHANGED <<env, cloneVars, dockVars, watchVars>>
ofDock == UNCHANGED <<env, cloneVars, keyVars, watchVars>>
ofWatch == UNCHANGED <<env, cloneVars, keyVars, dockVars>>

\* _on_manage_connections: when the manager's exec returns, the dock reads the
\* store again.
ManagerClosed ==
    /\ CloseManager
    /\ IF May("dock") THEN RefreshConnections ELSE UNCHANGED dockVars
    /\ UNCHANGED <<env, cloneVars, watchVars>>

CloneWorks == (\E c \in Clones : CloneStep(c)) /\ ofClone
KeysWork == (\E f \in Flows : KeysStep(f)) /\ ofKeys
DockWorks == DockStep /\ ofDock
WatchWorks == (\E w \in Loads : WatchStep(w)) /\ ofWatch

DeskNext ==
    \/ (CloneUser /\ ofClone) \/ CloneWorks
    \/ ((OpenManager \/ PressButton) /\ ofKeys) \/ ManagerClosed \/ KeysWork
    \/ (DockUser /\ ofDock) \/ DockWorks
    \/ (Gui /\ ofWatch) \/ WatchWorks

\* Tasks and their callbacks are run.  Nothing is assumed of the user, nor of
\* the watchdog.
DeskSpec ==
    /\ DeskInit /\ [][DeskNext]_deskVars
    /\ WF_deskVars(CloneWorks) /\ WF_deskVars(KeysWork) /\ WF_deskVars(DockWorks)

-----------------------------------------------------------------------------
(* Properties: the clone                                                   *)

\* The file at the target is never left half of one copy and half of another by
\* a QGIS that lives on, unless putting the backup back failed too; and a write
\* that failed before its file was in place leaves nothing of itself there.
\* (safe_write_path, _promote.)
KeepsTheCopy ==
    /\ copy.data = Torn =>
          \/ halted \/ May("putbackfails")
          \/ \E c \in Clones : cpc[c] \in {"overwrite", "putback"}
    /\ \A c \in Clones : trouble[c] = "early" => copy.data # c

\* What the last message of the clone dialog says is so.  "Cloned": the file
\* holds this clone and a baseline of it, which a push can be planned from, and
\* a layer of the project reads it, unless QGIS could not open what was written.
\* "Still in your project and unchanged": the layer is in the project, and the
\* file is the one from before, unless the failure came after the file was in
\* place.  A layer that was taken out of the project is always accounted for.
\* (_write_and_load, _restore_removed, _restored_note.)
CloneNoteIsTrue ==
    \A c \in Clones :
        LET latest == \A d \in Clones : d > c => cpc[d] \in {"idle", "download", "fetched"} IN
        cpc[c] = "over" /\ by[c] = "dialog" /\ latest =>
            /\ said[c] = "cloned" => copy.data = c /\ copy.base = c /\ (readers # {} \/ May("noreopen"))
            /\ said[c] = "stillthere" => Min(removed[c]) \in readers
            /\ said[c] = "notwritten" => removed[c] = {}
            /\ trouble[c] = "early" => copy = before[c] \/ copy.data = Torn
            /\ removed[c] # {} => said[c] \in {"cloned", "stillthere", "notreopened"}

\* No layer leaves the project with edits in its buffer: the dialog looks for
\* them before the download and takes the layers out after it.  (_on_clone,
\* _has_unsaved_edits, done.)
UnsavedEditsStay == [][unsaved \subseteq readers']_deskVars

-----------------------------------------------------------------------------
(* Properties: the connection                                              *)

AtRest == unusable = {} /\ \A f \in Flows : ~Out(f)

\* At rest the portal honours no layer key that the profile has forgotten,
\* unless a revoke failed or the answer to a mint was lost: signing in again,
\* out, or deleting the connection each take back the key they supersede.  Two
\* overlapping flows are not so careful.  (sign_in, _revoke_layer_key_then,
\* _apply_layer_key.)
KeyIsRemembered ==
    AtRest /\ ~overlap => live \ lostKeys \subseteq {prof.key}

\* The auth database follows the profile.  Its layer entry holds the profile's
\* key: what the saved layers are authorised with is what signing out would
\* revoke.  And at rest, signed out or deleted, nothing is left that could sign
\* in or draw a private layer.  (_apply_layer_key, _signed_out, teardown.)
VaultFollowsProfile ==
    ~overlap =>
        /\ prof.key # 0 => prof.layer # 0 /\ entries[prof.layer] = prof.key
        /\ AtRest /\ prof.session = 0 =>
              /\ tokens = {} \/ May("noclear")
              /\ \A e \in DOMAIN entries :
                     entries[e] \in {Absent, SignedOutHeader} \/ May("stuckentry")

-----------------------------------------------------------------------------
(* Properties: the dock, the watchdog, and the buttons                     *)

\* The dock lists the results of the newest search or none, whatever order the
\* answers come in.  (_search_seq.)
NewestSearchShown == shown \in {0, seq}

\* A freeze is dumped at most once, and nothing else is: no race of the two
\* threads, and no plugin reloaded meanwhile, makes the watchdog repeat itself.
\* (StallDetector.poll: "One dump per freeze".)
OneDumpPerFreeze == dumps[0] = 0 /\ \A z \in DOMAIN dumps : dumps[z] <= 1

\* Buttons that were disabled for a task come back, or their dialog goes.
DeskComesBack ==
    /\ cbusy ~> (~cbusy \/ cdlg = "none" \/ halted)
    /\ (\E m \in Managers : mbusy[m]) ~> (\A m \in Managers : ~mbusy[m])
    /\ ~searchBtn ~> searchBtn
=============================================================================
