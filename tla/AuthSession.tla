---------------------------- MODULE AuthSession ----------------------------
(***************************************************************************)
(* Sessions and token refresh: the AuthManager of a connection's client,   *)
(* shared by every thread that talks to the portal, the cache that hands   *)
(* the client out, the token blob in the QGIS auth database, and the       *)
(* connection dialog that signs in and out meanwhile.                      *)
(*                                                                         *)
(* Code: gratisgis_client/auth/manager.py, gratisgis_client/http.py,       *)
(* gratisgis_qgis/portal.py, gratisgis_qgis/auth_bridge.py and the sign-in *)
(* and sign-out of gratisgis_qgis/ui/connection_dialog.py.  Keycloak and   *)
(* the portal are external, modelled from what the code expects of them: a *)
(* refresh rotates the refresh token, and an old one is refused.           *)
(***************************************************************************)
EXTENDS Naturals, FiniteSets

CONSTANTS
    Threads,      \* the threads that send requests: Browser, QgsTasks, GUI
    Nobody,       \* holds no lock
    Envs,         \* the environments considered, each a set of Behaviours
    MaxToken,     \* bound: token sets Keycloak issues
    MaxClient,    \* bound: clients built
    MaxSlot,      \* bound: authcfg ids minted
    MaxRequests   \* bound: requests of each thread

Behaviours ==
    { "revoke",    \* the portal rejects an access token before it expires
      "lapse",     \* a refresh token expires
      "fail",      \* a refresh is refused, unreachable or malformed
      "lost",      \* Keycloak rotates, but its answer never arrives
      "savefail",  \* the auth database cannot be written
      "signin",    \* the user signs in, again or after signing out
      "signout",   \* the user signs out
      "logout",    \* AuthManager.logout, part of the library's interface
      "restart",   \* QGIS is closed, or dies
      "cold" }     \* the first requests come before any token was loaded

\* A token set is the number Keycloak issued it under; 0 stands for None, for
\* no client and for no authcfg.
Tokens == 1 .. MaxToken
Clients == 1 .. MaxClient
Slots == 1 .. MaxSlot

ASSUME ThreadAssumption == IsFiniteSet(Threads) /\ Nobody \notin Threads
ASSUME EnvAssumption == Envs \subseteq SUBSET Behaviours
ASSUME BoundAssumption ==
    /\ MaxToken \in Nat \ {0} /\ MaxClient \in Nat \ {0} /\ MaxSlot \in Nat \ {0}
    /\ MaxRequests \in Nat

VARIABLES
    \* Keycloak and the portal
    minted,      \* token sets issued so far
    session,     \* [Tokens -> the login a token set descends from]
    current,     \* [login -> its token set that may still be refreshed]
    expired,     \* token sets whose access token reads as stale
    lapsed,      \* token sets whose refresh token reads as stale
    revoked,     \* token sets whose access token the portal rejects anyway
    \* on disk: the connection profile and the QGIS auth database
    authcfg,     \* the profile's authcfg id
    lastSlot,    \* authcfg ids minted so far
    stored,      \* [Slots -> token set], the blobs
    \* in memory: portal._clients and each client's AuthManager
    client,      \* the cached client
    lastClient,  \* clients built so far
    slotOf,      \* [Clients -> the authcfg id its storage was built for]
    tokens,      \* [Clients -> self._tokens]
    loaded,      \* [Clients -> self._loaded]
    lock,        \* [Clients -> who holds self._refresh_lock]
    \* the threads
    pc,          \* where the thread's request is
    mgr,         \* the client it got
    forced,      \* it came back with a 401 and forces the refresh
    got,         \* what it last read from storage, memory or Keycloak
    bearer,      \* the access token it sends
    requests,    \* requests begun
    \* the connection dialog's flow
    gui,         \* where it is
    reserved,    \* its authcfg id was minted for this sign-in
    guiMgr,      \* the client the sign-in task got
    guiGot,      \* the tokens it received
    env,         \* what may happen in this behaviour
    \* observers: read by properties only
    rejected,    \* the token the thread's request was rejected with
    rejections,  \* 401s answered so far
    logins,      \* sign-ins completed so far
    exchanged,   \* [Clients -> tokens it exchanged for new ones]
    disturbed    \* clients whose tokens something else than a refresh replaced

issuer == <<minted, session, current>>
clock == <<expired, lapsed, revoked>>
disk == <<authcfg, lastSlot, stored>>
cache == <<client, lastClient, slotOf>>
manager == <<tokens, loaded, lock>>
thread == <<pc, mgr, forced, got, bearer, requests, rejected>>
dialog == <<gui, reserved, guiMgr, guiGot>>
counted == <<rejections, logins, exchanged, disturbed>>
vars == <<issuer, clock, disk, cache, manager, thread, dialog, env, counted>>

-----------------------------------------------------------------------------
Init ==
    /\ minted = 1 /\ session = [n \in Tokens |-> IF n = 1 THEN 1 ELSE 0]
    /\ current = [s \in Tokens |-> IF s = 1 THEN 1 ELSE 0]
    /\ expired = {} /\ lapsed = {} /\ revoked = {}
    /\ authcfg = 1 /\ lastSlot = 1
    /\ stored = [s \in Slots |-> IF s = 1 THEN 1 ELSE 0]
    /\ env \in Envs
    /\ client = 1 /\ lastClient = 1 /\ slotOf = [m \in Clients |-> IF m = 1 THEN 1 ELSE 0]
    /\ loaded = [m \in Clients |-> m = 1 /\ "cold" \notin env]
    /\ tokens = [m \in Clients |-> IF loaded[m] THEN 1 ELSE 0]
    /\ lock = [m \in Clients |-> Nobody]
    /\ pc = [t \in Threads |-> "idle"] /\ mgr = [t \in Threads |-> 1]
    /\ forced = [t \in Threads |-> FALSE] /\ got = [t \in Threads |-> 0]
    /\ bearer = [t \in Threads |-> 0] /\ requests = [t \in Threads |-> 0]
    /\ gui = "idle" /\ reserved = FALSE /\ guiMgr = 1 /\ guiGot = 0
    /\ rejected = [t \in Threads |-> 0] /\ rejections = 0 /\ logins = 1
    /\ exchanged = [m \in Clients |-> {}] /\ disturbed = {}

-----------------------------------------------------------------------------
(* Time passes, and the portal changes its mind.                           *)

\* Token sets have one lifetime: they go stale in the order they were issued.
Expire(n) ==
    /\ n <= minted /\ n \notin expired
    /\ 1 .. n - 1 \subseteq expired
    /\ expired' = expired \cup {n}
    /\ UNCHANGED <<lapsed, revoked>>

Lapse(n) ==
    /\ "lapse" \in env
    /\ n \in expired \ lapsed
    /\ lapsed' = lapsed \cup {n}
    /\ UNCHANGED <<expired, revoked>>

Revoke(n) ==
    /\ "revoke" \in env
    /\ n <= minted /\ n \notin revoked \cup expired
    /\ revoked' = revoked \cup {n}
    /\ UNCHANGED <<expired, lapsed>>

Time ==
    /\ \E n \in Tokens : Expire(n) \/ Lapse(n) \/ Revoke(n)
    /\ UNCHANGED <<issuer, disk, cache, manager, thread, dialog, env, counted>>

-----------------------------------------------------------------------------
(* Getting the client: built once under the cache's lock, then shared.     *)

GetClient(c) ==
    \/ client # 0 /\ c = client /\ UNCHANGED cache
    \/ /\ client = 0 /\ c = lastClient + 1 /\ c \in Clients
       /\ client' = c /\ lastClient' = c
       /\ slotOf' = [slotOf EXCEPT ![c] = authcfg]

Step(t, from, to) == pc[t] = from /\ pc' = [pc EXCEPT ![t] = to]

Got(t, n) == got' = [got EXCEPT ![t] = n]
Sends(t, n) == bearer' = [bearer EXCEPT ![t] = n]

\* A request that ends, with an answer or an error, leaves nothing behind.
Ends(t, from) ==
    /\ Step(t, from, "idle")
    /\ Got(t, 0) /\ Sends(t, 0)
    /\ forced' = [forced EXCEPT ![t] = FALSE]
    /\ rejected' = [rejected EXCEPT ![t] = 0]

\* A request begins only for a profile that counts as signed in.
BeginRequest(t) ==
    /\ authcfg # 0
    /\ requests[t] < MaxRequests
    /\ Step(t, "idle", "load")
    /\ \E c \in Clients : GetClient(c) /\ mgr' = [mgr EXCEPT ![t] = c]
    /\ requests' = [requests EXCEPT ![t] = @ + 1]
    /\ UNCHANGED <<issuer, clock, disk, manager, forced, got, bearer, rejected, dialog, env,
                   counted>>

-----------------------------------------------------------------------------
(* access_token.                                                           *)

Held(t) == tokens[mgr[t]]

\* _load_persisted: the flag is tested, the storage read, and the result
\* assigned, with no lock.
LoadPersisted(t) ==
    /\ IF loaded[mgr[t]]
       THEN Step(t, "load", "check") /\ UNCHANGED got
       ELSE Step(t, "load", "loading") /\ Got(t, stored[slotOf[mgr[t]]])
    /\ UNCHANGED <<issuer, clock, disk, cache, manager, mgr, forced, bearer, requests,
                   rejected, dialog, env, counted>>

Overrides(m, n) == disturbed' = IF tokens[m] \in {0, n} THEN disturbed ELSE disturbed \cup {m}

KeepPersisted(t) ==
    /\ Step(t, "loading", "check")
    /\ tokens' = [tokens EXCEPT ![mgr[t]] = got[t]]
    /\ loaded' = [loaded EXCEPT ![mgr[t]] = TRUE]
    /\ Overrides(mgr[t], got[t])
    /\ Got(t, 0)
    /\ UNCHANGED <<issuer, clock, disk, cache, lock, mgr, forced, bearer, requests, rejected,
                   dialog, env, rejections, logins, exchanged>>

\* Not signed in: AuthError.  Fresh: send it.  Stale: queue for the lock.
CheckToken(t) ==
    /\ \/ Held(t) = 0 /\ Ends(t, "check")
       \/ /\ Held(t) \notin expired \cup {0}
          /\ Step(t, "check", "send") /\ Sends(t, Held(t)) /\ UNCHANGED <<forced, got, rejected>>
       \/ /\ Held(t) \in expired
          /\ Step(t, "check", "wait") /\ UNCHANGED <<forced, got, bearer, rejected>>
    /\ UNCHANGED <<issuer, clock, disk, cache, manager, mgr, requests, dialog, env, counted>>

\* (The lock is not taken.)
AnyTime(m) == TRUE
LockFree(m) == lock[m] = Nobody

Acquire(t) ==
    /\ LockFree(mgr[t])
    /\ Step(t, "wait", "locked")
    /\ lock' = [lock EXCEPT ![mgr[t]] = t]
    /\ UNCHANGED <<issuer, clock, disk, cache, tokens, loaded, mgr, forced, got, bearer,
                   requests, rejected, dialog, env, counted>>

Released(t) == [lock EXCEPT ![mgr[t]] = Nobody]

\* (An error leaves the lock taken.)
KeptOnError(t) == lock
ReleasedOnError(t) == Released(t)

\* (No second look; or one that also spares a forced refresh.)
RefreshAnyway(t) == FALSE
FreshNow(t) == Held(t) \notin expired \cup {0}
RefreshedMeanwhile(t) == ~forced[t] /\ Held(t) \notin expired \cup {0}

\* Under the lock access_token looks again; a forced refresh does not.  Then
\* _refresh_locked wants tokens, and a live refresh token.
Recheck(t) ==
    /\ \/ /\ RefreshedMeanwhile(t)
          /\ Step(t, "locked", "send") /\ Sends(t, Held(t)) /\ UNCHANGED <<forced, got, rejected>>
          /\ lock' = Released(t)
       \/ /\ ~RefreshedMeanwhile(t) /\ Held(t) \in lapsed \cup {0}
          /\ Ends(t, "locked")
          /\ lock' = ReleasedOnError(t)
       \/ /\ ~RefreshedMeanwhile(t) /\ Held(t) \notin lapsed \cup {0}
          /\ Step(t, "locked", "post") /\ UNCHANGED <<forced, got, bearer, rejected, lock>>
    /\ UNCHANGED <<issuer, clock, disk, cache, tokens, loaded, mgr, requests, dialog, env,
                   counted>>

-----------------------------------------------------------------------------
(* The refresh, under the lock.                                            *)

\* The refresh token is read once discovery is done.  (None by then is an
\* AttributeError.)
PostGrant(t) ==
    /\ \/ /\ Held(t) = 0
          /\ Ends(t, "post")
          /\ lock' = ReleasedOnError(t)
       \/ /\ Held(t) # 0
          /\ Step(t, "post", "posted") /\ Got(t, Held(t))
          /\ UNCHANGED <<forced, bearer, rejected, lock>>
    /\ UNCHANGED <<issuer, clock, disk, cache, tokens, loaded, mgr, requests, dialog, env,
                   counted>>

\* Keycloak (external): the grant is good while its token is the session's last.
Good(n) == current[session[n]] = n

Mint(s) ==
    /\ minted < MaxToken
    /\ minted' = minted + 1
    /\ session' = [session EXCEPT ![minted'] = s]
    /\ current' = [current EXCEPT ![s] = minted']

Granted(t) ==
    /\ Step(t, "posted", "assign")
    /\ Good(got[t])
    /\ Mint(session[got[t]])
    /\ Got(t, minted')
    /\ exchanged' = [exchanged EXCEPT ![mgr[t]] = @ \cup {got[t]}]
    /\ UNCHANGED <<clock, disk, cache, manager, mgr, forced, bearer, requests, rejected,
                   dialog, env, rejections, logins, disturbed>>

\* Refused, unreachable, malformed, or granted with the answer lost: AuthError.
\* (The last token set the bound allows is never refreshed.)
NotGranted(t) ==
    /\ pc[t] = "posted"
    /\ \/ /\ ~Good(got[t]) \/ "fail" \in env \/ minted = MaxToken
          /\ UNCHANGED issuer
       \/ "lost" \in env /\ Good(got[t]) /\ Mint(session[got[t]])
    /\ Ends(t, "posted")
    /\ lock' = ReleasedOnError(t)
    /\ UNCHANGED <<clock, disk, cache, tokens, loaded, mgr, requests, dialog, env, counted>>

AssignTokens(t) ==
    /\ Step(t, "assign", "save")
    /\ tokens' = [tokens EXCEPT ![mgr[t]] = got[t]]
    /\ UNCHANGED <<issuer, clock, disk, cache, loaded, lock, mgr, forced, got, bearer,
                   requests, rejected, dialog, env, counted>>

\* (What is written is what was there before.)
WriteNothing(t) == stored
Saved(t) == [stored EXCEPT ![slotOf[mgr[t]]] = got[t]]

\* The blob is written, the lock released and the new token sent.
SaveTokens(t) ==
    /\ \/ Held(t) = 0 /\ Ends(t, "save")
       \/ /\ Held(t) # 0
          /\ Step(t, "save", "send") /\ Sends(t, Held(t)) /\ Got(t, 0)
          /\ UNCHANGED <<forced, rejected>>
    /\ stored' = Saved(t)
    /\ lock' = Released(t)
    /\ disturbed' = IF client \notin {0, mgr[t]} /\ slotOf[client] = slotOf[mgr[t]]
                    THEN disturbed \cup {client} ELSE disturbed
    /\ UNCHANGED <<issuer, clock, authcfg, lastSlot, cache, tokens, loaded, mgr, requests,
                   dialog, env, rejections, logins, exchanged>>

SaveFails(t) ==
    /\ "savefail" \in env
    /\ Ends(t, "save")
    /\ lock' = ReleasedOnError(t)
    /\ disturbed' = disturbed \cup {mgr[t]}
    /\ UNCHANGED <<issuer, clock, disk, cache, tokens, loaded, mgr, requests, dialog, env,
                   rejections, logins, exchanged>>

-----------------------------------------------------------------------------
(* The request itself; a 401 is answered with one forced refresh.          *)

Answered(t) ==
    /\ bearer[t] \notin revoked
    /\ Ends(t, "send")
    /\ UNCHANGED <<issuer, clock, disk, cache, manager, mgr, requests, dialog, env, counted>>

MayRetry(t) == ~forced[t] /\ Held(t) # 0

Unauthorized(t) ==
    /\ bearer[t] \in revoked \cup expired
    /\ \/ /\ MayRetry(t)
          /\ Step(t, "send", "wait") /\ UNCHANGED <<got, bearer>>
          /\ forced' = [forced EXCEPT ![t] = TRUE]
          /\ rejected' = [rejected EXCEPT ![t] = bearer[t]]
       \/ ~MayRetry(t) /\ Ends(t, "send")
    /\ rejections' = rejections + 1
    /\ UNCHANGED <<issuer, clock, disk, cache, manager, mgr, requests, dialog, env, logins,
                   exchanged, disturbed>>

-----------------------------------------------------------------------------
(* The connection dialog.  It is busy, and so does one thing at a time.    *)

\* (Minted although the profile has one.)
MintedId == lastSlot + 1
ReservedId == IF authcfg # 0 THEN authcfg ELSE lastSlot + 1

\* Discovery is done: the profile is saved with its authcfg id, reserved now if
\* there was none, and the cached client dropped.
SignIn ==
    /\ "signin" \in env
    /\ gui = "idle"
    /\ gui' = "starting"
    /\ ReservedId \in Slots
    /\ authcfg' = ReservedId
    /\ reserved' = (authcfg = 0)
    /\ lastSlot' = IF authcfg = 0 THEN lastSlot + 1 ELSE lastSlot
    /\ client' = 0
    /\ UNCHANGED <<issuer, clock, stored, lastClient, slotOf, manager, thread, guiMgr, guiGot,
                   env, counted>>

\* The task gets the client and waits for the browser.
StartLogin ==
    /\ gui = "starting"
    /\ gui' = "browser"
    /\ \E c \in Clients : GetClient(c) /\ guiMgr' = c
    /\ UNCHANGED <<issuer, clock, disk, manager, thread, reserved, guiGot, env, counted>>

GuiIdle == gui' = "idle" /\ reserved' = FALSE /\ guiMgr' = 1 /\ guiGot' = 0

\* Cancelled, timed out or refused: an id reserved for this attempt goes.
LoginFails ==
    /\ gui = "browser"
    /\ GuiIdle
    /\ authcfg' = IF reserved THEN 0 ELSE authcfg
    /\ client' = IF reserved THEN 0 ELSE client
    /\ UNCHANGED <<issuer, clock, lastSlot, stored, lastClient, slotOf, manager, thread,
                   env, counted>>

\* The code is exchanged for the tokens of a new login, and they are assigned ...
LoginAssigns ==
    /\ gui = "browser"
    /\ gui' = "saving"
    /\ Mint(minted + 1)
    /\ guiGot' = minted'
    /\ tokens' = [tokens EXCEPT ![guiMgr] = minted']
    /\ Overrides(guiMgr, minted')
    /\ logins' = logins + 1
    /\ UNCHANGED <<clock, disk, cache, loaded, lock, thread, reserved, guiMgr, env, rejections,
                   exchanged>>

\* ... and then stored, neither under the refresh lock.
LoginSaves ==
    /\ gui = "saving"
    /\ GuiIdle
    /\ stored' = [stored EXCEPT ![slotOf[guiMgr]] = guiGot]
    /\ Overrides(guiMgr, guiGot)
    /\ UNCHANGED <<issuer, clock, authcfg, lastSlot, cache, manager, thread, env, rejections,
                   logins, exchanged>>

\* Storing them fails: the sign-in failed, and the client holds what it assigned.
LoginSaveFails ==
    /\ "savefail" \in env
    /\ gui = "saving"
    /\ GuiIdle
    /\ authcfg' = IF reserved THEN 0 ELSE authcfg
    /\ client' = IF reserved THEN 0 ELSE client
    /\ disturbed' = disturbed \cup {guiMgr}
    /\ UNCHANGED <<issuer, clock, lastSlot, stored, lastClient, slotOf, manager, thread, env,
                   rejections, logins, exchanged>>

\* Signing out drops the cached client first ...
SignOut ==
    /\ "signout" \in env
    /\ gui = "idle"
    /\ authcfg # 0
    /\ gui' = "clearing"
    /\ client' = 0
    /\ UNCHANGED <<issuer, clock, disk, lastClient, slotOf, manager, thread, reserved, guiMgr,
                   guiGot, env, counted>>

\* ... then clears the blob and saves the profile without its authcfg id.
ClearStorage ==
    /\ gui = "clearing"
    /\ GuiIdle
    /\ stored' = [stored EXCEPT ![authcfg] = 0]
    /\ authcfg' = 0
    /\ client' = 0
    /\ UNCHANGED <<issuer, clock, lastSlot, lastClient, slotOf, manager, thread, env, counted>>

-----------------------------------------------------------------------------
\* AuthManager.logout; nothing in the plugin calls it.
Logout ==
    /\ "logout" \in env
    /\ client # 0
    /\ tokens' = [tokens EXCEPT ![client] = 0]
    /\ loaded' = [loaded EXCEPT ![client] = TRUE]
    /\ stored' = [stored EXCEPT ![slotOf[client]] = 0]
    /\ disturbed' = disturbed \cup {client}
    /\ UNCHANGED <<issuer, clock, authcfg, lastSlot, cache, lock, thread, dialog, env,
                   rejections, logins, exchanged>>

\* QGIS ends and starts again: the profile and the auth database are left.
Restart ==
    /\ "restart" \in env
    /\ client # 0
    /\ client' = 0
    /\ GuiIdle
    /\ pc' = [t \in Threads |-> "idle"] /\ forced' = [t \in Threads |-> FALSE]
    /\ got' = [t \in Threads |-> 0] /\ bearer' = [t \in Threads |-> 0]
    /\ rejected' = [t \in Threads |-> 0]
    /\ UNCHANGED <<issuer, clock, disk, lastClient, slotOf, manager, mgr, requests, env,
                   counted>>

-----------------------------------------------------------------------------
Proceed(t) ==
    \/ LoadPersisted(t) \/ KeepPersisted(t) \/ CheckToken(t)
    \/ Acquire(t) \/ Recheck(t) \/ PostGrant(t)
    \/ Granted(t) \/ NotGranted(t) \/ AssignTokens(t) \/ SaveTokens(t) \/ SaveFails(t)
    \/ Answered(t) \/ Unauthorized(t)

Dialog ==
    \/ SignIn \/ StartLogin \/ LoginFails \/ LoginAssigns \/ LoginSaves \/ LoginSaveFails
    \/ SignOut \/ ClearStorage

Next ==
    \/ Time
    \/ \E t \in Threads : BeginRequest(t) \/ Proceed(t)
    \/ Dialog \/ Logout \/ Restart

Spec == Init /\ [][Next]_vars

\* Every request has a timeout and every thread is scheduled; time, the user
\* and the portal owe nobody a step.
FairSpec == Spec /\ \A t \in Threads : WF_vars(Proceed(t))
-----------------------------------------------------------------------------
(* Properties.                                                             *)

TokenTypeOK ==
    /\ minted \in Tokens
    /\ session \in [Tokens -> {0} \cup Tokens] /\ current \in [Tokens -> {0} \cup Tokens]
    /\ expired \subseteq 1 .. minted /\ lapsed \subseteq expired /\ revoked \subseteq 1 .. minted

ClientTypeOK ==
    /\ authcfg \in 0 .. lastSlot /\ lastSlot \in Slots
    /\ stored \in [Slots -> 0 .. minted]
    /\ client \in 0 .. lastClient /\ lastClient \in Clients
    /\ slotOf \in [Clients -> {0} \cup Slots]
    /\ tokens \in [Clients -> 0 .. minted] /\ loaded \in [Clients -> BOOLEAN]
    /\ lock \in [Clients -> Threads \cup {Nobody}]

ThreadTypeOK ==
    /\ pc \in [Threads -> {"idle", "load", "loading", "check", "wait", "locked", "post",
                           "posted", "assign", "save", "send"}]
    /\ mgr \in [Threads -> Clients] /\ forced \in [Threads -> BOOLEAN]
    /\ got \in [Threads -> 0 .. minted] /\ bearer \in [Threads -> 0 .. minted]
    /\ requests \in [Threads -> 0 .. MaxRequests]
    /\ rejected \in [Threads -> 0 .. minted]

DialogTypeOK ==
    /\ gui \in {"idle", "starting", "browser", "saving", "clearing"}
    /\ reserved \in BOOLEAN /\ guiMgr \in Clients /\ guiGot \in 0 .. minted

CountTypeOK ==
    /\ rejections \in Nat /\ logins \in Nat
    /\ exchanged \in [Clients -> SUBSET Tokens] /\ disturbed \subseteq Clients
    /\ env \in Envs

TypeOK == TokenTypeOK /\ ClientTypeOK /\ ThreadTypeOK /\ DialogTypeOK /\ CountTypeOK

\* portal.py: threads that share a client share one refresh instead of racing
\* Keycloak with concurrent grants, which would rotate the token out from under
\* the losers.  No thread presents a refresh token its client has already
\* exchanged.
OneRefresh ==
    \A t \in Threads :
        pc[t] = "posted" => got[t] \notin exchanged[mgr[t]]

\* The same for every client whose tokens only refreshes have replaced: two
\* first loads that race, and a sign-in during a refresh, are what can break it.
SharedRefresh ==
    \A t \in Threads :
        pc[t] = "posted" /\ mgr[t] \notin disturbed => got[t] \notin exchanged[mgr[t]]

\* No thundering herd: whoever loses the race for the lock reuses the winner's
\* refresh, so every token set Keycloak issues is accounted for by a sign-in, by
\* a token that went stale or by a 401.
NoHerd ==
    disturbed = {} => minted <= logins + Cardinality(expired) + rejections

\* _send_authed: the one retry after a 401 carries another token than the one
\* that was rejected.
RetryIsFresh ==
    \A t \in Threads :
        pc[t] = "send" /\ forced[t] /\ mgr[t] \notin disturbed => bearer[t] # rejected[t]

\* The auth database follows the memory of the cached client, so that QGIS can
\* be closed at any time: only a refresh or a sign-in in progress may be ahead.
DiskFollowsMemory ==
    client # 0 /\ client \notin disturbed
    /\ loaded[client] /\ lock[client] = Nobody /\ gui # "saving"
        => stored[slotOf[client]] = tokens[client]

\* _signed_out: once the user has signed out, the tokens are gone.  An authcfg
\* id no profile refers to holds nothing.
SignedOutIsEmpty ==
    \A s \in Slots : s <= lastSlot /\ s # authcfg => stored[s] = 0

\* Every request is answered or fails; in particular no error leaves the refresh
\* lock taken, and no 401 is retried for ever.
RequestEnds == \A t \in Threads : pc[t] # "idle" ~> pc[t] = "idle"
=============================================================================
