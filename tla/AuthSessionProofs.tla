------------------------- MODULE AuthSessionProofs -------------------------
(***************************************************************************)
(* Proofs about AuthSession, for every number of threads and every value   *)
(* of its bounds: type correctness; that threads which share a client      *)
(* never present a refresh token that client has already exchanged; that a *)
(* retry carries a new token; that the auth database follows the memory of *)
(* the cached client; and that no token set is issued but for a reason.    *)
(***************************************************************************)
EXTENDS AuthSession, FiniteSetTheorems, TLAPS

Refreshing == {"locked", "post", "posted", "assign", "save"}

\* What type correctness rests on: a client in use was built for an authcfg id,
\* and a token set that was presented or received exists.
Founded ==
    /\ \A m \in 1 .. lastClient : slotOf[m] # 0
    /\ \A t \in Threads : mgr[t] <= lastClient
    /\ gui = "starting" => authcfg # 0
    /\ \A t \in Threads : pc[t] \in {"posted", "assign"} => got[t] # 0

TypeInv == TypeOK /\ Founded

\* The refresh lock excludes: whoever is past it is its holder.
HoldsLock == \A t \in Threads : pc[t] \in Refreshing => lock[mgr[t]] = t

\* What is posted is what the client holds; what came back is new; and between
\* refreshes the client never holds a token it has exchanged.
PostsHeld ==
    \A t \in Threads :
        pc[t] = "posted" /\ mgr[t] \notin disturbed => got[t] = tokens[mgr[t]]

KeepsUnused ==
    \A t \in Threads :
        /\ pc[t] \in Refreshing \ {"assign"} /\ mgr[t] \notin disturbed
               => tokens[mgr[t]] \notin exchanged[mgr[t]]
        /\ pc[t] = "assign" => got[t] \notin exchanged[mgr[t]]

RestsUnused ==
    \A m \in Clients \ disturbed :
        /\ lock[m] = Nobody => tokens[m] \notin exchanged[m]
        /\ tokens[m] = 0 => exchanged[m] = {}

ExchangedWereIssued == \A m \in Clients : exchanged[m] \subseteq 1 .. minted

RefreshInv ==
    TypeInv /\ HoldsLock /\ PostsHeld /\ KeepsUnused /\ RestsUnused /\ ExchangedWereIssued

-----------------------------------------------------------------------------
LEMMA TypeInit == Init => TypeInv
<1> SUFFICES ASSUME Init PROVE TypeInv
  OBVIOUS
<1>0. 1 \in Tokens /\ 1 \in Clients /\ 1 \in Slots /\ MaxRequests \in Nat
  BY BoundAssumption DEF Tokens, Clients, Slots
<1>1. TokenTypeOK
  BY <1>0 DEF Init, TokenTypeOK
<1>2. ClientTypeOK
  <2>1. loaded \in [Clients -> BOOLEAN]
    BY DEF Init
  <2>2. tokens \in [Clients -> {0, 1}]
    BY <2>1 DEF Init
  <2> QED
    BY <1>0, <2>1, <2>2 DEF Init, ClientTypeOK
<1>3. ThreadTypeOK
  BY <1>0 DEF Init, ThreadTypeOK
<1>4. DialogTypeOK
  <2>1. reserved \in BOOLEAN
    BY DEF Init
  <2>2. gui = "idle" /\ guiMgr \in Clients /\ guiGot \in 0 .. minted
    BY <1>0 DEF Init
  <2> QED
    BY <2>1, <2>2 DEF DialogTypeOK
<1>5. CountTypeOK
  BY DEF Init, CountTypeOK
<1>6. Founded
  BY <1>0 DEF Init, Founded, Clients
<1> QED
  BY <1>1, <1>2, <1>3, <1>4, <1>5, <1>6 DEF TypeInv, TypeOK

LEMMA MintType ==
    ASSUME TokenTypeOK, NEW s, Mint(s), s \in {0} \cup Tokens \cup {minted + 1}
    PROVE  /\ minted' = minted + 1 /\ minted' \in Tokens
           /\ (session \in [Tokens -> {0} \cup Tokens])'
           /\ (current \in [Tokens -> {0} \cup Tokens])'
<1>1. minted \in 1 .. MaxToken /\ minted < MaxToken /\ minted' = minted + 1 /\ MaxToken \in Nat
  BY BoundAssumption DEF Mint, TokenTypeOK, Tokens
<1>2. minted' \in Tokens /\ s \in {0} \cup Tokens
  BY <1>1 DEF Tokens
<1> QED
  BY <1>1, <1>2 DEF Mint, TokenTypeOK

\* The steps that leave Keycloak and the clocks alone.
Quiet == UNCHANGED <<issuer, clock>>

LEMMA TokenTypeStep == TypeInv /\ [Next]_vars => TokenTypeOK' /\ minted \in Nat /\ minted' >= minted
<1> SUFFICES ASSUME TypeInv, [Next]_vars
             PROVE  TokenTypeOK' /\ minted \in Nat /\ minted' >= minted
  OBVIOUS
<1>0. TokenTypeOK /\ minted \in Nat
  BY DEF TypeInv, TypeOK, TokenTypeOK, Tokens
<1>1. ASSUME Quiet PROVE TokenTypeOK' /\ minted' >= minted
  BY <1>0, <1>1 DEF Quiet, issuer, clock, TokenTypeOK
<1>2. ASSUME NEW s \in {0} \cup Tokens \cup {minted + 1}, Mint(s), UNCHANGED clock
      PROVE  TokenTypeOK' /\ minted' >= minted
  <2>1. 1 .. minted \subseteq 1 .. minted'
    BY <1>0, <1>2, MintType
  <2> QED
    BY <1>0, <1>2, <2>1, MintType DEF TokenTypeOK, clock
<1>3. CASE Time
  <2>1. UNCHANGED <<minted, session, current>>
    BY <1>3 DEF Time, issuer
  <2>2. PICK n \in Tokens : Expire(n) \/ Lapse(n) \/ Revoke(n)
    BY <1>3 DEF Time
  <2>3. n <= minted => n \in 1 .. minted
    BY <1>0 DEF Tokens
  <2>4. CASE Expire(n)
    BY <1>0, <2>1, <2>3, <2>4 DEF Expire, TokenTypeOK
  <2>5. CASE Lapse(n)
    BY <1>0, <2>1, <2>5 DEF Lapse, TokenTypeOK
  <2>6. CASE Revoke(n)
    BY <1>0, <2>1, <2>3, <2>6 DEF Revoke, TokenTypeOK
  <2> QED
    BY <1>0, <2>1, <2>2, <2>4, <2>5, <2>6
<1>4. CASE \E t \in Threads : BeginRequest(t)
  BY <1>0, <1>1, <1>4 DEF BeginRequest, Quiet
<1>5. ASSUME NEW t \in Threads, Proceed(t) PROVE TokenTypeOK' /\ minted' >= minted
  <2>1. got[t] \in 0 .. minted /\ (pc[t] = "posted" => got[t] # 0)
    BY DEF TypeInv, TypeOK, ThreadTypeOK, Founded
  <2>2. pc[t] = "posted" => session[got[t]] \in {0} \cup Tokens
    BY <1>0, <2>1, BoundAssumption DEF TokenTypeOK, Tokens
  <2>3. CASE Granted(t)
    BY <1>2, <2>2, <2>3 DEF Granted, Step
  <2>4. CASE NotGranted(t)
    BY <1>1, <1>2, <2>2, <2>4 DEF NotGranted, Quiet
  <2>5. CASE Quiet
    BY <1>1, <2>5
  <2> QED
    BY <1>5, <2>3, <2>4, <2>5
       DEF Proceed, LoadPersisted, KeepPersisted, CheckToken, Acquire, Recheck, PostGrant,
           AssignTokens, SaveTokens, SaveFails, Answered, Unauthorized, Quiet
<1>6. CASE Dialog
  <2>1. CASE LoginAssigns
    BY <1>0, <1>2, <2>1 DEF LoginAssigns
  <2> QED
    BY <1>0, <1>1, <1>6, <2>1 DEF Dialog, SignIn, StartLogin, LoginFails, LoginSaves,
                                  LoginSaveFails, SignOut, ClearStorage, Quiet
<1>7. CASE Logout \/ Restart \/ UNCHANGED vars
  BY <1>0, <1>1, <1>7 DEF Logout, Restart, vars, Quiet
<1> QED
  BY <1>0, <1>3, <1>4, <1>5, <1>6, <1>7 DEF Next

\* Getting a client keeps the cache sound: what was built is well-founded.
LEMMA ClientType ==
    ASSUME ClientTypeOK, Founded, NEW c \in Clients, GetClient(c), authcfg # 0
    PROVE  /\ client' \in 0 .. lastClient' /\ lastClient' \in Clients
           /\ slotOf' \in [Clients -> {0} \cup Slots]
           /\ c <= lastClient' /\ lastClient <= lastClient'
           /\ \A m \in 1 .. lastClient' : slotOf'[m] # 0
<1>1. lastClient \in Nat /\ client \in 0 .. lastClient /\ authcfg \in Nat
  BY BoundAssumption DEF ClientTypeOK, Clients, Slots
<1>2. authcfg \in Slots
  BY <1>1, BoundAssumption DEF ClientTypeOK, Slots
<1>3. CASE client # 0 /\ c = client /\ UNCHANGED cache
  BY <1>1, <1>3 DEF cache, ClientTypeOK, Founded
<1>4. CASE /\ client = 0 /\ c = lastClient + 1
           /\ client' = c /\ lastClient' = c
           /\ slotOf' = [slotOf EXCEPT ![c] = authcfg]
  <2>1. 1 .. c \subseteq Clients
    BY BoundAssumption DEF Clients
  <2>2. slotOf' \in [Clients -> {0} \cup Slots]
    BY <1>2, <1>4 DEF ClientTypeOK
  <2>3. ASSUME NEW m \in 1 .. c PROVE slotOf'[m] # 0
    <3>1. m \in Clients /\ (m = c \/ m \in 1 .. lastClient)
      BY <1>1, <1>4, <2>1
    <3> QED
      BY <1>4, <3>1 DEF ClientTypeOK, Founded
  <2> QED
    BY <1>1, <1>4, <2>2, <2>3
<1> QED
  BY <1>3, <1>4 DEF GetClient

LEMMA FoundedStep ==
    ASSUME TypeInv, [Next]_vars
    PROVE  Founded' /\ (client \in 0 .. lastClient /\ lastClient \in Clients)'
                    /\ (slotOf \in [Clients -> {0} \cup Slots])'
<1>0. ClientTypeOK /\ ThreadTypeOK /\ DialogTypeOK /\ Founded /\ minted \in Nat /\ lastClient \in Nat
  BY BoundAssumption DEF TypeInv, TypeOK, TokenTypeOK, Tokens, ClientTypeOK, Clients
<1> DEFINE Sound == /\ client \in 0 .. lastClient /\ lastClient \in Clients
                    /\ slotOf \in [Clients -> {0} \cup Slots]
                    /\ \A m \in 1 .. lastClient : slotOf[m] # 0
<1>1. Sound
  BY <1>0 DEF ClientTypeOK, Founded
<1>2. ASSUME UNCHANGED cache \/ (client' = 0 /\ UNCHANGED <<lastClient, slotOf>>) PROVE Sound'
  BY <1>0, <1>1, <1>2 DEF cache
<1>3. CASE Time \/ UNCHANGED vars
  BY <1>0, <1>2, <1>3 DEF Time, vars, disk, cache, thread, dialog, Founded
<1>4. ASSUME NEW t \in Threads, BeginRequest(t) PROVE Founded' /\ Sound'
  <2>1. PICK c \in Clients : GetClient(c) /\ mgr' = [mgr EXCEPT ![t] = c]
    BY <1>4 DEF BeginRequest
  <2>2. Sound' /\ c <= lastClient' /\ lastClient <= lastClient' /\ lastClient' \in Nat
    BY <1>0, <1>4, <2>1, ClientType, BoundAssumption DEF BeginRequest, Clients
  <2>3. \A u \in Threads : mgr'[u] <= lastClient'
    BY <1>0, <2>1, <2>2 DEF ThreadTypeOK, Founded, Clients
  <2>4. \A u \in Threads : pc'[u] \in {"posted", "assign"} => got'[u] # 0
    BY <1>0, <1>4 DEF BeginRequest, Step, ThreadTypeOK, Founded
  <2> QED
    BY <1>0, <1>4, <2>2, <2>3, <2>4 DEF BeginRequest, dialog, disk, Founded
<1>5. ASSUME NEW t \in Threads, Proceed(t) PROVE Founded' /\ Sound'
  <2>1. UNCHANGED <<cache, authcfg, gui, mgr>>
    BY <1>5 DEF Proceed, LoadPersisted, KeepPersisted, CheckToken, Acquire, Recheck, PostGrant,
                Granted, NotGranted, AssignTokens, SaveTokens, SaveFails, Answered,
                Unauthorized, disk, dialog
  <2>2. \A u \in Threads : pc'[u] \in {"posted", "assign"} => got'[u] # 0
    <3>1. CASE PostGrant(t)
      BY <1>0, <3>1 DEF PostGrant, Step, Ends, Got, Held, ThreadTypeOK, Founded
    <3>2. CASE Granted(t)
      BY <1>0, <3>2 DEF Granted, Mint, Step, Got, ThreadTypeOK, Founded
    <3>3. CASE ~PostGrant(t) /\ ~Granted(t)
      BY <1>0, <1>5, <3>3
         DEF Proceed, LoadPersisted, KeepPersisted, CheckToken, Acquire, Recheck, NotGranted,
             AssignTokens, SaveTokens, SaveFails, Answered, Unauthorized,
             Step, Ends, Got, Sends, ThreadTypeOK, Founded
    <3> QED
      BY <3>1, <3>2, <3>3
  <2> QED
    BY <1>0, <1>2, <2>1, <2>2 DEF cache, Founded
<1>6. CASE Dialog
  <2>1. UNCHANGED <<mgr, pc, got>>
    BY <1>6 DEF Dialog, SignIn, StartLogin, LoginFails, LoginAssigns, LoginSaves, LoginSaveFails,
                SignOut, ClearStorage, thread
  <2>2. (gui = "starting" => authcfg # 0)'
    BY <1>0, <1>6, BoundAssumption
       DEF Dialog, SignIn, StartLogin, LoginFails, LoginAssigns, LoginSaves, LoginSaveFails,
           SignOut, ClearStorage, GuiIdle, ReservedId, disk, Slots, ClientTypeOK
  <2>3. Sound' /\ lastClient <= lastClient' /\ lastClient' \in Nat
    <3>1. CASE StartLogin
      <4>1. PICK c \in Clients : GetClient(c)
        BY <3>1 DEF StartLogin
      <4> QED
        BY <1>0, <3>1, <4>1, ClientType, BoundAssumption DEF StartLogin, Founded, Clients
    <3>2. CASE ~StartLogin
      <4>1. UNCHANGED cache \/ (client' = 0 /\ UNCHANGED <<lastClient, slotOf>>)
        BY <1>6, <3>2 DEF Dialog, SignIn, LoginFails, LoginAssigns, LoginSaves, LoginSaveFails,
                          SignOut, ClearStorage, cache
      <4> QED
        BY <1>0, <1>2, <4>1 DEF cache
    <3> QED
      BY <3>1, <3>2
  <2>4. \A u \in Threads : mgr'[u] <= lastClient'
    BY <1>0, <2>1, <2>3 DEF ThreadTypeOK, Founded, Clients
  <2> QED
    BY <1>0, <2>1, <2>2, <2>3, <2>4 DEF Founded
<1>7. CASE Logout \/ Restart
  <2>1. Sound'
    BY <1>2, <1>7 DEF Logout, Restart
  <2>2. Founded'
    <3>1. CASE Logout
      BY <1>0, <3>1 DEF Logout, cache, thread, dialog, Founded
    <3>2. CASE Restart
      BY <1>0, <3>2 DEF Restart, GuiIdle, disk, Founded
    <3> QED
      BY <1>7, <3>1, <3>2
  <2> QED
    BY <2>1, <2>2
<1> QED
  BY <1>3, <1>4, <1>5, <1>6, <1>7 DEF Next

\* More tokens are in range after a step than before.
LEMMA ClientTypeStep == TypeInv /\ [Next]_vars => ClientTypeOK'
<1> SUFFICES ASSUME TypeInv, [Next]_vars PROVE ClientTypeOK'
  OBVIOUS
<1>0. TokenTypeOK /\ ClientTypeOK /\ ThreadTypeOK /\ DialogTypeOK /\ Founded
  BY DEF TypeInv, TypeOK
<1>1. 0 .. minted \subseteq 0 .. minted' /\ minted \in Nat /\ minted' \in Nat
  BY TokenTypeStep, BoundAssumption DEF TokenTypeOK, Tokens
<1>2. (client \in 0 .. lastClient /\ lastClient \in Clients /\ slotOf \in [Clients -> {0} \cup Slots])'
  BY FoundedStep
<1> DEFINE Disk == authcfg \in 0 .. lastSlot /\ lastSlot \in Slots /\ stored \in [Slots -> 0 .. minted]
           Memory == /\ tokens \in [Clients -> 0 .. minted] /\ loaded \in [Clients -> BOOLEAN]
                     /\ lock \in [Clients -> Threads \cup {Nobody}]
<1>3. ASSUME UNCHANGED disk PROVE Disk'
  BY <1>0, <1>1, <1>3 DEF disk, ClientTypeOK
<1>4. ASSUME UNCHANGED manager PROVE Memory'
  BY <1>0, <1>1, <1>4 DEF manager, ClientTypeOK
<1>5. ASSUME Time \/ (\E t \in Threads : BeginRequest(t)) \/ Restart \/ UNCHANGED vars
      PROVE  Disk' /\ Memory'
  BY <1>3, <1>4, <1>5 DEF Time, BeginRequest, Restart, vars
<1>6. ASSUME NEW t \in Threads, Proceed(t) PROVE Disk' /\ Memory'
  <2>0. got[t] \in 0 .. minted /\ mgr[t] \in Clients
    BY <1>0 DEF ThreadTypeOK
  <2>1. Disk'
    <3>1. CASE SaveTokens(t)
      BY <1>0, <1>1, <2>0, <3>1 DEF SaveTokens, Saved, ClientTypeOK
    <3>2. CASE UNCHANGED disk
      BY <1>3, <3>2
    <3> QED
      BY <1>6, <3>1, <3>2
         DEF Proceed, LoadPersisted, KeepPersisted, CheckToken, Acquire, Recheck, PostGrant,
             Granted, NotGranted, AssignTokens, SaveFails, Answered, Unauthorized
  <2>2. (tokens \in [Clients -> 0 .. minted])'
    <3>1. CASE KeepPersisted(t) \/ AssignTokens(t)
      BY <1>0, <1>1, <2>0, <3>1 DEF KeepPersisted, AssignTokens, ClientTypeOK
    <3>2. CASE UNCHANGED tokens
      BY <1>0, <1>1, <3>2 DEF ClientTypeOK
    <3> QED
      BY <1>6, <3>1, <3>2
         DEF Proceed, LoadPersisted, CheckToken, Acquire, Recheck, PostGrant, Granted,
             NotGranted, SaveTokens, SaveFails, Answered, Unauthorized, manager
  <2>3. (loaded \in [Clients -> BOOLEAN])'
    <3>1. loaded' = loaded \/ loaded' = [loaded EXCEPT ![mgr[t]] = TRUE]
      BY <1>6 DEF Proceed, LoadPersisted, KeepPersisted, CheckToken, Acquire, Recheck, PostGrant,
                  Granted, NotGranted, AssignTokens, SaveTokens, SaveFails, Answered,
                  Unauthorized, manager
    <3> QED
      BY <1>0, <3>1 DEF ClientTypeOK
  <2>4. (lock \in [Clients -> Threads \cup {Nobody}])'
    <3>1. lock' = lock \/ \E h \in Threads \cup {Nobody} : lock' = [lock EXCEPT ![mgr[t]] = h]
      BY <1>6 DEF Proceed, LoadPersisted, KeepPersisted, CheckToken, Acquire, Recheck, PostGrant,
                  Granted, NotGranted, AssignTokens, SaveTokens, SaveFails, Answered,
                  Unauthorized, manager, Released, ReleasedOnError
    <3> QED
      BY <1>0, <3>1 DEF ClientTypeOK
  <2> QED
    BY <2>1, <2>2, <2>3, <2>4
<1>7. ASSUME Dialog PROVE Disk' /\ Memory'
  <2>1. CASE SignIn
    <3>1. lastSlot \in Nat /\ authcfg \in 0 .. lastSlot
      BY <1>0, BoundAssumption DEF ClientTypeOK, Slots
    <3>2. Disk'
      BY <1>0, <1>1, <2>1, <3>1 DEF SignIn, ReservedId, ClientTypeOK
    <3> QED
      BY <1>4, <2>1, <3>2 DEF SignIn
  <2>2. CASE LoginFails \/ LoginSaveFails
    <3>1. 0 \in 0 .. lastSlot
      BY <1>0, BoundAssumption DEF ClientTypeOK, Slots
    <3>2. Disk'
      BY <1>0, <1>1, <2>2, <3>1 DEF LoginFails, LoginSaveFails, ClientTypeOK
    <3> QED
      BY <1>4, <2>2, <3>2 DEF LoginFails, LoginSaveFails
  <2>3. CASE LoginAssigns
    <3>1. (tokens \in [Clients -> 0 .. minted])'
      BY <1>0, <1>1, <2>3 DEF LoginAssigns, ClientTypeOK, DialogTypeOK
    <3> QED
      BY <1>0, <1>3, <2>3, <3>1 DEF LoginAssigns, ClientTypeOK
  <2>4. CASE LoginSaves
    <3>1. Disk'
      BY <1>0, <1>1, <2>4 DEF LoginSaves, ClientTypeOK, DialogTypeOK
    <3> QED
      BY <1>4, <2>4, <3>1 DEF LoginSaves
  <2>5. CASE ClearStorage
    <3>1. 0 \in 0 .. lastSlot /\ 0 \in 0 .. minted'
      BY <1>0, <1>1, BoundAssumption DEF ClientTypeOK, Slots
    <3>2. Disk'
      BY <1>0, <1>1, <2>5, <3>1 DEF ClearStorage, ClientTypeOK
    <3> QED
      BY <1>4, <2>5, <3>2 DEF ClearStorage
  <2>6. CASE StartLogin \/ SignOut
    BY <1>3, <1>4, <2>6 DEF StartLogin, SignOut
  <2> QED
    BY <1>7, <2>1, <2>2, <2>3, <2>4, <2>5, <2>6 DEF Dialog
<1>8. ASSUME Logout PROVE Disk' /\ Memory'
  <2>1. 0 \in 0 .. minted'
    BY <1>1
  <2>2. Disk'
    BY <1>0, <1>1, <1>8, <2>1 DEF Logout, ClientTypeOK
  <2>3. (tokens \in [Clients -> 0 .. minted])'
    BY <1>0, <1>1, <1>8, <2>1 DEF Logout, ClientTypeOK
  <2>4. (loaded \in [Clients -> BOOLEAN])' /\ lock' = lock
    BY <1>0, <1>8 DEF Logout, ClientTypeOK
  <2> QED
    BY <1>0, <2>2, <2>3, <2>4 DEF ClientTypeOK
<1>9. Disk' /\ Memory'
  BY <1>5, <1>6, <1>7, <1>8 DEF Next
<1> QED
  BY <1>2, <1>9 DEF ClientTypeOK

LEMMA ThreadTypeStep == TypeInv /\ [Next]_vars => ThreadTypeOK'
<1> SUFFICES ASSUME TypeInv, [Next]_vars PROVE ThreadTypeOK'
  OBVIOUS
<1>0. TokenTypeOK /\ ClientTypeOK /\ ThreadTypeOK /\ Founded
  BY DEF TypeInv, TypeOK
<1>1. /\ 0 .. minted \subseteq 0 .. minted' /\ minted \in Nat /\ minted' \in Nat
      /\ 0 \in 0 .. minted' /\ minted' \in 0 .. minted'
  BY TokenTypeStep, BoundAssumption DEF TokenTypeOK, Tokens
<1>2. ASSUME UNCHANGED thread PROVE ThreadTypeOK'
  BY <1>0, <1>1, <1>2 DEF thread, ThreadTypeOK
<1>3. ASSUME NEW t \in Threads, BeginRequest(t) PROVE ThreadTypeOK'
  <2>1. (pc \in [Threads -> {"idle", "load", "loading", "check", "wait", "locked", "post",
                             "posted", "assign", "save", "send"}])'
    BY <1>0, <1>3 DEF BeginRequest, Step, ThreadTypeOK
  <2>2. (mgr \in [Threads -> Clients] /\ requests \in [Threads -> 0 .. MaxRequests])'
    BY <1>0, <1>3, BoundAssumption DEF BeginRequest, ThreadTypeOK
  <2> QED
    BY <1>0, <1>1, <1>3, <2>1, <2>2 DEF BeginRequest, ThreadTypeOK
<1>4. ASSUME NEW t \in Threads, Proceed(t) PROVE ThreadTypeOK'
  <2>0. /\ got[t] \in 0 .. minted /\ bearer[t] \in 0 .. minted /\ Held(t) \in 0 .. minted
        /\ stored[slotOf[mgr[t]]] \in 0 .. minted
    <3>1. mgr[t] \in Clients /\ mgr[t] \in 1 .. lastClient
      BY <1>0, BoundAssumption DEF ThreadTypeOK, ClientTypeOK, Founded, Clients
    <3>2. slotOf[mgr[t]] \in Slots
      BY <1>0, <3>1 DEF ClientTypeOK, Founded
    <3> QED
      BY <1>0, <3>1, <3>2 DEF ClientTypeOK, ThreadTypeOK, Held
  <2>1. (pc \in [Threads -> {"idle", "load", "loading", "check", "wait", "locked", "post",
                             "posted", "assign", "save", "send"}])'
    BY <1>0, <1>4
       DEF Proceed, LoadPersisted, KeepPersisted, CheckToken, Acquire, Recheck, PostGrant,
           Granted, NotGranted, AssignTokens, SaveTokens, SaveFails, Answered, Unauthorized,
           Step, Ends, ThreadTypeOK
  <2>2. \E n \in 0 .. minted' : got' = got \/ got' = [got EXCEPT ![t] = n]
    BY <1>1, <1>4, <2>0
       DEF Proceed, LoadPersisted, KeepPersisted, CheckToken, Acquire, Recheck, PostGrant,
           Granted, NotGranted, AssignTokens, SaveTokens, SaveFails, Answered, Unauthorized,
           Ends, Got
  <2>3. \E n \in 0 .. minted' : bearer' = bearer \/ bearer' = [bearer EXCEPT ![t] = n]
    BY <1>1, <1>4, <2>0
       DEF Proceed, LoadPersisted, KeepPersisted, CheckToken, Acquire, Recheck, PostGrant,
           Granted, NotGranted, AssignTokens, SaveTokens, SaveFails, Answered, Unauthorized,
           Ends, Sends
  <2>4. \E n \in 0 .. minted' : rejected' = rejected \/ rejected' = [rejected EXCEPT ![t] = n]
    BY <1>1, <1>4, <2>0
       DEF Proceed, LoadPersisted, KeepPersisted, CheckToken, Acquire, Recheck, PostGrant,
           Granted, NotGranted, AssignTokens, SaveTokens, SaveFails, Answered, Unauthorized,
           Ends
  <2>5. \/ forced' = forced
        \/ forced' = [forced EXCEPT ![t] = TRUE]
        \/ forced' = [forced EXCEPT ![t] = FALSE]
    BY <1>4
       DEF Proceed, LoadPersisted, KeepPersisted, CheckToken, Acquire, Recheck, PostGrant,
           Granted, NotGranted, AssignTokens, SaveTokens, SaveFails, Answered, Unauthorized,
           Ends
  <2>6. UNCHANGED <<mgr, requests>>
    BY <1>4
       DEF Proceed, LoadPersisted, KeepPersisted, CheckToken, Acquire, Recheck, PostGrant,
           Granted, NotGranted, AssignTokens, SaveTokens, SaveFails, Answered, Unauthorized
  <2>7. (got \in [Threads -> 0 .. minted])'
    BY <1>0, <1>1, <2>2 DEF ThreadTypeOK
  <2>8. (bearer \in [Threads -> 0 .. minted])'
    BY <1>0, <1>1, <2>3 DEF ThreadTypeOK
  <2>9. (rejected \in [Threads -> 0 .. minted])'
    BY <1>0, <1>1, <2>4 DEF ThreadTypeOK
  <2>10. (forced \in [Threads -> BOOLEAN])'
    BY <1>0, <2>5 DEF ThreadTypeOK
  <2> QED
    BY <1>0, <2>1, <2>6, <2>7, <2>8, <2>9, <2>10 DEF ThreadTypeOK
<1>5. CASE Restart
  BY <1>0, <1>1, <1>5 DEF Restart, ThreadTypeOK
<1>6. CASE Time \/ Dialog \/ Logout \/ UNCHANGED vars
  BY <1>2, <1>6 DEF Time, Dialog, SignIn, StartLogin, LoginFails, LoginAssigns, LoginSaves,
                    LoginSaveFails, SignOut, ClearStorage, Logout, vars
<1> QED
  BY <1>3, <1>4, <1>5, <1>6 DEF Next

LEMMA DialogTypeStep == TypeInv /\ [Next]_vars => DialogTypeOK'
<1> SUFFICES ASSUME TypeInv, [Next]_vars PROVE DialogTypeOK'
  OBVIOUS
<1>0. DialogTypeOK
  BY DEF TypeInv, TypeOK
<1>1. /\ 0 .. minted \subseteq 0 .. minted' /\ minted \in Nat /\ minted' \in Nat
      /\ 0 \in 0 .. minted' /\ minted' \in 0 .. minted' /\ 1 \in Clients
  BY TokenTypeStep, BoundAssumption DEF TypeInv, TypeOK, TokenTypeOK, Tokens, Clients
<1>2. CASE UNCHANGED dialog
  BY <1>0, <1>1, <1>2 DEF dialog, DialogTypeOK
<1>3. CASE GuiIdle
  BY <1>1, <1>3 DEF GuiIdle, DialogTypeOK
<1>4. CASE SignIn
  <2>1. reserved' \in BOOLEAN
    BY <1>4 DEF SignIn
  <2> QED
    BY <1>0, <1>1, <1>4, <2>1 DEF SignIn, issuer, DialogTypeOK
<1>5. CASE StartLogin \/ SignOut
  BY <1>0, <1>1, <1>5 DEF StartLogin, SignOut, issuer, DialogTypeOK
<1>6. CASE LoginAssigns
  BY <1>0, <1>1, <1>6 DEF LoginAssigns, DialogTypeOK
<1> QED
  BY <1>2, <1>3, <1>4, <1>5, <1>6
     DEF Next, Time, BeginRequest, Proceed, LoadPersisted, KeepPersisted, CheckToken, Acquire,
         Recheck, PostGrant, Granted, NotGranted, AssignTokens, SaveTokens, SaveFails, Answered,
         Unauthorized, Dialog, LoginFails, LoginSaves, LoginSaveFails, ClearStorage, Logout,
         Restart, vars

LEMMA CountTypeStep == TypeInv /\ [Next]_vars => CountTypeOK'
<1> SUFFICES ASSUME TypeInv, [Next]_vars PROVE CountTypeOK'
  OBVIOUS
<1>0. TokenTypeOK /\ ClientTypeOK /\ ThreadTypeOK /\ DialogTypeOK /\ CountTypeOK /\ Founded
  BY DEF TypeInv, TypeOK
<1>1. CASE UNCHANGED <<counted, env>>
  BY <1>0, <1>1 DEF counted, CountTypeOK
<1>2. ASSUME NEW t \in Threads, Proceed(t) PROVE CountTypeOK'
  <2>0. mgr[t] \in Clients /\ got[t] \in 0 .. minted
    BY <1>0 DEF ThreadTypeOK
  <2>1. (exchanged \in [Clients -> SUBSET Tokens])'
    <3>1. CASE Granted(t)
      <4>1. got[t] \in Tokens
        BY <1>0, <2>0, <3>1, BoundAssumption DEF Granted, Step, Founded, TokenTypeOK, Tokens
      <4> QED
        BY <1>0, <2>0, <3>1, <4>1 DEF Granted, CountTypeOK
    <3>2. CASE UNCHANGED exchanged
      BY <1>0, <3>2 DEF CountTypeOK
    <3> QED
      BY <1>2, <3>1, <3>2
         DEF Proceed, LoadPersisted, KeepPersisted, CheckToken, Acquire, Recheck, PostGrant,
             NotGranted, AssignTokens, SaveTokens, SaveFails, Answered, Unauthorized, counted
  <2>2. (disturbed \subseteq Clients)'
    <3>1. CASE SaveTokens(t)
      <4>1. client # 0 => client \in Clients
        BY <1>0, BoundAssumption DEF ClientTypeOK, Clients
      <4> QED
        BY <1>0, <3>1, <4>1 DEF SaveTokens, CountTypeOK
    <3>2. CASE SaveFails(t) \/ KeepPersisted(t)
      BY <1>0, <2>0, <3>2 DEF SaveFails, KeepPersisted, Overrides, CountTypeOK
    <3>3. CASE UNCHANGED disturbed
      BY <1>0, <3>3 DEF CountTypeOK
    <3> QED
      BY <1>2, <3>1, <3>2, <3>3
         DEF Proceed, LoadPersisted, CheckToken, Acquire, Recheck, PostGrant, Granted,
             NotGranted, AssignTokens, Answered, Unauthorized, counted
  <2>3. rejections' \in Nat /\ logins' \in Nat /\ env' = env
    BY <1>0, <1>2
       DEF Proceed, LoadPersisted, KeepPersisted, CheckToken, Acquire, Recheck, PostGrant,
           Granted, NotGranted, AssignTokens, SaveTokens, SaveFails, Answered, Unauthorized,
           counted, CountTypeOK
  <2> QED
    BY <1>0, <2>1, <2>2, <2>3 DEF CountTypeOK
<1>3. CASE LoginAssigns \/ LoginSaves \/ LoginSaveFails
  BY <1>0, <1>3 DEF LoginAssigns, LoginSaves, LoginSaveFails, Overrides, CountTypeOK, DialogTypeOK
<1>4. CASE Logout
  BY <1>0, <1>4, BoundAssumption DEF Logout, CountTypeOK, ClientTypeOK, Clients
<1> QED
  BY <1>1, <1>2, <1>3, <1>4
     DEF Next, Time, BeginRequest, Dialog, SignIn, StartLogin, LoginFails, SignOut,
         ClearStorage, Restart, vars

LEMMA TypeStep == TypeInv /\ [Next]_vars => TypeInv'
BY TokenTypeStep, ClientTypeStep, ThreadTypeStep, DialogTypeStep, CountTypeStep, FoundedStep
   DEF TypeInv, TypeOK

\* Type correctness, for every number of threads, clients and token sets, and
\* every environment.
THEOREM AuthTypeCorrect == Spec => []TypeOK
<1>1. TypeInv => TypeOK
  BY DEF TypeInv
<1> QED
  BY <1>1, TypeInit, TypeStep, PTL DEF Spec

-----------------------------------------------------------------------------
(* One refresh at a time, and never with a token already exchanged.        *)

LEMMA RefreshInit == Init => RefreshInv
<1> SUFFICES ASSUME Init PROVE RefreshInv
  OBVIOUS
<1>1. HoldsLock /\ PostsHeld /\ KeepsUnused
  BY DEF Init, HoldsLock, PostsHeld, KeepsUnused, Refreshing
<1>2. RestsUnused /\ ExchangedWereIssued
  BY DEF Init, RestsUnused, ExchangedWereIssued
<1> QED
  BY <1>1, <1>2, TypeInit DEF RefreshInv

\* Every step that can take or give back a lock, by the thread that does.
LEMMA LockStep == TypeInv /\ HoldsLock /\ [Next]_vars => HoldsLock'
<1> SUFFICES ASSUME TypeInv, HoldsLock, [Next]_vars PROVE HoldsLock'
  OBVIOUS
<1>0. ClientTypeOK /\ ThreadTypeOK
  BY DEF TypeInv, TypeOK
<1>1. CASE UNCHANGED <<pc, mgr, lock>>
  BY <1>1 DEF HoldsLock
<1>2. ASSUME NEW t \in Threads, BeginRequest(t) PROVE HoldsLock'
  BY <1>0, <1>2 DEF BeginRequest, Step, manager, HoldsLock, Refreshing, ThreadTypeOK
<1>3. ASSUME NEW t \in Threads, Proceed(t) PROVE HoldsLock'
  <2>0. /\ mgr' = mgr /\ mgr[t] \in Clients
        /\ \A u \in Threads \ {t} : pc'[u] = pc[u]
    BY <1>0, <1>3
       DEF Proceed, LoadPersisted, KeepPersisted, CheckToken, Acquire, Recheck, PostGrant,
           Granted, NotGranted, AssignTokens, SaveTokens, SaveFails, Answered, Unauthorized,
           Step, Ends, ThreadTypeOK
  <2>1. CASE UNCHANGED lock /\ (pc[t] \in Refreshing \/ pc'[t] \notin Refreshing)
    BY <2>0, <2>1 DEF HoldsLock
  <2>2. CASE LockFree(mgr[t]) /\ lock' = [lock EXCEPT ![mgr[t]] = t]
    <3>1. ASSUME NEW u \in Threads, pc'[u] \in Refreshing PROVE lock'[mgr[u]] = u
      BY <1>0, <2>0, <2>2, <3>1, ThreadAssumption
         DEF HoldsLock, LockFree, ClientTypeOK, ThreadTypeOK
    <3> QED
      BY <2>0, <3>1 DEF HoldsLock
  <2>3. CASE lock' = Released(t) /\ pc[t] \in Refreshing /\ pc'[t] \notin Refreshing
    <3>1. ASSUME NEW u \in Threads, pc'[u] \in Refreshing PROVE lock'[mgr[u]] = u
      BY <1>0, <2>0, <2>3, <3>1 DEF HoldsLock, Released, ClientTypeOK, ThreadTypeOK
    <3> QED
      BY <2>0, <3>1 DEF HoldsLock
  <2> QED
    BY <1>0, <1>3, <2>1, <2>2, <2>3
       DEF Proceed, LoadPersisted, KeepPersisted, CheckToken, Acquire, Recheck, PostGrant,
           Granted, NotGranted, AssignTokens, SaveTokens, SaveFails, Answered, Unauthorized,
           Step, Ends, manager, ReleasedOnError, Refreshing, ThreadTypeOK
<1>4. CASE Restart
  BY <1>4 DEF Restart, HoldsLock, Refreshing
<1> QED
  BY <1>1, <1>2, <1>3, <1>4
     DEF Next, Time, Dialog, SignIn, StartLogin, LoginFails, LoginAssigns, LoginSaves,
         LoginSaveFails, SignOut, ClearStorage, Logout, vars, manager, thread

Unused == PostsHeld /\ KeepsUnused /\ RestsUnused

\* A step that moves no token and no lock leaves a client's tokens unused.
LEMMA StillUnused ==
    ASSUME RefreshInv, disturbed \subseteq disturbed',
           UNCHANGED <<tokens, exchanged, lock, got, mgr, pc>>
    PROVE  Unused'
BY DEF RefreshInv, Unused, PostsHeld, KeepsUnused, RestsUnused

\* A step of one thread outside the refresh, or one that brings it no further
\* than the lock lets it.
LEMMA ThreadUnused ==
    ASSUME RefreshInv, NEW t \in Threads, Proceed(t) PROVE Unused'
<1>0. /\ ClientTypeOK /\ ThreadTypeOK /\ CountTypeOK /\ Founded
      /\ HoldsLock /\ PostsHeld /\ KeepsUnused /\ RestsUnused
      /\ mgr[t] \in Clients /\ minted \in Nat
  BY DEF RefreshInv, TypeInv, TypeOK, ThreadTypeOK, TokenTypeOK, Tokens
<1>1. /\ mgr' = mgr
      /\ \A u \in Threads \ {t} : pc'[u] = pc[u] /\ got'[u] = got[u]
  BY <1>0
     DEF Proceed, LoadPersisted, KeepPersisted, CheckToken, Acquire, Recheck, PostGrant,
         Granted, NotGranted, AssignTokens, SaveTokens, SaveFails, Answered, Unauthorized,
         Step, Ends, Got, ThreadTypeOK
<1>2. \A u \in Threads \ {t} : pc[u] \in Refreshing /\ mgr[u] = mgr[t] => pc[t] \notin Refreshing
  BY <1>0 DEF HoldsLock
<1>3. CASE LoadPersisted(t) \/ CheckToken(t) \/ Answered(t) \/ Unauthorized(t)
  <2>1. UNCHANGED <<tokens, lock, exchanged, disturbed>> /\ pc'[t] \notin Refreshing
    BY <1>0, <1>3
       DEF LoadPersisted, CheckToken, Answered, Unauthorized, Step, Ends, manager, counted,
           Refreshing, ThreadTypeOK
  <2> QED
    BY <1>0, <1>1, <2>1 DEF Unused, PostsHeld, KeepsUnused, RestsUnused, Refreshing
<1>4. CASE KeepPersisted(t)
  <2>1. /\ UNCHANGED <<lock, exchanged>> /\ pc'[t] \notin Refreshing
        /\ tokens' = [tokens EXCEPT ![mgr[t]] = got[t]]
        /\ disturbed \subseteq disturbed'
        /\ mgr[t] \notin disturbed' => tokens[mgr[t]] \in {0, got[t]}
    BY <1>0, <1>4 DEF KeepPersisted, Step, Overrides, Refreshing, ThreadTypeOK, CountTypeOK
  <2>2. \A m \in Clients \ {mgr[t]} : tokens'[m] = tokens[m]
    BY <1>0, <2>1 DEF ClientTypeOK
  <2>3. ASSUME mgr[t] \notin disturbed'
        PROVE  tokens[mgr[t]] = tokens'[mgr[t]] \/ (tokens[mgr[t]] = 0 /\ exchanged[mgr[t]] = {})
    BY <1>0, <2>1, <2>3 DEF ClientTypeOK, RestsUnused
  <2>4. PostsHeld'
    BY <1>0, <1>1, <2>1, <2>2, <2>3 DEF PostsHeld, Founded, ThreadTypeOK, Refreshing
  <2>5. KeepsUnused'
    BY <1>0, <1>1, <2>1, <2>2, <2>3 DEF KeepsUnused, ThreadTypeOK, Refreshing
  <2>6. RestsUnused'
    BY <1>0, <1>1, <2>1, <2>2, <2>3 DEF RestsUnused
  <2> QED
    BY <2>4, <2>5, <2>6 DEF Unused
<1>5. CASE Acquire(t)
  <2>1. /\ UNCHANGED <<tokens, exchanged, disturbed>> /\ pc'[t] = "locked"
        /\ lock[mgr[t]] = Nobody /\ lock' = [lock EXCEPT ![mgr[t]] = t]
    BY <1>0, <1>5 DEF Acquire, LockFree, Step, counted, ThreadTypeOK
  <2> QED
    BY <1>0, <1>1, <2>1 DEF Unused, PostsHeld, KeepsUnused, RestsUnused, Refreshing, ClientTypeOK,
                            ThreadTypeOK
<1>6. CASE Recheck(t) \/ NotGranted(t)
  <2>1. /\ UNCHANGED <<tokens, exchanged, disturbed>>
        /\ pc[t] \in {"locked", "posted"} /\ pc'[t] \in {"post", "send", "idle"}
        /\ lock' = lock \/ lock' = Released(t)
    BY <1>0, <1>6 DEF Recheck, NotGranted, ReleasedOnError, Step, Ends, counted, ThreadTypeOK
  <2> QED
    BY <1>0, <1>1, <2>1 DEF Unused, PostsHeld, KeepsUnused, RestsUnused, Refreshing, Released,
                            ClientTypeOK, ThreadTypeOK
<1>7. CASE PostGrant(t)
  <2>1. /\ UNCHANGED <<tokens, exchanged, disturbed>> /\ pc[t] = "post"
        /\ \/ pc'[t] = "idle" /\ lock' = Released(t)
           \/ pc'[t] = "posted" /\ lock' = lock /\ got'[t] = tokens[mgr[t]]
    BY <1>0, <1>7 DEF PostGrant, ReleasedOnError, Step, Ends, Got, Held, counted, ThreadTypeOK
  <2> QED
    BY <1>0, <1>1, <2>1 DEF Unused, PostsHeld, KeepsUnused, RestsUnused, Refreshing, Released,
                            ClientTypeOK, ThreadTypeOK
<1>8. CASE Granted(t)
  <2>1. /\ UNCHANGED <<tokens, lock, disturbed>> /\ pc[t] = "posted" /\ pc'[t] = "assign"
        /\ got'[t] = minted + 1
        /\ exchanged' = [exchanged EXCEPT ![mgr[t]] = @ \cup {got[t]}]
    BY <1>0, <1>8 DEF Granted, Mint, Step, Got, manager, ThreadTypeOK
  <2>2. lock[mgr[t]] = t /\ got[t] \in 1 .. minted
    BY <1>0, <2>1 DEF HoldsLock, Refreshing, Founded, ThreadTypeOK
  <2>3. got'[t] \notin exchanged'[mgr[t]]
    BY <1>0, <2>1, <2>2 DEF RefreshInv, ExchangedWereIssued, CountTypeOK
  <2>4. \A m \in Clients \ {mgr[t]} : exchanged'[m] = exchanged[m]
    BY <1>0, <2>1 DEF CountTypeOK
  <2>5. PostsHeld'
    BY <1>0, <1>1, <2>1 DEF PostsHeld
  <2>6. KeepsUnused'
    BY <1>0, <1>1, <1>2, <2>1, <2>3, <2>4 DEF KeepsUnused, Refreshing, ThreadTypeOK
  <2>7. mgr[t] \notin disturbed => tokens[mgr[t]] # 0
    BY <1>0, <2>1, <2>2 DEF PostsHeld
  <2>8. RestsUnused'
    BY <1>0, <2>1, <2>2, <2>4, <2>7, ThreadAssumption DEF RestsUnused
  <2> QED
    BY <2>5, <2>6, <2>8 DEF Unused
<1>9. CASE AssignTokens(t)
  <2>1. /\ UNCHANGED <<lock, exchanged, disturbed, got>>
        /\ pc[t] = "assign" /\ pc'[t] = "save"
        /\ tokens' = [tokens EXCEPT ![mgr[t]] = got[t]]
    BY <1>0, <1>9 DEF AssignTokens, Step, counted, ThreadTypeOK
  <2>2. tokens'[mgr[t]] = got[t] /\ got[t] # 0 /\ got[t] \notin exchanged[mgr[t]]
    BY <1>0, <2>1 DEF KeepsUnused, Founded, ClientTypeOK
  <2>3. \A m \in Clients \ {mgr[t]} : tokens'[m] = tokens[m]
    BY <1>0, <2>1 DEF ClientTypeOK
  <2>4. PostsHeld'
    BY <1>0, <1>1, <1>2, <2>1, <2>3 DEF PostsHeld, Refreshing, ThreadTypeOK
  <2>5. KeepsUnused'
    BY <1>0, <1>1, <2>1, <2>2, <2>3 DEF KeepsUnused, Refreshing, ThreadTypeOK
  <2>6. RestsUnused'
    BY <1>0, <2>1, <2>2, <2>3 DEF RestsUnused
  <2> QED
    BY <2>4, <2>5, <2>6 DEF Unused
<1>10. CASE SaveTokens(t) \/ SaveFails(t)
  <2>1. /\ UNCHANGED <<tokens, exchanged>> /\ lock' = Released(t)
        /\ pc[t] = "save" /\ pc'[t] \in {"send", "idle"}
        /\ disturbed \subseteq disturbed'
    BY <1>0, <1>10 DEF SaveTokens, SaveFails, ReleasedOnError, Step, Ends, manager, ThreadTypeOK
  <2> QED
    BY <1>0, <1>1, <2>1 DEF Unused, PostsHeld, KeepsUnused, RestsUnused, Refreshing, Released,
                            ClientTypeOK, ThreadTypeOK
<1> QED
  BY <1>3, <1>4, <1>5, <1>6, <1>7, <1>8, <1>9, <1>10 DEF Proceed

LEMMA UnusedStep == RefreshInv /\ [Next]_vars => Unused'
<1> SUFFICES ASSUME RefreshInv, [Next]_vars PROVE Unused'
  OBVIOUS
<1>0. /\ ClientTypeOK /\ ThreadTypeOK /\ DialogTypeOK /\ CountTypeOK /\ Founded
      /\ PostsHeld /\ KeepsUnused /\ RestsUnused /\ ExchangedWereIssued
  BY DEF RefreshInv, TypeInv, TypeOK
<1>1. ASSUME NEW t \in Threads, BeginRequest(t) PROVE Unused'
  <2>1. /\ UNCHANGED <<tokens, exchanged, lock, got, disturbed>>
        /\ pc'[t] = "load"
        /\ \A u \in Threads \ {t} : pc'[u] = pc[u] /\ mgr'[u] = mgr[u]
    BY <1>0, <1>1 DEF BeginRequest, Step, manager, counted, ThreadTypeOK
  <2> QED
    BY <1>0, <2>1 DEF Unused, PostsHeld, KeepsUnused, RestsUnused, Refreshing
<1>2. ASSUME NEW t \in Threads, Proceed(t) PROVE Unused'
  BY <1>2, ThreadUnused
<1>3. CASE \/ Time \/ SignIn \/ StartLogin \/ LoginFails \/ LoginSaves \/ LoginSaveFails
           \/ SignOut \/ ClearStorage \/ UNCHANGED vars
  BY <1>3, StillUnused
     DEF Time, SignIn, StartLogin, LoginFails, LoginSaves, LoginSaveFails, Overrides, SignOut,
         ClearStorage, vars, manager, thread, counted
<1>4. CASE LoginAssigns
  <2>1. /\ UNCHANGED <<lock, exchanged, got, mgr, pc>>
        /\ tokens' = [tokens EXCEPT ![guiMgr] = minted'] /\ minted' = minted + 1
        /\ disturbed \subseteq disturbed'
        /\ guiMgr \notin disturbed' => tokens[guiMgr] \in {0, minted'}
    BY <1>4 DEF LoginAssigns, Mint, Overrides, thread
  <2>2. minted \in Nat /\ tokens[guiMgr] \in 0 .. minted /\ guiMgr \in Clients
    BY <1>0 DEF RefreshInv, TypeInv, TypeOK, TokenTypeOK, Tokens, ClientTypeOK, DialogTypeOK
  <2>3. guiMgr \notin disturbed' => tokens[guiMgr] = 0 /\ exchanged[guiMgr] = {}
    BY <1>0, <2>1, <2>2 DEF RestsUnused
  <2>4. \A m \in Clients \ {guiMgr} : tokens'[m] = tokens[m]
    BY <1>0, <2>1 DEF ClientTypeOK
  <2>5. PostsHeld'
    BY <1>0, <2>1, <2>3, <2>4 DEF PostsHeld, Founded, ThreadTypeOK
  <2>6. KeepsUnused'
    BY <1>0, <2>1, <2>3, <2>4 DEF KeepsUnused, ThreadTypeOK
  <2>7. RestsUnused'
    BY <1>0, <2>1, <2>3, <2>4 DEF RestsUnused
  <2> QED
    BY <2>5, <2>6, <2>7 DEF Unused
<1>5. CASE Logout
  <2>1. /\ UNCHANGED <<lock, exchanged, got, mgr, pc>>
        /\ tokens' = [tokens EXCEPT ![client] = 0]
        /\ disturbed' = disturbed \cup {client}
    BY <1>5 DEF Logout, thread
  <2>2. \A m \in Clients \ {client} : tokens'[m] = tokens[m]
    BY <1>0, <2>1 DEF ClientTypeOK
  <2> QED
    BY <1>0, <2>1, <2>2 DEF Unused, PostsHeld, KeepsUnused, RestsUnused, ThreadTypeOK
<1>6. CASE Restart
  <2>1. UNCHANGED <<tokens, exchanged, lock, disturbed>> /\ \A u \in Threads : pc'[u] = "idle"
    BY <1>6 DEF Restart, manager, counted
  <2> QED
    BY <1>0, <2>1 DEF Unused, PostsHeld, KeepsUnused, RestsUnused, Refreshing
<1> QED
  BY <1>1, <1>2, <1>3, <1>4, <1>5, <1>6 DEF Next, Dialog

LEMMA IssuedStep == RefreshInv /\ [Next]_vars => ExchangedWereIssued'
<1> SUFFICES ASSUME RefreshInv, [Next]_vars PROVE ExchangedWereIssued'
  OBVIOUS
<1>0. TypeInv /\ ThreadTypeOK /\ CountTypeOK /\ Founded /\ ExchangedWereIssued
  BY DEF RefreshInv, TypeInv, TypeOK
<1>1. 1 .. minted \subseteq 1 .. minted' /\ minted \in Nat
  BY <1>0, TokenTypeStep, BoundAssumption DEF TokenTypeOK, Tokens
<1>2. ASSUME NEW t \in Threads, Granted(t) PROVE ExchangedWereIssued'
  <2>1. got[t] \in 1 .. minted /\ exchanged' = [exchanged EXCEPT ![mgr[t]] = @ \cup {got[t]}]
    BY <1>0, <1>1, <1>2 DEF Granted, Step, Founded, ThreadTypeOK
  <2> QED
    BY <1>0, <1>1, <2>1 DEF ExchangedWereIssued, CountTypeOK
<1>3. CASE UNCHANGED exchanged
  BY <1>0, <1>1, <1>3 DEF ExchangedWereIssued
<1> QED
  BY <1>2, <1>3
     DEF Next, Time, BeginRequest, Proceed, LoadPersisted, KeepPersisted, CheckToken, Acquire,
         Recheck, PostGrant, NotGranted, AssignTokens, SaveTokens, SaveFails, Answered,
         Unauthorized, Dialog, SignIn, StartLogin, LoginFails, LoginAssigns, LoginSaves,
         LoginSaveFails, SignOut, ClearStorage, Logout, Restart, vars, counted

LEMMA RefreshStep == RefreshInv /\ [Next]_vars => RefreshInv'
BY TypeStep, LockStep, UnusedStep, IssuedStep DEF RefreshInv, Unused

\* Threads that share a client share its refresh: whatever the number of threads
\* and the order of their steps, none presents a refresh token the client has
\* already exchanged, as long as only refreshes have replaced the client's tokens.
THEOREM SharedRefreshHolds == Spec => []SharedRefresh
<1>1. RefreshInv => SharedRefresh
  BY DEF RefreshInv, PostsHeld, KeepsUnused, SharedRefresh, Refreshing
<1> QED
  BY <1>1, RefreshInit, RefreshStep, PTL DEF Spec
-----------------------------------------------------------------------------
(* What a retry carries.                                                   *)

\* What is being saved is what the client holds, until the lock is given back.
SaveInv ==
    \A t \in Threads :
        pc[t] = "save" /\ mgr[t] \notin disturbed => got[t] = tokens[mgr[t]] /\ got[t] # 0

\* A forced refresh cannot be talked out of it: the token it brings was issued
\* after the one that was rejected.
RetryInv ==
    \A t \in Threads :
        /\ forced[t] => pc[t] \in Refreshing \cup {"wait", "send"}
        /\ forced[t] /\ pc[t] \in {"assign", "save"} => got[t] # rejected[t]
        /\ pc[t] = "send" /\ forced[t] /\ mgr[t] \notin disturbed => bearer[t] # rejected[t]

RetryHolds == RefreshInv /\ SaveInv /\ RetryInv

LEMMA RefreshFacts ==
    ASSUME RefreshInv
    PROVE  /\ ClientTypeOK /\ ThreadTypeOK /\ DialogTypeOK /\ CountTypeOK /\ Founded
           /\ minted \in Nat /\ lastClient \in Nat
BY BoundAssumption
   DEF RefreshInv, TypeInv, TypeOK, TokenTypeOK, Tokens, ClientTypeOK, Clients

\* A step of one thread touches no other.
LEMMA OneThread ==
    ASSUME ThreadTypeOK, NEW t \in Threads, Proceed(t)
    PROVE  /\ mgr' = mgr
           /\ \A u \in Threads \ {t} :
                 /\ pc'[u] = pc[u] /\ got'[u] = got[u] /\ forced'[u] = forced[u]
                 /\ bearer'[u] = bearer[u] /\ rejected'[u] = rejected[u]
<1>1. /\ mgr' = mgr
      /\ \A u \in Threads \ {t} : pc'[u] = pc[u] /\ got'[u] = got[u]
  BY DEF Proceed, LoadPersisted, KeepPersisted, CheckToken, Acquire, Recheck, PostGrant,
         Granted, NotGranted, AssignTokens, SaveTokens, SaveFails, Answered, Unauthorized,
         Step, Ends, Got, ThreadTypeOK
<1>2. \A u \in Threads \ {t} : /\ forced'[u] = forced[u] /\ bearer'[u] = bearer[u]
                               /\ rejected'[u] = rejected[u]
  BY DEF Proceed, LoadPersisted, KeepPersisted, CheckToken, Acquire, Recheck, PostGrant,
         Granted, NotGranted, AssignTokens, SaveTokens, SaveFails, Answered, Unauthorized,
         Step, Ends, Sends, ThreadTypeOK
<1> QED
  BY <1>1, <1>2

\* What a step does to the tokens of a client that stays undisturbed: they are
\* set for the first time, or by a refresh.
LEMMA TokensMove ==
    ASSUME RefreshInv, [Next]_vars, NEW m \in Clients, m \notin disturbed'
    PROVE  /\ m \notin disturbed
           /\ \/ tokens'[m] = tokens[m]
              \/ tokens[m] = 0
              \/ \E t \in Threads : AssignTokens(t) /\ mgr[t] = m
<1>0. /\ ClientTypeOK /\ ThreadTypeOK /\ DialogTypeOK /\ minted \in Nat
  BY RefreshFacts
<1>1. ASSUME NEW t \in Threads, KeepPersisted(t) PROVE tokens'[m] = tokens[m] \/ tokens[m] = 0
  BY <1>0, <1>1 DEF KeepPersisted, Overrides, ClientTypeOK, ThreadTypeOK
<1>2. ASSUME NEW t \in Threads, AssignTokens(t), mgr[t] # m PROVE tokens'[m] = tokens[m]
  BY <1>0, <1>2 DEF AssignTokens, ClientTypeOK, ThreadTypeOK
<1>3. ASSUME LoginAssigns PROVE tokens'[m] = tokens[m] \/ tokens[m] = 0
  <2>1. tokens[m] \in 0 .. minted /\ minted' = minted + 1
    BY <1>0, <1>3 DEF LoginAssigns, Mint, ClientTypeOK
  <2> QED
    BY <1>0, <1>3, <2>1 DEF LoginAssigns, Overrides, ClientTypeOK, DialogTypeOK
<1>4. ASSUME Logout PROVE tokens'[m] = tokens[m]
  BY <1>0, <1>4 DEF Logout, ClientTypeOK
<1>5. disturbed \subseteq disturbed'
  BY DEF Next, Time, BeginRequest, Proceed, LoadPersisted, KeepPersisted, CheckToken, Acquire,
         Recheck, PostGrant, Granted, NotGranted, AssignTokens, SaveTokens, SaveFails, Answered,
         Unauthorized, Dialog, SignIn, StartLogin, LoginFails, LoginAssigns, LoginSaves,
         LoginSaveFails, SignOut, ClearStorage, Logout, Restart, Overrides, vars, counted
<1>6. \/ UNCHANGED tokens
      \/ \E t \in Threads : KeepPersisted(t) \/ AssignTokens(t)
      \/ LoginAssigns \/ Logout
  BY DEF Next, Time, BeginRequest, Proceed, LoadPersisted, CheckToken, Acquire,
         Recheck, PostGrant, Granted, NotGranted, SaveTokens, SaveFails, Answered,
         Unauthorized, Dialog, SignIn, StartLogin, LoginFails, LoginSaves, LoginSaveFails, SignOut,
         ClearStorage, Restart, vars, manager
<1> QED
  BY <1>1, <1>2, <1>3, <1>4, <1>5, <1>6

LEMMA SaveStep == RefreshInv /\ SaveInv /\ [Next]_vars => SaveInv'
<1> SUFFICES ASSUME RefreshInv, SaveInv, [Next]_vars,
                    NEW t \in Threads, pc'[t] = "save", mgr'[t] \notin disturbed'
             PROVE  got'[t] = tokens'[mgr'[t]] /\ got'[t] # 0
  BY DEF SaveInv
<1>0. /\ ClientTypeOK /\ ThreadTypeOK /\ Founded /\ HoldsLock
      /\ mgr[t] \in Clients
  BY RefreshFacts DEF RefreshInv, ThreadTypeOK
<1>1. CASE AssignTokens(t)
  BY <1>0, <1>1 DEF AssignTokens, Step, Founded, ClientTypeOK, ThreadTypeOK
<1>2. CASE ~AssignTokens(t)
  <2>1. pc[t] = "save" /\ mgr'[t] = mgr[t] /\ got'[t] = got[t]
    <3>1. CASE \E u \in Threads \ {t} : Proceed(u)
      BY <1>0, <3>1, OneThread
    <3>2. CASE Proceed(t)
      BY <1>0, <1>2, <3>2
         DEF Proceed, LoadPersisted, KeepPersisted, CheckToken, Acquire, Recheck, PostGrant,
             Granted, NotGranted, SaveTokens, SaveFails, Answered, Unauthorized, Step, Ends,
             ThreadTypeOK
    <3>3. CASE \E u \in Threads : BeginRequest(u)
      BY <1>0, <3>3 DEF BeginRequest, Step, ThreadTypeOK
    <3>4. CASE Time \/ Dialog \/ Logout \/ UNCHANGED vars
      BY <3>4 DEF Time, Dialog, SignIn, StartLogin, LoginFails, LoginAssigns, LoginSaves,
                  LoginSaveFails, SignOut, ClearStorage, Logout, vars, thread
    <3>5. CASE Restart
      BY <3>5 DEF Restart
    <3> QED
      BY <3>1, <3>2, <3>3, <3>4, <3>5 DEF Next
  <2>2. /\ mgr[t] \notin disturbed
        /\ \/ tokens'[mgr[t]] = tokens[mgr[t]] \/ tokens[mgr[t]] = 0
           \/ \E u \in Threads : AssignTokens(u) /\ mgr[u] = mgr[t]
    BY <1>0, <2>1, TokensMove
  <2>3. got[t] = tokens[mgr[t]] /\ got[t] # 0
    BY <2>1, <2>2 DEF SaveInv
  <2>4. ASSUME NEW u \in Threads, AssignTokens(u), mgr[u] = mgr[t] PROVE FALSE
    BY <1>0, <1>2, <2>1, <2>4 DEF AssignTokens, Step, HoldsLock, Refreshing
  <2> QED
    BY <2>1, <2>2, <2>3, <2>4
<1> QED
  BY <1>1, <1>2

LEMMA RetryStep == RetryHolds /\ [Next]_vars => RetryInv'
<1> SUFFICES ASSUME RetryHolds, [Next]_vars, NEW t \in Threads
             PROVE  /\ forced'[t] => pc'[t] \in Refreshing \cup {"wait", "send"}
                    /\ forced'[t] /\ pc'[t] \in {"assign", "save"} => got'[t] # rejected'[t]
                    /\ pc'[t] = "send" /\ forced'[t] /\ mgr'[t] \notin disturbed'
                           => bearer'[t] # rejected'[t]
  BY DEF RetryInv
<1>0. /\ RefreshInv /\ SaveInv /\ ThreadTypeOK /\ minted \in Nat /\ mgr[t] \in Clients
      /\ forced[t] => pc[t] \in Refreshing \cup {"wait", "send"}
      /\ forced[t] /\ pc[t] \in {"assign", "save"} => got[t] # rejected[t]
      /\ pc[t] = "send" /\ forced[t] /\ mgr[t] \notin disturbed => bearer[t] # rejected[t]
  BY RefreshFacts DEF RetryHolds, RetryInv, ThreadTypeOK
<1>1. mgr[t] \notin disturbed' => mgr[t] \notin disturbed
  BY <1>0, TokensMove
<1>2. CASE UNCHANGED <<pc, forced, got, bearer, rejected, mgr>>
  BY <1>0, <1>1, <1>2
<1>3. CASE \E u \in Threads \ {t} : Proceed(u)
  BY <1>0, <1>1, <1>3, OneThread
<1>4. CASE Proceed(t)
  <2>1. mgr' = mgr /\ forced[t] \in BOOLEAN
    BY <1>0, <1>4, OneThread DEF ThreadTypeOK
  <2>2. CASE Granted(t)
    <3>1. /\ pc'[t] = "assign" /\ got'[t] = minted + 1 /\ rejected'[t] = rejected[t]
          /\ rejected[t] \in 0 .. minted
      BY <1>0, <2>2 DEF Granted, Mint, Step, Got, ThreadTypeOK
    <3> QED
      BY <1>0, <3>1 DEF Refreshing
  <2>3. CASE SaveTokens(t)
    <3>1. CASE Ends(t, "save")
      BY <1>0, <3>1 DEF Ends, ThreadTypeOK
    <3>2. CASE ~Ends(t, "save")
      <4>1. /\ pc[t] = "save" /\ pc'[t] = "send" /\ bearer'[t] = tokens[mgr[t]]
            /\ forced'[t] = forced[t] /\ rejected'[t] = rejected[t]
        BY <1>0, <2>3, <3>2 DEF SaveTokens, Step, Sends, Held, ThreadTypeOK
      <4> QED
        BY <1>0, <1>1, <2>1, <4>1 DEF SaveInv, Refreshing
    <3> QED
      BY <3>1, <3>2
  <2>4. CASE AssignTokens(t)
    BY <1>0, <2>4 DEF AssignTokens, Step, ThreadTypeOK, Refreshing
  <2>5. CASE Unauthorized(t)
    <3>1. pc'[t] = "wait" \/ ~forced'[t]
      BY <1>0, <2>5 DEF Unauthorized, Step, Ends, ThreadTypeOK
    <3> QED
      BY <3>1 DEF Refreshing
  <2>6. CASE NotGranted(t) \/ SaveFails(t) \/ Answered(t)
    BY <1>0, <2>6 DEF NotGranted, SaveFails, Answered, Ends, Step, ThreadTypeOK
  <2>7. CASE CheckToken(t) \/ LoadPersisted(t) \/ KeepPersisted(t)
    <3>1. pc[t] \in {"check", "load", "loading"} /\ (forced'[t] = forced[t] \/ ~forced'[t])
      BY <1>0, <2>7 DEF CheckToken, LoadPersisted, KeepPersisted, Ends, Step, ThreadTypeOK
    <3> QED
      BY <1>0, <3>1 DEF Refreshing
  <2>8. CASE Acquire(t) \/ PostGrant(t)
    <3>1. pc'[t] \in {"locked", "posted"} \/ ~forced'[t]
      BY <1>0, <2>8 DEF Acquire, PostGrant, Ends, Step, ThreadTypeOK
    <3> QED
      BY <3>1 DEF Refreshing
  <2>9. CASE Recheck(t)
    <3>1. pc'[t] = "post" \/ ~forced'[t]
      BY <1>0, <2>9 DEF Recheck, RefreshedMeanwhile, Ends, Step, ThreadTypeOK
    <3> QED
      BY <3>1 DEF Refreshing
  <2> QED
    BY <1>4, <2>2, <2>3, <2>4, <2>5, <2>6, <2>7, <2>8, <2>9 DEF Proceed
<1>5. ASSUME NEW u \in Threads, BeginRequest(u)
      PROVE  /\ forced'[t] => pc'[t] \in Refreshing \cup {"wait", "send"}
             /\ forced'[t] /\ pc'[t] \in {"assign", "save"} => got'[t] # rejected'[t]
             /\ pc'[t] = "send" /\ forced'[t] /\ mgr'[t] \notin disturbed'
                    => bearer'[t] # rejected'[t]
  <2>1. UNCHANGED <<forced, got, bearer, rejected>>
    BY <1>5 DEF BeginRequest
  <2>2. t = u => pc[t] = "idle" /\ pc'[t] = "load"
    BY <1>0, <1>5 DEF BeginRequest, Step, ThreadTypeOK
  <2>3. t # u => pc'[t] = pc[t] /\ mgr'[t] = mgr[t]
    BY <1>0, <1>5 DEF BeginRequest, Step, ThreadTypeOK
  <2> QED
    BY <1>0, <1>1, <2>1, <2>2, <2>3 DEF Refreshing
<1>6. CASE Restart
  BY <1>6 DEF Restart
<1> QED
  BY <1>2, <1>3, <1>4, <1>5, <1>6
     DEF Next, Time, Dialog, SignIn, StartLogin, LoginFails, LoginAssigns, LoginSaves,
         LoginSaveFails, SignOut, ClearStorage, Logout, vars, thread

LEMMA RetryStart == Init => RetryHolds
<1> SUFFICES ASSUME Init PROVE SaveInv /\ RetryInv
  BY RefreshInit DEF RetryHolds
<1> QED
  BY DEF Init, SaveInv, RetryInv

LEMMA RetryKept == RetryHolds /\ [Next]_vars => RetryHolds'
BY RefreshStep, SaveStep, RetryStep DEF RetryHolds

\* The one retry after a 401 carries another token than the one rejected, for
\* every client whose tokens only refreshes have replaced.
THEOREM RetryCarriesNew == Spec => []RetryIsFresh
<1>1. RetryHolds => RetryIsFresh
  BY DEF RetryHolds, RetryInv, RetryIsFresh
<1> QED
  BY <1>1, RetryStart, RetryKept, PTL DEF Spec
-----------------------------------------------------------------------------
(* The auth database follows the memory of the cached client.              *)

\* A client that is yet to be built holds nothing.
FreshClients == \A m \in Clients : m > lastClient => ~loaded[m] /\ tokens[m] = 0

\* The sign-in task writes to the client that is cached, and what it assigned
\* is still there when it writes the blob.
GuiInv ==
    /\ gui \in {"browser", "saving"} => guiMgr = client /\ client # 0
    /\ gui = "saving" /\ guiMgr \notin disturbed => tokens[guiMgr] # 0

Blob == stored[slotOf[client]]

\* While nobody is between assigning tokens and writing them, the blob is what
\* the client holds; and a first load still has the blob in hand.
BlobCurrent ==
    gui # "saving" /\ (\A t \in Threads : mgr[t] = client => pc[t] # "save")
        => (loaded[client] \/ tokens[client] # 0 => Blob = tokens[client])

LoadsBlob ==
    tokens[client] = 0
        => \A t \in Threads : mgr[t] = client /\ pc[t] = "loading" => got[t] = Blob

MemoryInv == client # 0 /\ client \notin disturbed => BlobCurrent /\ LoadsBlob

DiskInv == RetryHolds /\ FreshClients /\ GuiInv /\ MemoryInv

LEMMA DiskFacts ==
    ASSUME DiskInv
    PROVE  /\ RefreshInv /\ SaveInv
           /\ ClientTypeOK /\ ThreadTypeOK /\ DialogTypeOK /\ CountTypeOK /\ Founded
           /\ minted \in Nat /\ lastClient \in Nat /\ lastClient \in Clients
           /\ client \in 0 .. lastClient /\ 0 .. lastClient \subseteq {0} \cup Clients
           /\ \A t \in Threads : mgr[t] \in 1 .. lastClient
<1>1. /\ RefreshInv /\ SaveInv
      /\ ClientTypeOK /\ ThreadTypeOK /\ DialogTypeOK /\ CountTypeOK /\ Founded
      /\ minted \in Nat /\ lastClient \in Nat
  BY RefreshFacts DEF DiskInv, RetryHolds
<1>2. /\ lastClient \in Clients /\ client \in 0 .. lastClient
      /\ \A t \in Threads : mgr[t] \in Clients /\ mgr[t] <= lastClient
  BY <1>1 DEF ClientTypeOK, ThreadTypeOK, Founded
<1> QED
  BY <1>1, <1>2, BoundAssumption DEF Clients

LEMMA FreshStep == DiskInv /\ [Next]_vars => FreshClients'
<1> SUFFICES ASSUME DiskInv, [Next]_vars PROVE FreshClients'
  OBVIOUS
<1>0. /\ ClientTypeOK /\ ThreadTypeOK /\ DialogTypeOK /\ lastClient \in Nat
      /\ client \in 0 .. lastClient /\ \A t \in Threads : mgr[t] \in 1 .. lastClient
      /\ FreshClients
  BY DiskFacts DEF DiskInv
<1>1. CASE UNCHANGED <<tokens, loaded, lastClient>>
  BY <1>0, <1>1 DEF FreshClients
<1>2. ASSUME NEW c \in Clients, GetClient(c), UNCHANGED <<tokens, loaded>> PROVE FreshClients'
  BY <1>0, <1>2 DEF FreshClients, GetClient, cache, Clients
<1>3. ASSUME NEW k \in 1 .. lastClient, UNCHANGED lastClient,
             \A m \in Clients \ {k} : tokens'[m] = tokens[m] /\ loaded'[m] = loaded[m]
      PROVE  FreshClients'
  BY <1>0, <1>3 DEF FreshClients, Clients
<1>4. ASSUME NEW t \in Threads, Proceed(t) PROVE FreshClients'
  <2>1. CASE KeepPersisted(t) \/ AssignTokens(t)
    BY <1>0, <1>3, <2>1 DEF KeepPersisted, AssignTokens, cache, ClientTypeOK
  <2>2. CASE ~(KeepPersisted(t) \/ AssignTokens(t))
    BY <1>1, <1>4, <2>2
       DEF Proceed, LoadPersisted, CheckToken, Acquire, Recheck, PostGrant, Granted, NotGranted,
           SaveTokens, SaveFails, Answered, Unauthorized, manager, cache
  <2> QED
    BY <2>1, <2>2
<1>5. CASE StartLogin
  BY <1>2, <1>5 DEF StartLogin, manager
<1>6. CASE LoginAssigns
  <2>1. guiMgr \in 1 .. lastClient
    BY <1>0, <1>6 DEF LoginAssigns, DiskInv, GuiInv
  <2> QED
    BY <1>0, <1>3, <1>6, <2>1 DEF LoginAssigns, cache, ClientTypeOK
<1>7. CASE Logout
  <2>1. client \in 1 .. lastClient
    BY <1>0, <1>7 DEF Logout
  <2> QED
    BY <1>0, <1>3, <1>7, <2>1 DEF Logout, cache, ClientTypeOK
<1>8. CASE \E t \in Threads : BeginRequest(t)
  BY <1>2, <1>8 DEF BeginRequest, manager
<1> QED
  BY <1>1, <1>4, <1>5, <1>6, <1>7, <1>8
     DEF Next, Time, Dialog, SignIn, LoginFails, LoginSaves, LoginSaveFails, SignOut, ClearStorage,
         Restart, vars, manager, cache

LEMMA GuiStep == DiskInv /\ [Next]_vars => GuiInv'
<1> SUFFICES ASSUME DiskInv, [Next]_vars PROVE GuiInv'
  OBVIOUS
<1>0. /\ RefreshInv /\ ClientTypeOK /\ ThreadTypeOK /\ DialogTypeOK /\ Founded /\ minted \in Nat
      /\ client \in 0 .. lastClient /\ lastClient \in Nat /\ GuiInv
  BY DiskFacts DEF DiskInv
<1>1. ASSUME guiMgr' = guiMgr, gui' = gui PROVE (gui = "saving" /\ guiMgr \notin disturbed => tokens[guiMgr] # 0)'
  <2> SUFFICES ASSUME gui = "saving", guiMgr \notin disturbed' PROVE tokens'[guiMgr] # 0
    BY <1>1
  <2>1. /\ guiMgr \notin disturbed /\ tokens[guiMgr] # 0 /\ guiMgr \in Clients
        /\ \/ tokens'[guiMgr] = tokens[guiMgr] \/ tokens[guiMgr] = 0
           \/ \E t \in Threads : AssignTokens(t) /\ mgr[t] = guiMgr
    BY <1>0, TokensMove DEF GuiInv, DialogTypeOK
  <2>2. ASSUME NEW t \in Threads, AssignTokens(t), mgr[t] = guiMgr PROVE tokens'[guiMgr] # 0
    BY <1>0, <2>2 DEF AssignTokens, Step, Founded, ClientTypeOK, ThreadTypeOK
  <2> QED
    BY <2>1, <2>2
<1>2. CASE UNCHANGED dialog /\ (client' = client \/ client = 0)
  BY <1>0, <1>1, <1>2 DEF GuiInv, dialog
<1>3. CASE gui' \notin {"browser", "saving"}
  BY <1>3 DEF GuiInv
<1>4. CASE StartLogin
  <2>1. PICK c \in Clients : GetClient(c) /\ guiMgr' = c
    BY <1>4 DEF StartLogin
  <2>2. c # 0 /\ client' = c /\ gui' = "browser"
    BY <1>0, <1>4, <2>1 DEF StartLogin, GetClient, cache, Clients
  <2> QED
    BY <2>1, <2>2 DEF GuiInv
<1>5. CASE LoginAssigns
  BY <1>0, <1>5 DEF LoginAssigns, Mint, GuiInv, cache, ClientTypeOK, DialogTypeOK
<1>6. CASE \E t \in Threads : BeginRequest(t)
  BY <1>2, <1>6 DEF BeginRequest, GetClient, cache
<1> QED
  BY <1>2, <1>3, <1>4, <1>5, <1>6
     DEF Next, Time, Proceed, LoadPersisted, KeepPersisted, CheckToken, Acquire, Recheck,
         PostGrant, Granted, NotGranted, AssignTokens, SaveTokens, SaveFails, Answered,
         Unauthorized, Dialog, SignIn, LoginFails, LoginSaves, LoginSaveFails, SignOut,
         ClearStorage, Logout, Restart, GuiIdle, vars, cache

\* One thread's step, for a client that was and stays cached.
LEMMA ThreadMemory ==
    ASSUME DiskInv, NEW t \in Threads, Proceed(t), client # 0, client \notin disturbed'
    PROVE  BlobCurrent' /\ LoadsBlob'
<1>0. /\ RefreshInv /\ SaveInv /\ ClientTypeOK /\ ThreadTypeOK /\ CountTypeOK /\ Founded
      /\ client \in Clients /\ mgr[t] \in 1 .. lastClient /\ mgr[t] \in Clients
      /\ slotOf[mgr[t]] \in Slots /\ slotOf[client] \in Slots
  <2>1. /\ client \in 1 .. lastClient /\ mgr[t] \in 1 .. lastClient
        /\ client \in Clients /\ mgr[t] \in Clients
    BY DiskFacts
  <2> QED
    BY <2>1, DiskFacts DEF ClientTypeOK, Founded
<1>1. UNCHANGED <<client, slotOf, gui, mgr>>
  BY DEF Proceed, LoadPersisted, KeepPersisted, CheckToken, Acquire, Recheck,
         PostGrant, Granted, NotGranted, AssignTokens, SaveTokens, SaveFails, Answered,
         Unauthorized, cache, dialog
<1>2. \A u \in Threads \ {t} : pc'[u] = pc[u] /\ got'[u] = got[u]
  BY <1>0, OneThread
<1>3. client \notin disturbed /\ BlobCurrent /\ LoadsBlob
  <2>1. client \notin disturbed
    BY <1>0, TokensMove DEF Next
  <2> QED
    BY <2>1 DEF DiskInv, MemoryInv
<1>4. CASE LoadPersisted(t)
  <2>1. /\ UNCHANGED <<stored, tokens, loaded>>
        /\ pc[t] = "load"
        /\ \/ pc'[t] = "check"
           \/ pc'[t] = "loading" /\ got'[t] = stored[slotOf[mgr[t]]]
    BY <1>0, <1>4 DEF LoadPersisted, Step, Got, manager, disk, ThreadTypeOK
  <2>2. BlobCurrent'
    BY <1>1, <1>2, <1>3, <2>1 DEF BlobCurrent, Blob
  <2>3. LoadsBlob'
    BY <1>1, <1>2, <1>3, <2>1 DEF LoadsBlob, Blob
  <2> QED
    BY <2>2, <2>3
<1>5. CASE KeepPersisted(t)
  <2>1. /\ UNCHANGED stored /\ pc[t] = "loading" /\ pc'[t] = "check"
        /\ tokens' = [tokens EXCEPT ![mgr[t]] = got[t]]
        /\ loaded' = [loaded EXCEPT ![mgr[t]] = TRUE]
    BY <1>0, <1>5 DEF KeepPersisted, Step, disk, ThreadTypeOK
  <2>2. CASE mgr[t] # client
    <3>1. tokens'[client] = tokens[client] /\ loaded'[client] = loaded[client]
      BY <1>0, <2>1, <2>2 DEF ClientTypeOK
    <3> QED
      BY <1>1, <1>2, <1>3, <2>1, <2>2, <3>1 DEF BlobCurrent, LoadsBlob, Blob
  <2>3. CASE mgr[t] = client
    <3>1. tokens'[client] = got[t] /\ tokens[client] \in {0, got[t]}
      BY <1>0, <1>5, <2>1, <2>3 DEF KeepPersisted, Overrides, ClientTypeOK
    <3>2. tokens[client] = 0 => got[t] = Blob /\ Blob' = Blob
      BY <1>1, <1>3, <2>1, <2>3 DEF LoadsBlob, Blob
    <3>3. BlobCurrent'
      BY <1>1, <1>2, <1>3, <2>1, <3>1, <3>2 DEF BlobCurrent, Blob
    <3>4. LoadsBlob'
      BY <1>1, <1>2, <1>3, <2>1, <3>1, <3>2 DEF LoadsBlob, Blob
    <3> QED
      BY <3>3, <3>4
  <2> QED
    BY <2>2, <2>3
<1>6. CASE AssignTokens(t)
  <2>1. /\ UNCHANGED <<stored, loaded>> /\ pc[t] = "assign" /\ pc'[t] = "save"
        /\ tokens' = [tokens EXCEPT ![mgr[t]] = got[t]] /\ got[t] # 0
    BY <1>0, <1>6 DEF AssignTokens, Step, disk, ThreadTypeOK, Founded
  <2>2. CASE mgr[t] # client
    <3>1. tokens'[client] = tokens[client]
      BY <1>0, <2>1, <2>2 DEF ClientTypeOK
    <3> QED
      BY <1>1, <1>2, <1>3, <2>1, <2>2, <3>1 DEF BlobCurrent, LoadsBlob, Blob
  <2>3. CASE mgr[t] = client
    <3>1. tokens'[client] # 0
      BY <1>0, <2>1, <2>3 DEF ClientTypeOK
    <3> QED
      BY <1>1, <2>1, <2>3, <3>1 DEF BlobCurrent, LoadsBlob
  <2> QED
    BY <2>2, <2>3
<1>7. CASE SaveTokens(t)
  <2>1. /\ UNCHANGED <<tokens, loaded>> /\ pc[t] = "save" /\ pc'[t] \in {"idle", "send"}
        /\ stored' = [stored EXCEPT ![slotOf[mgr[t]]] = got[t]]
        /\ mgr[t] = client \/ slotOf[client] # slotOf[mgr[t]]
    BY <1>0, <1>7 DEF SaveTokens, Saved, Ends, Step, ThreadTypeOK
  <2>2. CASE mgr[t] = client
    <3>1. Blob' = tokens[client] /\ tokens[client] # 0
      BY <1>0, <1>1, <1>3, <2>1, <2>2 DEF SaveInv, Blob, ClientTypeOK
    <3> QED
      BY <1>1, <2>1, <3>1 DEF BlobCurrent, LoadsBlob
  <2>3. CASE mgr[t] # client
    <3>1. Blob' = Blob
      BY <1>0, <1>1, <2>1, <2>3 DEF Blob, ClientTypeOK
    <3> QED
      BY <1>1, <1>2, <1>3, <2>1, <2>3, <3>1 DEF BlobCurrent, LoadsBlob
  <2> QED
    BY <2>2, <2>3
<1>8. CASE SaveFails(t)
  <2>1. /\ UNCHANGED <<tokens, loaded, stored>> /\ pc'[t] = "idle" /\ mgr[t] # client
    BY <1>0, <1>8 DEF SaveFails, Ends, Step, manager, disk, ThreadTypeOK
  <2> QED
    BY <1>1, <1>2, <1>3, <2>1 DEF BlobCurrent, LoadsBlob, Blob
<1>9. ASSUME UNCHANGED <<tokens, loaded, stored>>,
             pc[t] # "save" /\ pc'[t] \notin {"loading", "save"}
      PROVE  BlobCurrent' /\ LoadsBlob'
  <2>1. BlobCurrent'
    BY <1>1, <1>2, <1>3, <1>9 DEF BlobCurrent, Blob
  <2>2. LoadsBlob'
    BY <1>1, <1>2, <1>3, <1>9 DEF LoadsBlob, Blob
  <2> QED
    BY <2>1, <2>2
<1>10. CASE CheckToken(t) \/ Acquire(t) \/ Recheck(t) \/ PostGrant(t)
  <2>1. UNCHANGED <<tokens, loaded, stored>> /\ pc[t] # "save" /\ pc'[t] \notin {"loading", "save"}
    BY <1>0, <1>10 DEF CheckToken, Acquire, Recheck, PostGrant, Ends, Step, manager, disk,
                       ThreadTypeOK
  <2> QED
    BY <1>9, <2>1
<1>11. CASE Granted(t) \/ NotGranted(t) \/ Answered(t) \/ Unauthorized(t)
  <2>1. UNCHANGED <<tokens, loaded, stored>> /\ pc[t] # "save" /\ pc'[t] \notin {"loading", "save"}
    BY <1>0, <1>11 DEF Granted, NotGranted, Answered, Unauthorized, Ends, Step, manager, disk,
                       ThreadTypeOK
  <2> QED
    BY <1>9, <2>1
<1> QED
  BY <1>4, <1>5, <1>6, <1>7, <1>8, <1>10, <1>11 DEF Proceed

\* A client just built holds nothing and nobody has used it.
LEMMA NewClientMemory ==
    ASSUME DiskInv, NEW c \in Clients, GetClient(c), client = 0,
           UNCHANGED <<tokens, loaded>>,
           \A t \in Threads : mgr'[t] = c => pc'[t] \notin {"loading"} \/ mgr[t] = c
    PROVE  BlobCurrent' /\ LoadsBlob'
<1>1. c = lastClient + 1 /\ client' = c /\ lastClient \in Nat
  BY DiskFacts DEF GetClient, Clients
<1>2. ~loaded[c] /\ tokens[c] = 0 /\ \A t \in Threads : mgr[t] # c
  BY <1>1, DiskFacts DEF DiskInv, FreshClients
<1> QED
  BY <1>1, <1>2 DEF BlobCurrent, LoadsBlob

LEMMA MemoryStep == DiskInv /\ [Next]_vars => MemoryInv'
<1> SUFFICES ASSUME DiskInv, [Next]_vars, client' # 0, client' \notin disturbed'
             PROVE  BlobCurrent' /\ LoadsBlob'
  BY DEF MemoryInv
<1>0. /\ RefreshInv /\ SaveInv /\ ClientTypeOK /\ ThreadTypeOK /\ DialogTypeOK /\ Founded
      /\ minted \in Nat /\ MemoryInv /\ GuiInv
      /\ client \in 0 .. lastClient /\ client \in {0} \cup Clients /\ lastClient \in Nat
  BY DiskFacts DEF DiskInv
<1>1. client \in Clients /\ client \notin disturbed' => client \notin disturbed
  BY <1>0, TokensMove
<1>2. ASSUME client' = client, UNCHANGED <<slotOf, stored, tokens, loaded, pc, mgr, got>>,
             gui # "saving"
      PROVE  BlobCurrent' /\ LoadsBlob'
  BY <1>0, <1>1, <1>2 DEF MemoryInv, BlobCurrent, LoadsBlob, Blob
<1>3. CASE Time \/ UNCHANGED vars
  <2>1. UNCHANGED <<client, slotOf, stored, tokens, loaded, pc, mgr, got, gui>>
    BY <1>3 DEF Time, vars, disk, cache, manager, thread, dialog
  <2> QED
    BY <1>0, <1>1, <2>1 DEF MemoryInv, BlobCurrent, LoadsBlob, Blob
<1>4. ASSUME NEW t \in Threads, BeginRequest(t) PROVE BlobCurrent' /\ LoadsBlob'
  <2>1. PICK c \in Clients : GetClient(c) /\ mgr' = [mgr EXCEPT ![t] = c]
    BY <1>4 DEF BeginRequest
  <2>2. /\ UNCHANGED <<stored, tokens, loaded, got, gui>> /\ pc[t] = "idle" /\ pc'[t] = "load"
        /\ \A u \in Threads \ {t} : pc'[u] = pc[u] /\ mgr'[u] = mgr[u]
    BY <1>0, <1>4, <2>1 DEF BeginRequest, Step, disk, manager, dialog, ThreadTypeOK
  <2>3. CASE client = 0
    BY <2>1, <2>2, <2>3, NewClientMemory
  <2>4. CASE client # 0
    <3>1. UNCHANGED <<client, slotOf>> /\ BlobCurrent /\ LoadsBlob
      BY <1>0, <1>1, <2>1, <2>4 DEF GetClient, cache, MemoryInv
    <3> QED
      BY <2>2, <3>1 DEF BlobCurrent, LoadsBlob, Blob
  <2> QED
    BY <2>3, <2>4
<1>5. ASSUME NEW t \in Threads, Proceed(t) PROVE BlobCurrent' /\ LoadsBlob'
  <2>1. client' = client
    BY <1>5 DEF Proceed, LoadPersisted, KeepPersisted, CheckToken, Acquire, Recheck,
         PostGrant, Granted, NotGranted, AssignTokens, SaveTokens, SaveFails, Answered,
         Unauthorized, cache
  <2> QED
    BY <1>5, <2>1, ThreadMemory
<1>6. CASE StartLogin
  <2>1. PICK c \in Clients : GetClient(c)
    BY <1>6 DEF StartLogin
  <2>2. UNCHANGED <<stored, tokens, loaded, got, pc, mgr>> /\ gui = "starting"
    BY <1>6 DEF StartLogin, disk, manager, thread
  <2>3. CASE client = 0
    BY <2>1, <2>2, <2>3, NewClientMemory
  <2>4. CASE client # 0
    BY <1>2, <2>1, <2>2, <2>4 DEF GetClient, cache
  <2> QED
    BY <2>3, <2>4
<1>7. CASE LoginAssigns
  <2>1. /\ guiMgr = client /\ gui' = "saving" /\ client' = client
        /\ tokens' = [tokens EXCEPT ![guiMgr] = minted'] /\ minted' = minted + 1
    BY <1>0, <1>7 DEF LoginAssigns, Mint, GuiInv, cache
  <2>2. tokens'[client'] # 0
    BY <1>0, <2>1 DEF ClientTypeOK, DialogTypeOK
  <2> QED
    BY <2>1, <2>2 DEF BlobCurrent, LoadsBlob
<1>8. CASE LoginSaves
  <2>1. /\ guiMgr = client /\ client' = client /\ UNCHANGED <<tokens, slotOf>>
        /\ stored' = [stored EXCEPT ![slotOf[client]] = guiGot]
        /\ tokens[client] \in {0, guiGot} /\ tokens[client] # 0
    BY <1>0, <1>1, <1>8 DEF LoginSaves, Overrides, GuiInv, cache, manager, DialogTypeOK
  <2>2. slotOf[client] \in Slots
    BY <1>0, <2>1 DEF ClientTypeOK, DialogTypeOK, Founded
  <2>3. Blob' = tokens'[client']
    BY <1>0, <2>1, <2>2 DEF Blob, ClientTypeOK
  <2> QED
    BY <2>1, <2>3 DEF BlobCurrent, LoadsBlob
<1>9. CASE SignIn \/ SignOut \/ ClearStorage \/ Logout \/ Restart
  BY <1>9 DEF SignIn, SignOut, ClearStorage, Logout, Restart, cache
<1>10. CASE LoginFails
  BY <1>2, <1>10 DEF LoginFails, manager, thread
<1>11. CASE LoginSaveFails
  BY <1>0, <1>11 DEF LoginSaveFails, GuiInv
<1> QED
  BY <1>3, <1>4, <1>5, <1>6, <1>7, <1>8, <1>9, <1>10, <1>11 DEF Next, Dialog

LEMMA DiskStart == Init => DiskInv
<1> SUFFICES ASSUME Init PROVE FreshClients /\ GuiInv /\ MemoryInv
  BY RetryStart DEF DiskInv
<1>1. 1 \in Clients /\ 1 \in Slots /\ Clients \subseteq Nat
  BY BoundAssumption DEF Clients, Slots
<1>2. FreshClients
  <2> SUFFICES ASSUME NEW m \in Clients, m > lastClient PROVE ~loaded[m] /\ tokens[m] = 0
    BY DEF FreshClients
  <2>1. m # 1 /\ lastClient = 1
    BY <1>1 DEF Init
  <2>2. ~loaded[m]
    BY <2>1 DEF Init
  <2> QED
    BY <2>2 DEF Init
<1>3. MemoryInv
  BY <1>1 DEF Init, MemoryInv, BlobCurrent, LoadsBlob, Blob
<1> QED
  BY <1>2, <1>3 DEF Init, GuiInv

LEMMA DiskKept == DiskInv /\ [Next]_vars => DiskInv'
BY RetryKept, FreshStep, GuiStep, MemoryStep DEF DiskInv

\* QGIS can be closed at any time: the auth database holds what the cached client
\* does, except while a refresh or a sign-in is writing it.
THEOREM DiskIsCurrent == Spec => []DiskFollowsMemory
<1>1. DiskInv => DiskFollowsMemory
  <2> SUFFICES ASSUME DiskInv, client # 0, client \notin disturbed, loaded[client],
                      lock[client] = Nobody, gui # "saving"
               PROVE  stored[slotOf[client]] = tokens[client]
    BY DEF DiskFollowsMemory
  <2>1. \A t \in Threads : mgr[t] = client => pc[t] # "save"
    BY ThreadAssumption DEF DiskInv, RetryHolds, RefreshInv, HoldsLock, Refreshing
  <2> QED
    BY <2>1 DEF DiskInv, MemoryInv, BlobCurrent, Blob
<1> QED
  BY <1>1, DiskStart, DiskKept, PTL DEF Spec
-----------------------------------------------------------------------------
(* No thundering herd.                                                     *)

Sessions == \A n \in 1 .. minted : session[n] # 0

\* Token sets a later one of their session has replaced; and those of them whose
\* access token had gone stale: a refresh of its own accord uses up one of these.
Superseded == {n \in 1 .. minted : current[session[n]] # n}
Spent == expired \cap Superseded

\* 401s whose one refresh is still to come.
Pending == {t \in Threads : forced[t] /\ pc[t] \in {"wait", "locked", "post", "posted"}}

\* A refresh no 401 has asked for is of a stale token.
StaleOnly ==
    \A t \in Threads : ~forced[t] =>
        /\ pc[t] = "post" => Held(t) \in expired
        /\ pc[t] = "posted" => got[t] \in expired

HerdCount == minted + Cardinality(Pending) <= logins + Cardinality(Spent) + rejections

HerdInv == RetryHolds /\ Sessions /\ (disturbed = {} => StaleOnly /\ HerdCount)

Countable ==
    /\ minted \in Nat /\ logins \in Nat /\ rejections \in Nat
    /\ IsFiniteSet(Pending) /\ Cardinality(Pending) \in Nat
    /\ IsFiniteSet(Spent) /\ Cardinality(Spent) \in Nat
    /\ Cardinality(expired) \in Nat /\ Cardinality(Spent) <= Cardinality(expired)

LEMMA HerdFacts ==
    RefreshInv => /\ Countable /\ TokenTypeOK /\ ClientTypeOK /\ ThreadTypeOK
                  /\ DialogTypeOK /\ CountTypeOK /\ Founded /\ minted \in Nat
<1> SUFFICES ASSUME RefreshInv
             PROVE  /\ Countable /\ TokenTypeOK /\ ClientTypeOK /\ ThreadTypeOK
                    /\ DialogTypeOK /\ CountTypeOK /\ Founded /\ minted \in Nat
  OBVIOUS
<1>1. /\ TokenTypeOK /\ ClientTypeOK /\ ThreadTypeOK /\ DialogTypeOK /\ CountTypeOK /\ Founded
      /\ minted \in Nat /\ logins \in Nat /\ rejections \in Nat /\ expired \in SUBSET (1 .. minted)
  BY RefreshFacts DEF RefreshInv, TypeInv, TypeOK, TokenTypeOK, CountTypeOK
<1>2. IsFiniteSet(expired)
  <2>1. IsFiniteSet(1 .. minted)
    BY <1>1, FS_Interval
  <2> QED
    BY <1>1, <2>1, FS_Subset
<1>3. IsFiniteSet(Spent) /\ Cardinality(Spent) <= Cardinality(expired)
  BY <1>2, FS_Subset DEF Spent
<1>4. IsFiniteSet(Pending)
  BY ThreadAssumption, FS_Subset DEF Pending
<1> QED
  BY <1>1, <1>2, <1>3, <1>4, FS_CardinalityType DEF Countable

LEMMA CountableNext == RefreshInv' => Countable'
<1>1. RefreshInv => Countable
  BY HerdFacts
<1> QED
  BY <1>1, PTL

LEMMA SpentGrows ==
    ASSUME TokenTypeOK, expired \subseteq expired',
           \/ UNCHANGED issuer
           \/ \E s : Mint(s)
    PROVE  Spent \subseteq Spent'
<1>0. minted \in Nat /\ 1 .. minted \subseteq Tokens
  BY BoundAssumption DEF TokenTypeOK, Tokens
<1>1. CASE UNCHANGED issuer
  BY <1>1 DEF Spent, Superseded, issuer
<1>2. ASSUME NEW s, Mint(s) PROVE Spent \subseteq Spent'
  <2> SUFFICES ASSUME NEW n \in 1 .. minted, current[session[n]] # n
               PROVE  n \in 1 .. minted' /\ current'[session'[n]] # n
    BY DEF Spent, Superseded
  <2>1. n \in 1 .. minted' /\ n # minted' /\ session'[n] = session[n] /\ session[n] \in {0} \cup Tokens
    BY <1>0, <1>2 DEF Mint, TokenTypeOK
  <2>2. current' = [current EXCEPT ![s] = minted']
    BY <1>2 DEF Mint
  <2>3. CASE session[n] \in Tokens
    BY <2>1, <2>2, <2>3 DEF TokenTypeOK
  <2>4. CASE session[n] \notin Tokens
    <3>1. DOMAIN current = Tokens /\ DOMAIN current' = Tokens
      BY <2>2 DEF TokenTypeOK
    <3> QED
      BY <2>1, <2>2, <2>4, <3>1 DEF TokenTypeOK
  <2> QED
    BY <2>3, <2>4
<1> QED
  BY <1>1, <1>2

\* A step that issues nothing, and settles 401s at most.
LEMMA NothingIssued ==
    ASSUME RefreshInv, RefreshInv', HerdCount, UNCHANGED <<issuer, logins>>,
           rejections' >= rejections, expired \subseteq expired', Pending' \subseteq Pending
    PROVE  HerdCount'
<1>0. Countable /\ Countable' /\ TokenTypeOK
  BY HerdFacts, CountableNext
<1>1. Cardinality(Pending') <= Cardinality(Pending)
  BY <1>0, FS_Subset DEF Countable
<1>2. Cardinality(Spent) <= Cardinality(Spent')
  <2>1. Spent \subseteq Spent'
    BY <1>0, SpentGrows
  <2> QED
    BY <1>0, <2>1, FS_Subset DEF Countable
<1> QED
  BY <1>0, <1>1, <1>2 DEF HerdCount, Countable, issuer

\* An exchange is paid for by the 401 it answers or by the token it uses up.
LEMMA Exchanged ==
    ASSUME RefreshInv, RefreshInv', Sessions, StaleOnly, HerdCount,
           NEW t \in Threads, pc[t] = "posted", Good(got[t]), Mint(session[got[t]]),
           Pending' = Pending \ {t}, UNCHANGED <<logins, rejections, expired>>
    PROVE  HerdCount'
<1>0. /\ got[t] \in 1 .. minted /\ minted' = minted + 1 /\ minted \in Nat /\ 1 .. minted \subseteq Tokens
      /\ TokenTypeOK /\ IsFiniteSet(Spent) /\ IsFiniteSet(Spent') /\ IsFiniteSet(Pending)
      /\ Countable /\ Countable'
  <2>1. /\ TokenTypeOK /\ ThreadTypeOK /\ Founded /\ Countable /\ Countable'
    BY HerdFacts, CountableNext
  <2>2. minted \in 1 .. MaxToken /\ MaxToken \in Nat
    BY <2>1, BoundAssumption DEF TokenTypeOK, Tokens
  <2>3. got[t] \in 1 .. minted /\ minted' = minted + 1
    BY <2>1, <2>2 DEF Founded, ThreadTypeOK, Mint
  <2> QED
    BY <2>1, <2>2, <2>3 DEF Countable, Tokens
<1>1. Spent \subseteq Spent'
  BY <1>0, SpentGrows
<1>2. Cardinality(Spent) <= Cardinality(Spent') /\ Cardinality(Spent') \in Nat /\ Cardinality(Spent) \in Nat
  BY <1>0, <1>1, FS_Subset, FS_CardinalityType
<1>3. CASE t \in Pending
  <2>1. Cardinality(Pending') = Cardinality(Pending) - 1
    BY <1>0, <1>3, FS_RemoveElement
  <2> QED
    BY <1>0, <1>2, <2>1 DEF HerdCount, Countable
<1>4. CASE t \notin Pending
  <2>1. got[t] \in expired
    BY <1>4 DEF StaleOnly, Pending
  <2>2. got[t] \notin Spent
    BY DEF Good, Spent, Superseded
  <2>3. got[t] \in Spent'
    <3>1. session[got[t]] \in Tokens /\ got[t] \in Tokens /\ got[t] # minted'
      BY <1>0 DEF Sessions, TokenTypeOK
    <3>2. session'[got[t]] = session[got[t]] /\ current'[session[got[t]]] = minted'
      BY <1>0, <3>1 DEF Mint, TokenTypeOK
    <3>3. got[t] \in 1 .. minted'
      BY <1>0
    <3> QED
      BY <2>1, <3>1, <3>2, <3>3 DEF Spent, Superseded
  <2>4. Spent \cup {got[t]} \in SUBSET Spent'
    BY <1>1, <2>3
  <2>5. Cardinality(Spent \cup {got[t]}) = Cardinality(Spent) + 1
    BY <1>0, <2>2, FS_AddElement
  <2>6. Cardinality(Spent) + 1 <= Cardinality(Spent')
    BY <1>0, <2>4, <2>5, FS_Subset
  <2>7. Pending' = Pending
    BY <1>4
  <2> QED
    BY <1>0, <1>2, <2>6, <2>7 DEF HerdCount, Countable
<1> QED
  BY <1>3, <1>4

LEMMA SessionsStep == HerdInv /\ [Next]_vars => Sessions'
<1> SUFFICES ASSUME HerdInv, [Next]_vars PROVE Sessions'
  OBVIOUS
<1>0. /\ TokenTypeOK /\ ThreadTypeOK /\ Founded /\ Sessions /\ minted \in 1 .. MaxToken
      /\ MaxToken \in Nat /\ RefreshInv
  BY HerdFacts, BoundAssumption DEF HerdInv, RetryHolds, TokenTypeOK, Tokens
<1>1. ASSUME NEW s \in Tokens, Mint(s) PROVE Sessions'
  <2>1. /\ minted' = minted + 1 /\ minted' \in Tokens
        /\ session' = [session EXCEPT ![minted'] = s] /\ s # 0
    BY <1>0, <1>1 DEF Mint, Tokens
  <2>2. \A n \in 1 .. minted' : n = minted' \/ n \in 1 .. minted
    BY <1>0, <2>1
  <2>3. 1 .. minted \subseteq Tokens
    BY <1>0 DEF Tokens
  <2> QED
    BY <1>0, <2>1, <2>2, <2>3 DEF Sessions, TokenTypeOK
<1>2. ASSUME NEW t \in Threads, Granted(t) \/ NotGranted(t) PROVE Sessions'
  <2>1. got[t] \in 1 .. minted /\ got[t] \in Tokens
    BY <1>0, <1>2 DEF Granted, NotGranted, Step, Ends, Founded, ThreadTypeOK, Tokens
  <2>2. session[got[t]] \in Tokens
    BY <1>0, <2>1 DEF Sessions, TokenTypeOK
  <2>3. Mint(session[got[t]]) \/ UNCHANGED issuer
    BY <1>2 DEF Granted, NotGranted
  <2> QED
    BY <1>0, <1>1, <2>2, <2>3 DEF Sessions, issuer
<1>3. CASE LoginAssigns
  <2>1. Mint(minted + 1) /\ minted + 1 \in Tokens
    BY <1>0, <1>3 DEF LoginAssigns, Mint, Tokens
  <2> QED
    BY <1>1, <2>1
<1>4. CASE UNCHANGED issuer
  BY <1>0, <1>4 DEF Sessions, issuer
<1> QED
  BY <1>2, <1>3, <1>4
     DEF Next, Time, BeginRequest, Proceed, LoadPersisted, KeepPersisted, CheckToken, Acquire,
         Recheck, PostGrant, AssignTokens, SaveTokens, SaveFails, Answered,
         Unauthorized, Dialog, SignIn, StartLogin, LoginFails, LoginSaves, LoginSaveFails, SignOut,
         ClearStorage, Logout, Restart, vars

LEMMA ExpiredGrows == [Next]_vars => expired \subseteq expired'
BY DEF Next, Time, Expire, Lapse, Revoke, BeginRequest, Proceed, LoadPersisted, KeepPersisted,
       CheckToken, Acquire, Recheck, PostGrant, Granted, NotGranted, AssignTokens, SaveTokens,
       SaveFails, Answered, Unauthorized, Dialog, SignIn, StartLogin, LoginFails, LoginAssigns,
       LoginSaves, LoginSaveFails, SignOut, ClearStorage, Logout, Restart, vars, clock

LEMMA StaleStep ==
    ASSUME HerdInv, [Next]_vars, disturbed' = {}, disturbed = {} PROVE StaleOnly'
<1> SUFFICES ASSUME NEW t \in Threads, ~forced'[t]
             PROVE  /\ pc'[t] = "post" => tokens'[mgr'[t]] \in expired'
                    /\ pc'[t] = "posted" => got'[t] \in expired'
  BY DEF StaleOnly, Held
<1>0. /\ RefreshInv /\ TokenTypeOK /\ ThreadTypeOK /\ HoldsLock /\ mgr[t] \in Clients
      /\ expired \subseteq expired' /\ 0 \notin expired /\ minted \in Nat
      /\ ~forced[t] => /\ pc[t] = "post" => tokens[mgr[t]] \in expired
                       /\ pc[t] = "posted" => got[t] \in expired
  BY HerdFacts, ExpiredGrows
     DEF HerdInv, RetryHolds, RefreshInv, StaleOnly, Held, ThreadTypeOK, TokenTypeOK
<1>1. ASSUME pc'[t] = pc[t], forced'[t] = forced[t], mgr'[t] = mgr[t], got'[t] = got[t],
             ~Proceed(t)
      PROVE  /\ pc'[t] = "post" => tokens'[mgr'[t]] \in expired'
             /\ pc'[t] = "posted" => got'[t] \in expired'
  <2>1. \/ tokens'[mgr[t]] = tokens[mgr[t]] \/ tokens[mgr[t]] = 0
        \/ \E u \in Threads : AssignTokens(u) /\ mgr[u] = mgr[t]
    BY <1>0, TokensMove
  <2>2. ASSUME NEW u \in Threads, AssignTokens(u), mgr[u] = mgr[t], pc[t] = "post" PROVE FALSE
    BY <1>0, <2>2 DEF AssignTokens, Step, HoldsLock, Refreshing
  <2> QED
    BY <1>0, <1>1, <2>1, <2>2
<1>2. CASE Proceed(t)
  <2>1. CASE Recheck(t)
    <3>1. /\ UNCHANGED <<tokens, mgr>>
          /\ pc'[t] = "post" => /\ forced'[t] = forced[t] /\ ~RefreshedMeanwhile(t)
                                /\ tokens[mgr[t]] # 0
          /\ pc'[t] \in {"post", "send", "idle"}
      BY <1>0, <2>1 DEF Recheck, Ends, Step, Held, ThreadTypeOK
    <3> QED
      BY <1>0, <3>1 DEF RefreshedMeanwhile, Held
  <2>2. CASE PostGrant(t)
    <3>1. /\ pc[t] = "post"
          /\ pc'[t] = "posted" => forced'[t] = forced[t] /\ got'[t] = tokens[mgr[t]]
          /\ pc'[t] \in {"posted", "idle"}
      BY <1>0, <2>2 DEF PostGrant, Ends, Step, Held, Got, ThreadTypeOK
    <3> QED
      BY <1>0, <3>1
  <2>3. CASE LoadPersisted(t) \/ KeepPersisted(t) \/ CheckToken(t) \/ Acquire(t) \/ Granted(t)
    <3>1. pc'[t] \notin {"post", "posted"}
      BY <1>0, <2>3 DEF LoadPersisted, KeepPersisted, CheckToken, Acquire, Granted, Ends, Step,
                        ThreadTypeOK
    <3> QED
      BY <3>1
  <2>4. CASE \/ NotGranted(t) \/ AssignTokens(t) \/ SaveTokens(t) \/ SaveFails(t)
             \/ Answered(t) \/ Unauthorized(t)
    <3>1. pc'[t] \notin {"post", "posted"}
      BY <1>0, <2>4 DEF NotGranted, AssignTokens, SaveTokens, SaveFails, Answered, Unauthorized,
                        Ends, Step, ThreadTypeOK
    <3> QED
      BY <3>1
  <2> QED
    BY <1>2, <2>1, <2>2, <2>3, <2>4 DEF Proceed
<1>3. CASE ~Proceed(t) /\ \E u \in Threads : Proceed(u)
  <2>1. PICK u \in Threads : Proceed(u)
    BY <1>3
  <2>2. t \in Threads \ {u}
    BY <1>3, <2>1
  <2> QED
    BY <1>0, <1>1, <1>3, <2>1, <2>2, OneThread
<1>4. CASE ~Proceed(t) /\ \E u \in Threads : BeginRequest(u)
  <2>1. PICK u \in Threads : BeginRequest(u)
    BY <1>4
  <2>2. CASE u = t
    BY <1>0, <2>1, <2>2 DEF BeginRequest, Step, ThreadTypeOK
  <2>3. CASE u # t
    BY <1>0, <1>1, <1>4, <2>1, <2>3 DEF BeginRequest, Step, ThreadTypeOK
  <2> QED
    BY <2>2, <2>3
<1>5. CASE ~Proceed(t) /\ (Time \/ Dialog \/ Logout \/ UNCHANGED vars)
  <2>1. UNCHANGED thread
    BY <1>5 DEF Time, Dialog, SignIn, StartLogin, LoginFails, LoginAssigns, LoginSaves,
                LoginSaveFails, SignOut, ClearStorage, Logout, vars
  <2> QED
    BY <1>1, <1>5, <2>1 DEF thread
<1>6. CASE Restart
  BY <1>6 DEF Restart
<1> QED
  BY <1>2, <1>3, <1>4, <1>5, <1>6 DEF Next

LEMMA CountStep ==
    ASSUME HerdInv, [Next]_vars, RefreshInv', disturbed = {} PROVE HerdCount'
<1>0. /\ RefreshInv /\ TokenTypeOK /\ ThreadTypeOK /\ CountTypeOK /\ minted \in Nat
      /\ expired \subseteq expired' /\ Sessions /\ StaleOnly /\ HerdCount
      /\ logins \in Nat /\ rejections \in Nat /\ Countable /\ Countable'
  BY HerdFacts, CountableNext, ExpiredGrows DEF HerdInv, RetryHolds, Countable
<1>1. ASSUME NEW t \in Threads, Proceed(t),
             UNCHANGED <<issuer, logins, rejections>>,
             forced'[t] /\ pc'[t] \in {"wait", "locked", "post", "posted"} => t \in Pending
      PROVE  HerdCount'
  <2>1. Pending' \subseteq Pending
    BY <1>0, <1>1, OneThread DEF Pending
  <2> QED
    BY <1>0, <1>1, <2>1, NothingIssued
<1>2. ASSUME NEW t \in Threads, Proceed(t) PROVE HerdCount'
  <2>1. /\ \A u \in Threads \ {t} : pc'[u] = pc[u] /\ forced'[u] = forced[u]
        /\ forced[t] => pc[t] \in Refreshing \cup {"wait", "send"}
    BY <1>0, <1>2, OneThread DEF HerdInv, RetryHolds, RetryInv
  <2>2. CASE Granted(t)
    <3>1. pc'[t] = "assign"
      BY <1>0, <2>2 DEF Granted, Step, ThreadTypeOK
    <3>2. Pending' = Pending \ {t}
      BY <2>1, <3>1 DEF Pending
    <3> QED
      BY <1>0, <2>2, <3>2, Exchanged DEF Granted, Step, clock
  <2>3. CASE NotGranted(t)
    <3>1. /\ pc'[t] = "idle" /\ UNCHANGED <<clock, logins, rejections>>
          /\ UNCHANGED issuer \/ (Good(got[t]) /\ Mint(session[got[t]]))
      BY <1>0, <2>3 DEF NotGranted, Ends, Step, counted, ThreadTypeOK
    <3>2. Pending' = Pending \ {t}
      BY <2>1, <3>1 DEF Pending
    <3>3. CASE UNCHANGED issuer
      BY <1>0, <3>1, <3>2, <3>3, NothingIssued DEF clock
    <3>4. CASE Good(got[t]) /\ Mint(session[got[t]])
      BY <1>0, <2>3, <3>1, <3>2, <3>4, Exchanged DEF NotGranted, clock
    <3> QED
      BY <3>1, <3>3, <3>4
  <2>4. CASE Unauthorized(t)
    <3>1. UNCHANGED <<issuer, clock, logins>> /\ rejections' = rejections + 1 /\ pc[t] = "send"
      BY <2>4 DEF Unauthorized, Step, Ends
    <3>2. Pending' \subseteq Pending \cup {t}
      BY <2>1 DEF Pending
    <3>3. Cardinality(Pending') <= Cardinality(Pending) + 1
      <4>1. IsFiniteSet(Pending \cup {t}) /\ Cardinality(Pending \cup {t}) <= Cardinality(Pending) + 1
        <5>1. /\ IsFiniteSet(Pending \cup {t})
              /\ Cardinality(Pending \cup {t})
                     = IF t \in Pending THEN Cardinality(Pending) ELSE Cardinality(Pending) + 1
          BY <1>0, FS_AddElement DEF Countable
        <5> QED
          BY <1>0, <5>1 DEF Countable
      <4>2. Cardinality(Pending') <= Cardinality(Pending \cup {t})
        BY <3>2, <4>1, FS_Subset
      <4>3. Cardinality(Pending') \in Nat /\ Cardinality(Pending) \in Nat
            /\ Cardinality(Pending \cup {t}) \in Nat
        BY <1>0, <4>1, FS_CardinalityType DEF Countable
      <4> QED
        BY <4>1, <4>2, <4>3
    <3>4. Spent' = Spent
      BY <3>1 DEF Spent, Superseded, issuer, clock
    <3> QED
      BY <1>0, <3>1, <3>3, <3>4 DEF HerdCount, Countable, issuer
  <2>5. CASE Recheck(t) \/ PostGrant(t) \/ Acquire(t)
    <3>1. /\ UNCHANGED <<issuer, logins, rejections>>
          /\ pc[t] \in {"wait", "locked", "post"} /\ (forced'[t] = forced[t] \/ ~forced'[t])
      BY <1>0, <2>5 DEF Recheck, PostGrant, Acquire, Step, Ends, counted, ThreadTypeOK
    <3>2. forced'[t] => t \in Pending
      BY <3>1 DEF Pending
    <3> QED
      BY <1>1, <1>2, <3>1, <3>2
  <2>6. CASE CheckToken(t) \/ LoadPersisted(t) \/ KeepPersisted(t)
    <3>1. /\ UNCHANGED <<issuer, logins, rejections>>
          /\ pc[t] \in {"check", "load", "loading"} /\ (forced'[t] = forced[t] \/ ~forced'[t])
      BY <1>0, <2>6 DEF CheckToken, LoadPersisted, KeepPersisted, Step, Ends, counted, ThreadTypeOK
    <3>2. ~forced'[t]
      BY <2>1, <3>1 DEF Refreshing
    <3> QED
      BY <1>1, <1>2, <3>1, <3>2
  <2>7. CASE AssignTokens(t) \/ SaveTokens(t) \/ SaveFails(t) \/ Answered(t)
    <3>1. /\ UNCHANGED <<issuer, logins, rejections>> /\ pc'[t] \in {"save", "send", "idle"}
      BY <1>0, <2>7 DEF AssignTokens, SaveTokens, SaveFails, Answered, Step, Ends, counted,
                        ThreadTypeOK
    <3> QED
      BY <1>1, <1>2, <3>1
  <2> QED
    BY <1>2, <2>2, <2>3, <2>4, <2>5, <2>6, <2>7 DEF Proceed
<1>3. CASE LoginAssigns
  <2>1. /\ Mint(minted + 1) /\ minted' = minted + 1 /\ logins' = logins + 1
        /\ UNCHANGED <<clock, thread, rejections>>
    BY <1>3 DEF LoginAssigns, Mint
  <2>2. Pending' = Pending
    BY <2>1 DEF Pending, thread
  <2>3. Spent \subseteq Spent'
    BY <1>0, <2>1, SpentGrows DEF clock
  <2>4. Cardinality(Spent) <= Cardinality(Spent')
    BY <1>0, <2>3, FS_Subset DEF Countable
  <2> QED
    BY <1>0, <2>1, <2>2, <2>4 DEF HerdCount, Countable
<1>4. ASSUME UNCHANGED <<issuer, logins, rejections>>, Pending' \subseteq Pending PROVE HerdCount'
  BY <1>0, <1>4, NothingIssued
<1>5. CASE Time \/ Logout \/ UNCHANGED vars \/ (Dialog /\ ~LoginAssigns)
  <2>1. UNCHANGED <<issuer, logins, rejections, pc, forced>>
    BY <1>5 DEF Time, Dialog, SignIn, StartLogin, LoginFails, LoginSaves, LoginSaveFails, SignOut,
                ClearStorage, Logout, vars, thread, counted
  <2> QED
    BY <1>4, <2>1 DEF Pending
<1>6. ASSUME NEW t \in Threads, BeginRequest(t) PROVE HerdCount'
  <2>1. /\ UNCHANGED <<issuer, logins, rejections, forced>>
        /\ \A u \in Threads : pc'[u] = pc[u] \/ pc'[u] = "load"
    BY <1>0, <1>6 DEF BeginRequest, Step, counted, ThreadTypeOK
  <2> QED
    BY <1>4, <2>1 DEF Pending
<1>7. CASE Restart
  BY <1>4, <1>7 DEF Restart, counted, Pending
<1> QED
  BY <1>2, <1>3, <1>5, <1>6, <1>7 DEF Next

LEMMA HerdStart == Init => HerdInv
<1> SUFFICES ASSUME Init PROVE Sessions /\ StaleOnly /\ HerdCount
  BY RetryStart DEF HerdInv
<1>1. RefreshInv
  BY RefreshInit
<1>2. Pending = {} /\ minted = 1 /\ logins = 1 /\ rejections = 0
  BY DEF Init, Pending
<1>3. HerdCount
  BY <1>1, <1>2, HerdFacts, FS_EmptySet DEF HerdCount, Countable
<1>4. Sessions
  <2>1. 1 \in Tokens /\ \A n \in 1 .. 1 : n = 1
    BY BoundAssumption DEF Tokens
  <2> QED
    BY <2>1 DEF Init, Sessions
<1> QED
  BY <1>3, <1>4 DEF Init, StaleOnly

LEMMA HerdKept == HerdInv /\ [Next]_vars => HerdInv'
<1> SUFFICES ASSUME HerdInv, [Next]_vars PROVE HerdInv'
  OBVIOUS
<1>1. RetryHolds' /\ Sessions' /\ RefreshInv' /\ RefreshInv
  BY RetryKept, SessionsStep DEF HerdInv, RetryHolds
<1>2. disturbed' = {} => disturbed = {}
  BY <1>1, TokensMove, HerdFacts DEF CountTypeOK
<1> QED
  BY <1>1, <1>2, StaleStep, CountStep DEF HerdInv

\* No thundering herd: while only refreshes replace tokens, every token set
\* Keycloak issues is a sign-in's, or paid for by a token that went stale or by a
\* 401, whatever the number of threads.
THEOREM NoHerdHolds == Spec => []NoHerd
<1>1. HerdInv => NoHerd
  <2> SUFFICES ASSUME HerdInv, disturbed = {}
               PROVE  minted <= logins + Cardinality(expired) + rejections
    BY DEF NoHerd
  <2>1. RefreshInv /\ HerdCount
    BY DEF HerdInv, RetryHolds
  <2> QED
    BY <2>1, HerdFacts DEF HerdCount, Countable
<1> QED
  BY <1>1, HerdStart, HerdKept, PTL DEF Spec
=============================================================================
