------------------------- MODULE CloneSyncSafety -------------------------
(***************************************************************************)
(* What a push may never do, proved for every value of the constants and   *)
(* so for every environment, however many pushes are out at once: no local *)
(* row ever makes two portal features (OneCopyPerRow), the plan on screen  *)
(* is the one the file yields (ReplanIsSamePlan), a row the user chose to  *)
(* leave alone is left alone (SkipHonoured), a colleague's edit is written *)
(* over in silence only where the stamps cannot tell (ConflictWindow), and *)
(* the refresh after a push leaves nothing to send (RefreshSettles).  And, *)
(* of environments that are Steady, what the baseline says was sent was    *)
(* sent (SyncedMeansSent), and no deletion is forgotten                    *)
(* (DeletionsStayPending).                                                 *)
(*                                                                         *)
(* None of them is inductive alone.  That a create sent again names the    *)
(* feature its row already made rests on what stamping did before the first*)
(* request went out and on the order in which rows claim an id; that an    *)
(* edit was warned about rests on comparing the snapshot's stamps with the *)
(* portal's.                                                               *)
(***************************************************************************)
EXTENDS CloneSyncProofs

-----------------------------------------------------------------------------
(* Tasks and the dialog.                                                   *)

\* From the stamping of the ids to the end of the push.
InPush == {"stamped", "unread", "asking", "pushing"}

\* A push has a task from the end of its check on, which sends what the dialog
\* planned, one request at a time.
TaskInv(k) ==
    /\ k > pushes => at[k] = "idle"
    /\ at[k] = "idle" => ops[k] = {}
    /\ todo[k] \subseteq ops[k] /\ inflight[k] \subseteq ops[k]
    /\ todo[k] \cap inflight[k] = {} /\ \A o, p \in inflight[k] : o = p
    /\ at[k] # "sending" => inflight[k] = {}
    /\ at[k] = "complete" => todo[k] = {}

ScreenInv ==
    /\ phase = "closed" => plan = {}
    /\ phase \in InPush => pushes \in Pushes
    /\ phase \in {"stamped", "unread", "asking"} => at[pushes] = "idle"
    /\ phase = "pushing" => at[pushes] # "idle" /\ ops[pushes] \subseteq plan

TasksInv == ScreenInv /\ \A k \in Pushes : TaskInv(k)

LEMMA TasksInit == Init => TasksInv
<1> SUFFICES ASSUME Init PROVE TasksInv
  OBVIOUS
<1>1. /\ phase = "closed" /\ plan = {} /\ ops = [k \in Pushes |-> {}]
      /\ at = [k \in Pushes |-> "idle"] /\ todo = ops /\ inflight = ops
  BY DEF Init
<1> QED
  BY <1>1 DEF TasksInv, ScreenInv, TaskInv, InPush

\* What a callback does to the dialog and to the task it ends.
LEMMA CallbackEffect ==
    ASSUME TypeOK, TasksInv, NEW k \in Pushes, Callback(k)
    PROVE  /\ at[k] \in {"complete", "cancelled"} /\ at' = [at EXCEPT ![k] = "idle"]
           /\ ops' = [ops EXCEPT ![k] = {}] /\ todo' = [todo EXCEPT ![k] = {}]
           /\ inflight' = inflight /\ inflight[k] = {}
           /\ phase # "stamped"
           /\ UNCHANGED <<local, lastFid, issued, portal, sent, origin, foreign, boundVars>>
           /\ OnScreen(k) => phase' \in {"open", "closed"}
           /\ ~OnScreen(k) => UNCHANGED <<phase, plan, conflicts>>
           /\ plan' = plan \/ (plan' = {} /\ phase' = "closed")
           /\ phase' = "closed" /\ phase # "closed" => plan' = {}
<1>1. Returned(k) /\ TaskOver(k)
  BY DEF Callback, PushIncomplete, RefreshBaseline, RefreshFails, RefreshDropsTable
<1>2. PushIncomplete(k) \/ Accept(k)
  BY DEF Callback, RefreshBaseline, RefreshFails, RefreshDropsTable
<1>3. inflight[k] = {}
  BY <1>1 DEF TasksInv, TaskInv, Returned
<1>4. /\ at[k] \in {"complete", "cancelled"} /\ at' = [at EXCEPT ![k] = "idle"]
      /\ ops' = [ops EXCEPT ![k] = {}] /\ todo' = [todo EXCEPT ![k] = {}]
      /\ inflight' = inflight /\ phase # "stamped"
      /\ UNCHANGED <<local, lastFid, issued, portal, sent, origin, foreign, boundVars>>
  BY <1>1 DEF Returned, TaskOver
<1>5. CASE PushIncomplete(k)
  BY <1>3, <1>4, <1>5 DEF PushIncomplete, OnScreen
<1>6. CASE Accept(k)
  BY <1>3, <1>4, <1>6 DEF Accept, LeaveScreen, OnScreen
<1> QED
  BY <1>2, <1>5, <1>6

\* A task that a step leaves alone.
LEMMA TaskKept ==
    ASSUME NEW k \in Pushes, TaskInv(k), pushes \in Nat, pushes' \in Nat, pushes <= pushes',
           at'[k] = at[k], ops'[k] = ops[k], todo'[k] = todo[k], inflight'[k] = inflight[k]
    PROVE  TaskInv(k)'
<1>1. k \in Nat
  BY BoundAssumption DEF Pushes
<1>2. k > pushes' => k > pushes
  BY <1>1
<1> QED
  BY <1>2 DEF TaskInv

\* A task is started by a dialog that has none out.
LEMMA StartEffect ==
    ASSUME TypeOK, TasksInv, phase \in {"stamped", "unread", "asking"},
           NEW work \in SUBSET plan, NEW agreed, NEW skipped,
           StartTask(work, agreed, skipped)
    PROVE  /\ pushes \in Pushes /\ phase' = "pushing" /\ plan' = plan
           /\ at'[pushes] = "sending" /\ ops'[pushes] = work /\ todo'[pushes] = work
           /\ inflight' = inflight /\ inflight[pushes] = {}
           /\ at[pushes] = "idle" /\ ops[pushes] = {}
           /\ \A k \in Pushes \ {pushes} :
                 at'[k] = at[k] /\ ops'[k] = ops[k] /\ todo'[k] = todo[k]
<1>1. pushes \in Pushes /\ at[pushes] = "idle"
  BY DEF TasksInv, ScreenInv, InPush
<1>2. inflight[pushes] = {} /\ ops[pushes] = {}
  BY <1>1 DEF TasksInv, TaskInv
<1> QED
  BY <1>1, <1>2 DEF StartTask, TypeOK, TasksTypeOK

LEMMA TasksStep == TypeOK /\ TasksInv /\ [Next]_vars => TasksInv'
<1> SUFFICES ASSUME TypeOK, TasksInv, [Next]_vars PROVE TasksInv'
  OBVIOUS
<1>0. TasksTypeOK /\ ScreenInv /\ (\A k \in Pushes : TaskInv(k)) /\ pushes \in Nat
      /\ Pushes \subseteq Nat
  BY BoundAssumption DEF TypeOK, TasksInv, BoundTypeOK, Pushes
<1>1. CASE UNCHANGED <<at, ops, todo, inflight, phase, plan, pushes>>
  BY <1>0, <1>1 DEF TasksInv, ScreenInv, TaskInv
<1>2. ASSUME NEW work \in SUBSET plan, NEW agreed, NEW skipped,
             StartTask(work, agreed, skipped), phase \in {"stamped", "unread", "asking"},
             pushes' = pushes
      PROVE  TasksInv'
  <2>1. /\ pushes \in Pushes /\ phase' = "pushing" /\ plan' = plan
        /\ at'[pushes] = "sending" /\ ops'[pushes] = work /\ todo'[pushes] = work
        /\ inflight' = inflight /\ inflight[pushes] = {}
        /\ \A k \in Pushes \ {pushes} :
              at'[k] = at[k] /\ ops'[k] = ops[k] /\ todo'[k] = todo[k]
    BY <1>2, StartEffect
  <2>2. ScreenInv'
    BY <1>2, <2>1 DEF ScreenInv, InPush
  <2>3. ASSUME NEW k \in Pushes PROVE TaskInv(k)'
    <3>1. CASE k = pushes
      BY <1>0, <1>2, <2>1, <3>1 DEF TaskInv
    <3>2. CASE k # pushes
      <4>1. at'[k] = at[k] /\ ops'[k] = ops[k] /\ todo'[k] = todo[k] /\ inflight'[k] = inflight[k]
        BY <2>1, <3>2
      <4> QED
        BY <1>0, <1>2, <4>1 DEF TaskInv
    <3> QED
      BY <3>1, <3>2
  <2> QED
    BY <2>2, <2>3 DEF TasksInv
<1>3. CASE /\ UNCHANGED <<at, ops, todo, inflight, pushes>>
           /\ \/ phase' = "closed" /\ plan' = {}
              \/ phase' = "open"
              \/ phase = "stamped" /\ phase' \in {"unread", "asking"} /\ plan' = plan
  BY <1>0, <1>3 DEF TasksInv, ScreenInv, TaskInv, InPush
<1>4. CASE StampMintedIds
  <2>1. /\ pushes < MaxPush /\ pushes' = pushes + 1 /\ phase' = "stamped" /\ plan' = plan
        /\ UNCHANGED <<at, ops, todo, inflight>>
    BY <1>4 DEF StampMintedIds, taskVars
  <2>2. pushes' \in Pushes
    BY <1>0, <2>1, BoundAssumption DEF Pushes
  <2>3. at[pushes'] = "idle"
    BY <1>0, <2>1, <2>2 DEF TaskInv
  <2>4. ScreenInv'
    BY <2>1, <2>2, <2>3 DEF ScreenInv, InPush
  <2>5. ASSUME NEW k \in Pushes PROVE TaskInv(k)'
    BY <1>0, <2>1, TaskKept
  <2> QED
    BY <2>4, <2>5 DEF TasksInv
<1>5. CASE CheckConflicts
  <2>1. phase = "stamped" /\ pushes' = pushes
    BY <1>5 DEF CheckConflicts, boundVars
  <2>2. CASE StartTask(plan, {}, {})
    BY <1>2, <2>1, <2>2
  <2>3. CASE ~StartTask(plan, {}, {})
    BY <1>3, <1>5, <2>1, <2>3 DEF CheckConflicts
  <2> QED
    BY <2>2, <2>3
<1>6. CASE SendUnchecked \/ OverwriteConflicts
  BY <1>2, <1>6 DEF SendUnchecked, OverwriteConflicts, boundVars
<1>7. CASE SkipConflicts
  <2>1. WithoutConflicts(plan, conflicts) \subseteq plan
    BY DEF WithoutConflicts
  <2> QED
    BY <1>2, <1>3, <1>7, <2>1 DEF SkipConflicts, BackToOpen, boundVars
<1>8. CASE OpenDialog \/ CheckFails \/ AbandonPush \/ CloseDialog \/ DismissDuringPush
  BY <1>3, <1>8 DEF OpenDialog, CheckFails, AbandonPush, BackToOpen, CloseDialog,
                    DismissDuringPush, LeaveScreen, taskVars, boundVars
<1>9. ASSUME NEW k \in Pushes, Worker(k) PROVE TasksInv'
  <2>1. /\ UNCHANGED <<ops, phase, plan, pushes>> /\ at[k] = "sending" /\ at'[k] # "idle"
        /\ \A j \in Pushes \ {k} :
              at'[j] = at[j] /\ todo'[j] = todo[j] /\ inflight'[j] = inflight[j]
    BY <1>0, <1>9 DEF Worker, WorkerTake, WorkerDone, WorkerReturn, dialogVars, boundVars,
                      TasksTypeOK
  <2>2. ScreenInv'
    BY <1>0, <2>1 DEF ScreenInv, InPush
  <2>3. ASSUME NEW j \in Pushes, j # k PROVE TaskInv(j)'
    <3>1. at'[j] = at[j] /\ todo'[j] = todo[j] /\ inflight'[j] = inflight[j]
      BY <2>1, <2>3
    <3> QED
      BY <1>0, <2>1, <2>3, <3>1, TaskKept
  <2>4. TaskInv(k)'
    <3>1. CASE WorkerTake(k)
      <4>1. PICK op \in todo[k] : inflight' = [inflight EXCEPT ![k] = {op}]
                                  /\ todo' = [todo EXCEPT ![k] = @ \ {op}]
        BY <3>1 DEF WorkerTake
      <4>2. inflight'[k] = {op} /\ todo'[k] = todo[k] \ {op} /\ at' = at
        BY <1>0, <3>1, <4>1 DEF WorkerTake, TasksTypeOK
      <4> QED
        BY <1>0, <2>1, <4>2 DEF TaskInv
    <3>2. CASE WorkerDone(k)
      <4>1. inflight'[k] = {} /\ todo' = todo /\ at' = at
        BY <1>0, <3>2 DEF WorkerDone, TasksTypeOK
      <4> QED
        BY <1>0, <2>1, <4>1 DEF TaskInv
    <3>3. CASE WorkerReturn(k)
      <4>1. /\ inflight' = inflight /\ inflight[k] = {} /\ todo' = todo
            /\ at'[k] = IF todo[k] = {} THEN "complete" ELSE "cancelled"
        BY <1>0, <3>3 DEF WorkerReturn, TasksTypeOK
      <4> QED
        BY <1>0, <2>1, <4>1 DEF TaskInv
    <3> QED
      BY <1>9, <3>1, <3>2, <3>3 DEF Worker
  <2> QED
    BY <2>2, <2>3, <2>4 DEF TasksInv
<1>10. ASSUME NEW k \in Pushes, Callback(k) PROVE TasksInv'
  <2>1. /\ at' = [at EXCEPT ![k] = "idle"] /\ ops' = [ops EXCEPT ![k] = {}]
        /\ todo' = [todo EXCEPT ![k] = {}] /\ inflight' = inflight /\ inflight[k] = {}
        /\ pushes' = pushes
        /\ OnScreen(k) => phase' \in {"open", "closed"}
        /\ ~OnScreen(k) => UNCHANGED <<phase, plan>>
        /\ phase' = "closed" /\ phase # "closed" => plan' = {}
        /\ at[k] # "idle"
    BY <1>10, CallbackEffect DEF boundVars
  <2>2. ScreenInv'
    <3>1. CASE OnScreen(k)
      BY <2>1, <3>1 DEF ScreenInv, OnScreen, InPush
    <3>2. CASE ~OnScreen(k)
      <4>1. phase \in InPush => pushes # k
        BY <1>0, <2>1, <3>2 DEF ScreenInv, OnScreen, InPush
      <4>2. UNCHANGED <<phase, plan, pushes>>
        BY <2>1, <3>2
      <4>3. phase \in InPush => at'[pushes] = at[pushes] /\ ops'[pushes] = ops[pushes]
        BY <1>0, <2>1, <4>1 DEF ScreenInv, TasksTypeOK
      <4> QED
        BY <1>0, <4>2, <4>3 DEF ScreenInv, InPush
    <3> QED
      BY <3>1, <3>2
  <2>3. ASSUME NEW j \in Pushes PROVE TaskInv(j)'
    <3>1. CASE j = k
      BY <1>0, <2>1, <3>1 DEF TaskInv, TasksTypeOK
    <3>2. CASE j # k
      <4>1. at'[j] = at[j] /\ ops'[j] = ops[j] /\ todo'[j] = todo[j] /\ inflight'[j] = inflight[j]
        BY <1>0, <2>1, <3>2 DEF TasksTypeOK
      <4> QED
        BY <1>0, <2>1, <4>1, TaskKept
    <3> QED
      BY <3>1, <3>2
  <2> QED
    BY <2>2, <2>3 DEF TasksInv
<1>11. CASE Crash
  BY <1>11 DEF Crash, LeaveScreen, TasksInv, ScreenInv, TaskInv, InPush
<1>12. CASE User
  <2>1. UNCHANGED <<dialogVars, taskVars, pushes>>
    BY <1>12, UserStep
  <2> QED
    BY <1>1, <2>1 DEF dialogVars, taskVars
<1>13. CASE Others \/ UNCHANGED vars
  BY <1>1, <1>13 DEF Others, RemoteEdit, RemoteDelete, vars, dialogVars, taskVars, boundVars
<1> QED
  BY <1>4, <1>5, <1>6, <1>7, <1>8, <1>9, <1>10, <1>11, <1>12, <1>13 DEF Next, Dialog, Check

-----------------------------------------------------------------------------
(* One feature per row.                                                    *)

\* The row f, if it is still there, owns the id i.
Claims(rows, f, i) == f \in DOMAIN rows => rows[f].gid = i /\ Owns(rows, f)

\* ... and nobody else ever will.
Settled(i, f) == f <= lastFid /\ i \in issued /\ Claims(local, f, i)

\* The creates the dialog shows, and those some task was given.
Creating == {op \in plan : op.kind = "create"}
Making == {op \in UNION {ops[k] : k \in Pushes} : op.kind = "create"}

\* Every feature's row owns its id, and that id is in circulation.
OriginsSettled == \A i \in Ids : \A f \in origin[i] : Settled(i, f)

\* No two creates of one plan share a row or an id.
CreatesApart == \A o, p \in Creating : o.fid = p.fid <=> o.id = p.id

\* Whoever creates a row names the feature it already made, or the one another
\* task is making of it.
OneId ==
    \A o \in Creating \cup Making :
        /\ \A i \in Ids : o.fid \in origin[i] => i = o.id
        /\ \A p \in Creating \cup Making : o.fid = p.fid => o.id = p.id

\* Before the ids are stamped each is the row's own or a new one ...
BeforeStamping ==
    phase = "open" =>
        \A op \in Creating :
            op.fid <= lastFid
            /\ (Claims(local, op.fid, op.id) \/ op.id \notin issued \cup Drawn)

\* ... and from then on the row's own.
AfterStamping ==
    /\ phase \in InPush => \A op \in Creating : Settled(op.id, op.fid)
    /\ \A op \in Making : Settled(op.id, op.fid)

RowsIssued == \A f \in DOMAIN local : local[f].gid \in issued \cup Drawn \cup {NoId}

OneCopyInv ==
    /\ OriginsSettled /\ CreatesApart /\ OneId
    /\ BeforeStamping /\ AfterStamping /\ RowsIssued
    /\ OneCopyPerRow

-----------------------------------------------------------------------------
(* What editing and stamping do to the ids of rows.                        *)

LEMMA EditedGids ==
    ASSUME TypeOK, User
    PROVE  /\ lastFid \in Nat /\ lastFid' \in Nat /\ lastFid <= lastFid'
           /\ \A f \in DOMAIN local' : f <= lastFid
                 => f \in DOMAIN local /\ local'[f].gid = local[f].gid
           /\ \A f \in DOMAIN local' : ~(f <= lastFid)
                 => local'[f].gid \in issued \cup Drawn \cup {NoId}
<1>0. /\ lastFid \in Nat /\ NCloned <= lastFid /\ DOMAIN local \subseteq 1 .. lastFid
  BY CloneAssumption DEF TypeOK, FileTypeOK
<1>d. lastFid < MaxFid => DrawnId[lastFid + 1] \in Drawn \cup {NoId}
  BY <1>0, DrawnIdType DEF Drawn
<1>1. ASSUME NEW f \in Fids, NEW c \in Content, EditRow(f, c)
      PROVE  /\ lastFid' = lastFid /\ DOMAIN local' = DOMAIN local
             /\ \A g \in DOMAIN local : local'[g].gid = local[g].gid
  BY <1>1 DEF EditRow, SaveRows, OfContent
<1>2. ASSUME NEW c \in Content, AddRow(c)
      PROVE  /\ lastFid' = lastFid + 1 /\ DOMAIN local' = DOMAIN local \cup {lastFid'}
             /\ local'[lastFid'].gid \in Drawn \cup {NoId}
             /\ \A g \in DOMAIN local : local'[g].gid = local[g].gid
  BY <1>0, <1>d, <1>2 DEF AddRow, SaveRows, OfContent
<1>3. ASSUME NEW f \in Fids, SplitRow(f)
      PROVE  /\ lastFid' = lastFid + 1 /\ DOMAIN local' = DOMAIN local \cup {lastFid'}
             /\ local'[lastFid'].gid \in issued \cup Drawn \cup {NoId}
             /\ \A g \in DOMAIN local : local'[g].gid = local[g].gid
  <2> DEFINE Part(i, g) == OfContent(i, [attr |-> local[f].attr, geom |-> g])
  <2>1. PICK g1, g2 \in Geoms :
           /\ lastFid' = lastFid + 1 /\ lastFid < MaxFid /\ f \in DOMAIN local
           /\ local' = [h \in DOMAIN local \cup {lastFid'} |->
                            IF h = f THEN Part(local[f].gid, g1)
                            ELSE IF h = lastFid' THEN Part(CopiedId(f), g2) ELSE local[h]]
    BY <1>3 DEF SplitRow, SaveRows
  <2>2. \A i, g : Part(i, g).gid = i
    BY DEF OfContent
  <2>3. CopiedId(f) \in issued \cup Drawn \cup {NoId}
    BY <1>d, <2>1 DEF CopiedId
  <2> HIDE DEF Part
  <2> QED
    BY <1>0, <2>1, <2>2, <2>3
<1>4. ASSUME NEW f \in Fids, DeleteRow(f)
      PROVE  /\ lastFid' = lastFid /\ DOMAIN local' \subseteq DOMAIN local
             /\ \A g \in DOMAIN local' : local'[g].gid = local[g].gid
  BY <1>4 DEF DeleteRow, SaveRows
<1>5. CASE \E f \in Fids, c \in Content : EditRow(f, c)
  BY <1>0, <1>1, <1>5
<1>6. CASE \E c \in Content : AddRow(c)
  <2>1. PICK c \in Content : AddRow(c)
    BY <1>6
  <2>2. ASSUME NEW f \in DOMAIN local', f <= lastFid PROVE f \in DOMAIN local
    BY <1>0, <1>2, <2>1, <2>2
  <2>3. ASSUME NEW f \in DOMAIN local', ~(f <= lastFid) PROVE f = lastFid'
    BY <1>0, <1>2, <2>1, <2>3
  <2> QED
    BY <1>0, <1>2, <2>1, <2>2, <2>3
<1>7. CASE \E f \in Fids : SplitRow(f)
  <2>1. PICK h \in Fids : SplitRow(h)
    BY <1>7
  <2>2. ASSUME NEW f \in DOMAIN local', f <= lastFid PROVE f \in DOMAIN local
    BY <1>0, <1>3, <2>1, <2>2
  <2>3. ASSUME NEW f \in DOMAIN local', ~(f <= lastFid) PROVE f = lastFid'
    BY <1>0, <1>3, <2>1, <2>3
  <2> QED
    BY <1>0, <1>3, <2>1, <2>2, <2>3
<1>8. CASE \E f \in Fids : DeleteRow(f)
  BY <1>0, <1>4, <1>8
<1> QED
  BY <1>5, <1>6, <1>7, <1>8 DEF User

\* New rows come after the old ones, so an old row keeps what it claims.
LEMMA EditsKeepClaims ==
    ASSUME TypeOK, User, NEW f \in Nat, f <= lastFid, NEW i, Claims(local, f, i)
    PROVE  Claims(local', f, i)
<1> SUFFICES ASSUME f \in DOMAIN local' PROVE local'[f].gid = i /\ Owns(local', f)
  BY DEF Claims
<1>1. f \in DOMAIN local /\ local'[f].gid = local[f].gid
  BY EditedGids
<1>2. local[f].gid = i /\ Owns(local, f)
  BY <1>1 DEF Claims
<1>3. DOMAIN local' \subseteq Nat
  BY FileTypeStep DEF FileTypeOK, Next
<1>4. ASSUME NEW g \in DOMAIN local', g < f PROVE local'[g].gid # local'[f].gid
  <2>1. g <= lastFid
    BY <1>3, <1>4, EditedGids
  <2>2. g \in DOMAIN local /\ local'[g].gid = local[g].gid
    BY <2>1, EditedGids
  <2> QED
    BY <1>1, <1>2, <1>4, <2>2 DEF Owns
<1> QED
  BY <1>1, <1>2, <1>4 DEF Owns

\* A stamped row carries the id of a create of that row, or keeps its own.
LEMMA StampedGid ==
    ASSUME NEW f \in DOMAIN local
    PROVE  \/ \E op \in Creating : op.fid = f /\ Stamped(local, plan)[f].gid = op.id
           \/ /\ \A op \in Creating : op.fid # f
              /\ Stamped(local, plan)[f].gid = local[f].gid
<1>1. CASE CreatesRow(plan, f)
  <2> DEFINE op == CHOOSE o \in plan : o.kind = "create" /\ o.fid = f
  <2>1. op \in plan /\ op.kind = "create" /\ op.fid = f
    BY <1>1 DEF CreatesRow
  <2>2. Stamped(local, plan)[f].gid = op.id
    BY <1>1 DEF Stamped, WithMintedId, OfContent
  <2> QED
    BY <2>1, <2>2 DEF Creating
<1>2. CASE ~CreatesRow(plan, f)
  BY <1>2 DEF Stamped, CreatesRow, Creating
<1> QED
  BY <1>1, <1>2

-----------------------------------------------------------------------------
(* The steps.                                                              *)

\* Most steps leave the rows, the ids and the origins alone, keep the plan or
\* drop it, and give a task nothing but what is planned.
LEMMA QuietStep ==
    ASSUME OneCopyInv,
           UNCHANGED <<local, lastFid, issued, origin>>,
           plan' = plan \/ plan' = {},
           \/ phase' = phase \/ phase' = "closed"
           \/ phase \in InPush /\ phase' \in InPush \cup {"open"},
           \A k \in Pushes : ops'[k] \subseteq ops[k] \cup (IF phase \in InPush THEN plan ELSE {})
    PROVE  OneCopyInv'
<1>1. Creating' \subseteq Creating
  BY DEF Creating
<1>2. Making' \subseteq Making \cup (IF phase \in InPush THEN Creating ELSE {})
  BY DEF Making, Creating
<1>3. \A f, i : (Claims(local, f, i)' <=> Claims(local, f, i)) /\ (Settled(i, f)' <=> Settled(i, f))
  BY DEF Settled, Claims, Owns
<1>4. OriginsSettled' /\ OneCopyPerRow' /\ RowsIssued'
  BY <1>3 DEF OneCopyInv, OriginsSettled, OneCopyPerRow, RowsIssued
<1>5. CreatesApart' /\ OneId'
  BY <1>1, <1>2 DEF OneCopyInv, CreatesApart, OneId
<1>6. BeforeStamping'
  BY <1>1, <1>3 DEF OneCopyInv, BeforeStamping, AfterStamping, Settled, InPush
<1>7. AfterStamping'
  BY <1>1, <1>2, <1>3 DEF OneCopyInv, AfterStamping, InPush
<1> QED
  BY <1>4, <1>5, <1>6, <1>7 DEF OneCopyInv

LEMMA EditKeepsInv ==
    ASSUME TypeOK, OneCopyInv, User
    PROVE  OneCopyInv'
<1>0. UNCHANGED <<origin, issued, phase, plan, ops>> /\ phase = "closed"
  BY UserStep DEF portalVars, dialogVars, taskVars, CanEdit
<1>1. /\ lastFid \in Nat /\ lastFid' \in Nat /\ lastFid <= lastFid'
      /\ Creating' = Creating /\ Making' = Making
  BY <1>0, EditedGids DEF Creating, Making
<1>2. \A i \in Ids : origin[i] \subseteq Nat
  BY DEF TypeOK, PortalTypeOK, Fids
<1>3. \A op \in Making : op.fid \in Nat
  BY DEF Making, TypeOK, TasksTypeOK, Op, Fids
<1>4. ASSUME NEW i, NEW f \in Nat, Settled(i, f) PROVE Settled(i, f)'
  BY <1>0, <1>1, <1>4, EditsKeepClaims DEF Settled, Claims, Owns
<1>5. OriginsSettled' /\ AfterStamping'
  BY <1>0, <1>1, <1>2, <1>3, <1>4 DEF OneCopyInv, OriginsSettled, AfterStamping, InPush
<1>6. CreatesApart' /\ OneId' /\ OneCopyPerRow' /\ BeforeStamping'
  BY <1>0, <1>1 DEF OneCopyInv, CreatesApart, OneId, OneCopyPerRow, BeforeStamping
<1>7. RowsIssued'
  <2> SUFFICES ASSUME NEW f \in DOMAIN local'
               PROVE  local'[f].gid \in issued \cup Drawn \cup {NoId}
    BY <1>0 DEF RowsIssued
  <2>1. CASE f <= lastFid
    BY <2>1, EditedGids DEF OneCopyInv, RowsIssued
  <2>2. CASE ~(f <= lastFid)
    BY <2>2, EditedGids
  <2> QED
    BY <2>1, <2>2
<1> QED
  BY <1>5, <1>6, <1>7 DEF OneCopyInv

\* The create a plan holds for the row f, and the id it names.
LEMMA PlannedCreate ==
    ASSUME NEW rows, NEW base, NEW mint,
           NEW op \in PlanOps(rows, base, mint), op.kind = "create"
    PROVE  /\ op.fid \in DOMAIN rows
           /\ op.id = IF Owns(rows, op.fid) THEN rows[op.fid].gid ELSE mint[op.fid]
<1>1. op \in Creates(rows, base, mint)
  BY DEF PlanOps, Updates, Deletes, OpFor
<1> QED
  BY <1>1 DEF Creates, OpFor

LEMMA OpenKeepsInv ==
    ASSUME TypeOK, OneCopyInv, OpenDialog
    PROVE  OneCopyInv'
<1>0. /\ UNCHANGED <<portalVars, fileVars, taskVars>> /\ phase = "closed" /\ phase' = "open"
      /\ Making' = Making
  BY DEF OpenDialog, taskVars, Making
<1>1. PICK mint \in Mintings(local, issued) : plan' = PlanOps(local, baseline, mint)
  BY DEF OpenDialog
<1>2. \A op \in Creating' :
         /\ op.fid \in DOMAIN local
         /\ op.id = IF Owns(local, op.fid) THEN local[op.fid].gid ELSE mint[op.fid]
  BY <1>1, PlannedCreate DEF Creating
<1>3. /\ \A f \in DOMAIN local : ~Owns(local, f) => mint[f] \notin issued \cup Drawn
      /\ \A f, g \in DOMAIN local :
            ~Owns(local, f) /\ ~Owns(local, g) /\ mint[f] = mint[g] => f = g
  BY DEF Mintings
<1>4. /\ DOMAIN local \subseteq Nat /\ \A f \in DOMAIN local : f <= lastFid
  BY CloneAssumption DEF TypeOK, FileTypeOK
<1>5. \A f, g \in DOMAIN local :
         Owns(local, f) /\ Owns(local, g) /\ local[f].gid = local[g].gid => f = g
  BY <1>4 DEF Owns
<1>6. \A f \in DOMAIN local : Owns(local, f) => local[f].gid \in issued \cup Drawn
  BY DEF Owns, OneCopyInv, RowsIssued
<1>7. CreatesApart'
  <2> SUFFICES ASSUME NEW o \in Creating', NEW p \in Creating'
               PROVE  o.fid = p.fid <=> o.id = p.id
    BY DEF CreatesApart
  <2>1. o.fid = p.fid => o.id = p.id
    BY <1>2
  <2>2. o.id = p.id => o.fid = p.fid
    BY <1>2, <1>3, <1>5, <1>6
  <2> QED
    BY <2>1, <2>2
<1>8. ASSUME NEW op \in Creating', NEW i, Settled(i, op.fid) PROVE i = op.id
  <2>1. local[op.fid].gid = i /\ Owns(local, op.fid)
    BY <1>2, <1>8 DEF Settled, Claims
  <2> QED
    BY <1>2, <2>1
<1>9. OneId'
  <2> SUFFICES ASSUME NEW o \in Creating' \cup Making
               PROVE  /\ \A i \in Ids : o.fid \in origin[i] => i = o.id
                      /\ \A p \in Creating' \cup Making : o.fid = p.fid => o.id = p.id
    BY <1>0 DEF OneId, portalVars
  <2>1. ASSUME NEW i \in Ids, o.fid \in origin[i] PROVE i = o.id
    BY <1>8, <2>1 DEF OneCopyInv, OneId, OriginsSettled
  <2>2. ASSUME NEW p \in Creating' \cup Making, o.fid = p.fid PROVE o.id = p.id
    <3>1. CASE o \in Making /\ p \in Making
      BY <2>2, <3>1 DEF OneCopyInv, OneId
    <3>2. CASE o \in Creating' /\ p \in Making
      <4>1. Settled(p.id, o.fid)
        BY <2>2, <3>2 DEF OneCopyInv, AfterStamping
      <4> QED
        BY <1>8, <3>2, <4>1
    <3>3. CASE p \in Creating' /\ o \in Making
      <4>1. Settled(o.id, p.fid)
        BY <2>2, <3>3 DEF OneCopyInv, AfterStamping
      <4> QED
        BY <1>8, <3>3, <4>1
    <3>4. CASE o \in Creating' /\ p \in Creating'
      BY <1>7, <2>2, <3>4 DEF CreatesApart
    <3> QED
      BY <3>1, <3>2, <3>3, <3>4
  <2> QED
    BY <2>1, <2>2
<1>10. BeforeStamping'
  <2> SUFFICES ASSUME NEW op \in Creating'
               PROVE  op.fid <= lastFid
                      /\ (Claims(local, op.fid, op.id) \/ op.id \notin issued \cup Drawn)
    BY <1>0 DEF BeforeStamping, fileVars, Claims, Owns
  <2> QED
    BY <1>2, <1>3, <1>4 DEF Claims
<1>11. OriginsSettled' /\ RowsIssued' /\ OneCopyPerRow'
  BY <1>0 DEF OneCopyInv, OriginsSettled, RowsIssued, OneCopyPerRow, Settled, Claims, Owns,
              portalVars, fileVars
<1>12. AfterStamping'
  BY <1>0 DEF OneCopyInv, AfterStamping, InPush, Settled, Claims, Owns, fileVars
<1> QED
  BY <1>7, <1>9, <1>10, <1>11, <1>12 DEF OneCopyInv

LEMMA StampKeepsInv ==
    ASSUME TypeOK, OneCopyInv, StampMintedIds
    PROVE  OneCopyInv'
<1>0. /\ UNCHANGED <<portalVars, lastFid, plan, taskVars>>
      /\ phase = "open" /\ phase' = "stamped"
      /\ local' = Stamped(local, plan) /\ issued' = issued \cup {op.id : op \in Creating}
      /\ DOMAIN local' = DOMAIN local
  BY DEF StampMintedIds, Stamped, Creating
<1>a. Creating' = Creating /\ Making' = Making
  BY <1>0 DEF Creating, Making, taskVars
<1>b. DOMAIN local \subseteq Nat
  BY DEF TypeOK, FileTypeOK
<1>1. ASSUME NEW f \in DOMAIN local
      PROVE  \/ \E op \in Creating : op.fid = f /\ local'[f].gid = op.id
             \/ (\A op \in Creating : op.fid # f) /\ local'[f].gid = local[f].gid
  BY <1>0, StampedGid
<1>2. \A op \in Creating : Claims(local, op.fid, op.id) \/ op.id \notin issued \cup Drawn
  BY <1>0 DEF OneCopyInv, BeforeStamping
<1>3. \A o, p \in Creating : o.fid = p.fid <=> o.id = p.id
  BY DEF OneCopyInv, CreatesApart
<1>4. \A f \in DOMAIN local : local[f].gid \in issued \cup Drawn \cup {NoId}
  BY DEF OneCopyInv, RowsIssued
<1>5. \A op \in Creating : op.id \in Ids /\ op.id # NoId /\ op.id \in issued'
  BY <1>0, ValueAssumption DEF Creating, TypeOK, DialogTypeOK, Op
\* An id in circulation stays with the row that owns it.
<1>6. ASSUME NEW i \in Ids, NEW f, Settled(i, f), \A op \in Creating : op.fid = f => op.id = i
      PROVE  Settled(i, f)'
  <2>0. f <= lastFid' /\ i \in issued /\ i \in issued'
    BY <1>0, <1>6 DEF Settled
  <2> SUFFICES ASSUME f \in DOMAIN local PROVE local'[f].gid = i /\ Owns(local', f)
    BY <1>0, <2>0 DEF Settled, Claims
  <2>1. local[f].gid = i /\ Owns(local, f)
    BY <1>6 DEF Settled, Claims
  <2>2. local'[f].gid = i
    BY <1>1, <1>6, <2>1
  <2>3. ASSUME NEW g \in DOMAIN local, g < f PROVE local'[g].gid # i
    <3>1. local[g].gid # i
      BY <2>1, <2>3 DEF Owns
    <3>2. ASSUME NEW op \in Creating, op.fid = g PROVE op.id # i
      BY <1>2, <2>0, <3>1, <3>2 DEF Claims
    <3> QED
      BY <1>1, <3>1, <3>2
  <2> QED
    BY <1>0, <2>2, <2>3, ValueAssumption DEF Owns
<1>7. ASSUME NEW op \in Creating PROVE Settled(op.id, op.fid)'
  <2>0. op.fid <= lastFid' /\ op.id \in issued'
    BY <1>0, <1>5 DEF OneCopyInv, BeforeStamping
  <2> SUFFICES ASSUME op.fid \in DOMAIN local
               PROVE  local'[op.fid].gid = op.id /\ Owns(local', op.fid)
    BY <1>0, <2>0 DEF Settled, Claims
  <2>1. local'[op.fid].gid = op.id
    BY <1>1, <1>3
  <2>2. ASSUME NEW g \in DOMAIN local, g < op.fid PROVE local'[g].gid # op.id
    <3>1. CASE \E o \in Creating : o.fid = g /\ local'[g].gid = o.id
      BY <1>3, <1>b, <2>2, <3>1
    <3>2. CASE local'[g].gid = local[g].gid
      BY <1>2, <1>4, <1>5, <2>2, <3>2 DEF Claims, Owns
    <3> QED
      BY <1>1, <3>1, <3>2
  <2> QED
    BY <1>0, <1>5, <2>1, <2>2 DEF Owns
<1>8. OriginsSettled'
  <2> SUFFICES ASSUME NEW i \in Ids, NEW f \in origin[i] PROVE Settled(i, f)'
    BY <1>0 DEF OriginsSettled, portalVars
  <2>1. Settled(i, f) /\ \A op \in Creating : op.fid = f => op.id = i
    BY DEF OneCopyInv, OriginsSettled, OneId
  <2> QED
    BY <1>6, <2>1
<1>9. AfterStamping'
  <2>1. ASSUME NEW op \in Making PROVE Settled(op.id, op.fid)'
    <3>1. Settled(op.id, op.fid) /\ \A o \in Creating : o.fid = op.fid => o.id = op.id
      BY DEF OneCopyInv, AfterStamping, OneId
    <3>2. op.id \in Ids
      BY DEF Making, TypeOK, TasksTypeOK, Op
    <3> QED
      BY <1>6, <3>1, <3>2
  <2> QED
    BY <1>a, <1>7, <2>1 DEF AfterStamping
<1>10. RowsIssued'
  BY <1>0, <1>1, <1>4, <1>5 DEF RowsIssued
<1>11. CreatesApart' /\ OneId' /\ OneCopyPerRow' /\ BeforeStamping'
  BY <1>0, <1>a DEF OneCopyInv, CreatesApart, OneId, OneCopyPerRow, BeforeStamping, portalVars
<1> QED
  BY <1>8, <1>9, <1>10, <1>11 DEF OneCopyInv

LEMMA RequestKeepsInv ==
    ASSUME TypeOK, TasksInv, OneCopyInv, NEW k \in Pushes, WorkerDone(k)
    PROVE  OneCopyInv'
<1>0. /\ UNCHANGED <<fileVars, phase, plan, ops>>
      /\ UNCHANGED portalVars \/ \E op \in inflight[k] : Apply(op)
  BY DEF WorkerDone, dialogVars
<1>1. CASE UNCHANGED origin
  BY <1>0, <1>1, QuietStep DEF fileVars
<1>2. ASSUME NEW op \in inflight[k], op.kind = "create",
             origin' = [origin EXCEPT ![op.id] = @ \cup {op.fid}]
      PROVE  OneCopyInv'
  <2>0. op \in Making /\ op.id \in Ids /\ Creating' = Creating /\ Making' = Making
    BY <1>0, <1>2 DEF TasksInv, TaskInv, Making, Creating, TypeOK, TasksTypeOK, Op
  <2>1. \A i \in Ids : \A f : f \in origin'[i] <=> f \in origin[i] \/ (i = op.id /\ f = op.fid)
    BY <1>2, <2>0 DEF TypeOK, PortalTypeOK
  <2>2. Settled(op.id, op.fid) /\ \A i, f : Settled(i, f)' <=> Settled(i, f)
    BY <1>0, <2>0 DEF OneCopyInv, AfterStamping, Settled, Claims, Owns, fileVars
  <2>3. /\ \A i \in Ids : op.fid \in origin[i] => i = op.id
        /\ \A o \in Creating \cup Making : o.fid = op.fid => o.id = op.id
    BY <2>0 DEF OneCopyInv, OneId
  <2>4. OriginsSettled'
    BY <2>1, <2>2 DEF OneCopyInv, OriginsSettled
  <2>5. OneId'
    BY <2>0, <2>1, <2>3 DEF OneCopyInv, OneId
  <2>6. OneCopyPerRow'
    BY <2>1, <2>3 DEF OneCopyInv, OneCopyPerRow
  <2>7. CreatesApart' /\ BeforeStamping' /\ AfterStamping' /\ RowsIssued'
    BY <1>0, <2>0, <2>2 DEF OneCopyInv, CreatesApart, BeforeStamping, AfterStamping, RowsIssued,
                      Claims, Owns, fileVars
  <2> QED
    BY <2>4, <2>5, <2>6, <2>7 DEF OneCopyInv
<1> QED
  BY <1>0, <1>1, <1>2 DEF Apply, portalVars

LEMMA OneCopyInit == Init => OneCopyInv
<1> SUFFICES ASSUME Init PROVE OneCopyInv
  OBVIOUS
<1> USE CloneAssumption, ValueAssumption
<1>1. /\ plan = {} /\ Creating = {} /\ phase = "closed"
      /\ lastFid = NCloned /\ issued = Cloned /\ DOMAIN local = 1 .. NCloned
      /\ \A f \in 1 .. NCloned : local[f].gid = CloneId[f] /\ CloneId[f] \in Cloned
      /\ \A i \in Ids : origin[i] = {f \in 1 .. NCloned : CloneId[f] = i}
  BY DEF Init, Creating, Cloned
<1>2. Making = {}
  BY DEF Init, Making
<1>3. \A f \in 1 .. NCloned : Owns(local, f)
  BY <1>1 DEF Owns
<1>4. OriginsSettled
  BY <1>1, <1>3 DEF OriginsSettled, Settled, Claims
<1>5. OneCopyPerRow /\ RowsIssued
  BY <1>1 DEF OneCopyPerRow, RowsIssued
<1>6. CreatesApart /\ OneId /\ BeforeStamping /\ AfterStamping
  BY <1>1, <1>2 DEF CreatesApart, OneId, BeforeStamping, AfterStamping, InPush
<1> QED
  BY <1>4, <1>5, <1>6 DEF OneCopyInv

LEMMA OneCopyStep == TypeOK /\ TasksInv /\ OneCopyInv /\ [Next]_vars => OneCopyInv'
<1> SUFFICES ASSUME TypeOK, TasksInv, OneCopyInv, [Next]_vars PROVE OneCopyInv'
  OBVIOUS
<1>1. ASSUME NEW work \in SUBSET plan, NEW agreed, NEW skipped,
             StartTask(work, agreed, skipped), phase \in {"stamped", "unread", "asking"},
             UNCHANGED <<local, lastFid, issued, origin>>
      PROVE  OneCopyInv'
  <2>1. /\ plan' = plan /\ phase' = "pushing"
        /\ \A k \in Pushes : ops'[k] \subseteq ops[k] \cup plan
    BY <1>1, StartEffect
  <2> QED
    BY <1>1, <2>1, QuietStep DEF InPush
<1>2. CASE /\ UNCHANGED <<local, lastFid, issued, origin, ops>>
           /\ plan' = plan \/ plan' = {}
           /\ \/ phase' = phase \/ phase' = "closed"
              \/ phase \in InPush /\ phase' \in InPush \cup {"open"}
  BY <1>2, QuietStep
<1>3. CASE CheckConflicts
  <2>0. phase = "stamped" /\ UNCHANGED <<local, lastFid, issued, origin>>
    BY <1>3 DEF CheckConflicts, fileVars
  <2>1. CASE StartTask(plan, {}, {})
    BY <1>1, <2>0, <2>1
  <2>2. CASE ~StartTask(plan, {}, {})
    BY <1>2, <1>3, <2>0, <2>2 DEF CheckConflicts, InPush
  <2> QED
    BY <2>1, <2>2
<1>4. CASE SendUnchecked \/ OverwriteConflicts
  BY <1>1, <1>4 DEF SendUnchecked, OverwriteConflicts, fileVars, portalVars
<1>5. CASE SkipConflicts
  <2>1. WithoutConflicts(plan, conflicts) \subseteq plan
    BY DEF WithoutConflicts
  <2>2. phase = "asking" /\ UNCHANGED <<local, lastFid, issued, origin>>
    BY <1>5 DEF SkipConflicts, fileVars, portalVars
  <2> QED
    BY <1>1, <1>2, <1>5, <2>1, <2>2 DEF SkipConflicts, BackToOpen, InPush
<1>6. CASE CheckFails \/ AbandonPush \/ CloseDialog \/ DismissDuringPush
  BY <1>2, <1>6 DEF CheckFails, AbandonPush, BackToOpen, CloseDialog, DismissDuringPush,
                    LeaveScreen, fileVars, portalVars, taskVars, InPush
<1>7. ASSUME NEW k \in Pushes, WorkerTake(k) \/ WorkerReturn(k) PROVE OneCopyInv'
  BY <1>2, <1>7 DEF WorkerTake, WorkerReturn, fileVars, portalVars, dialogVars
<1>8. ASSUME NEW k \in Pushes, Callback(k) PROVE OneCopyInv'
  <2>1. /\ UNCHANGED <<local, lastFid, issued, origin>> /\ ops' = [ops EXCEPT ![k] = {}]
        /\ plan' = plan \/ plan' = {}
        /\ OnScreen(k) => phase' \in {"open", "closed"}
        /\ ~OnScreen(k) => phase' = phase
    BY <1>8, CallbackEffect
  <2>2. \A j \in Pushes : ops'[j] \subseteq ops[j]
    BY <2>1 DEF TypeOK, TasksTypeOK
  <2> QED
    BY <2>1, <2>2, QuietStep DEF OnScreen, InPush
<1>9. CASE Crash
  <2>1. /\ UNCHANGED <<local, lastFid, issued, origin>> /\ plan' = {} /\ phase' = "closed"
        /\ \A k \in Pushes : ops'[k] = {}
    BY <1>9 DEF Crash, LeaveScreen, fileVars
  <2> QED
    BY <2>1, QuietStep
<1>10. CASE Others \/ UNCHANGED vars
  BY <1>2, <1>10 DEF Others, RemoteEdit, RemoteDelete, vars, fileVars, portalVars, dialogVars,
                     taskVars
<1> QED
  BY <1>3, <1>4, <1>5, <1>6, <1>7, <1>8, <1>9, <1>10,
     EditKeepsInv, OpenKeepsInv, StampKeepsInv, RequestKeepsInv DEF Next, Dialog, Check, Worker

\* Whatever is lost, refused, split, cancelled or killed, however often Sync is
\* pressed again and however many pushes are out at once, no local row ever makes
\* two portal features.
THEOREM OneCopyHolds == Spec => []OneCopyPerRow
<1>1. OneCopyInv => OneCopyPerRow
  BY DEF OneCopyInv
<1> QED
  BY <1>1, TypeCorrect, TasksInit, TasksStep, OneCopyInit, OneCopyStep, PTL DEF Spec

-----------------------------------------------------------------------------
(* Sending the plan again is reading the file anew.                        *)

\* Rows with something to send all own an id.
AllOwn == \A f \in DOMAIN local : Owns(local, f) \/ EmptyRow(local[f])

\* The rows that get an id get one each, and one never seen before.
Unowned(f) == f \in DOMAIN local /\ ~Owns(local, f) /\ ~EmptyRow(local[f])
FreshMint(mint) ==
    /\ \A f \in DOMAIN local : Unowned(f) => mint[f] \in Ids \ (issued \cup Drawn)
    /\ \A f, g \in DOMAIN local : Unowned(f) /\ Unowned(g) /\ mint[f] = mint[g] => f = g

\* Ids in a baseline are ids of rows.
BaseFits(base) == BaseOK(base) /\ DOMAIN base \subseteq issued \cup Drawn

\* The plan on screen is what the file yields, given the baseline it was read
\* with, which is still the one in the file unless some callback replaced it.
PlannedFrom(base, mint) ==
    /\ BaseFits(base)
    /\ plan = PlanOps(local, base, mint)
    /\ superseded \/ base = baseline

PlanFromFile ==
    /\ phase = "open" => \E mint, base : FreshMint(mint) /\ PlannedFrom(base, mint)
    /\ phase \in InPush => AllOwn /\ \E base : PlannedFrom(base, NoMint)

ReplanInv == BaseFits(baseline) /\ PlanFromFile

\* An id that some row carries has an owner: the first row that carries it.
LEMMA OwnerExists ==
    ASSUME RowsOK(local), NEW i \in Ids, \E f \in DOMAIN local : local[f].gid = i
    PROVE  \E f \in DOMAIN local : Owns(local, f) /\ local[f].gid = i
<1> DEFINE Holders == {f \in DOMAIN local : local[f].gid = i}
<1>1. Holders \subseteq Nat /\ Holders # {}
  BY DEF RowsOK, Fids
<1>2. PICK f \in Holders : \A g \in Holders : ~(<<g, f>> \in OpToRel(<, Nat))
  BY <1>1, NatLessThanWellFounded, WFMin
<1>3. \A g \in Holders : ~(g < f)
  BY <1>1, <1>2 DEF OpToRel
<1> QED
  BY <1>3, ValueAssumption DEF Owns

\* Planning leaves creates with ids the baseline has not, and others that it has.
LEMMA PlannedBase ==
    ASSUME NEW base, BaseFits(base), NEW mint, FreshMint(mint),
           NEW op \in PlanOps(local, base, mint)
    PROVE  op.kind = "create" <=> op.id \notin DOMAIN base
<1>1. CASE op \in Creates(local, base, mint)
  <2>1. PICK f \in DOMAIN local :
           /\ ~Recorded(local, base, f) /\ ~EmptyRow(local[f])
           /\ op.kind = "create"
           /\ op.id = IF Owns(local, f) THEN local[f].gid ELSE mint[f]
    BY <1>1 DEF Creates, OpFor
  <2>2. CASE Owns(local, f)
    BY <2>1, <2>2 DEF Recorded
  <2>3. CASE ~Owns(local, f)
    BY <2>1, <2>3 DEF FreshMint, Unowned, BaseFits
  <2> QED
    BY <2>2, <2>3
<1>2. CASE op \in Updates(local, base)
  BY <1>2 DEF Updates, OpFor, Recorded
<1>3. CASE op \in Deletes(local, base)
  BY <1>3 DEF Deletes, OpFor
<1> QED
  BY <1>1, <1>2, <1>3 DEF PlanOps

\* The heart of it: once the ids are stamped the file yields the plan it came from.
LEMMA StampedPlan ==
    ASSUME TypeOK, OneCopyInv, NEW mint, FreshMint(mint), NEW base, BaseFits(base),
           plan = PlanOps(local, base, mint), StampMintedIds
    PROVE  AllOwn' /\ PlanOps(local', base, NoMint') = plan
<1> DEFINE Reminted(f) == ~Owns(local, f) /\ ~EmptyRow(local[f])
           CreateOf(f) == OpFor("create", f, IF Owns(local, f) THEN local[f].gid ELSE mint[f],
                                local[f])
<1>0. /\ local' = Stamped(local, plan) /\ DOMAIN local' = DOMAIN local
      /\ RowsOK(local) /\ BaseOK(base) /\ DOMAIN base \subseteq issued \cup Drawn
      /\ DOMAIN local \subseteq Nat
      /\ \A f \in DOMAIN local : local[f].gid \in issued \cup Drawn \cup {NoId}
      /\ NoId \notin issued \cup Drawn
  BY FileRowsOK, ValueAssumption
     DEF StampMintedIds, Stamped, OneCopyInv, RowsIssued, TypeOK, FileTypeOK, RowsOK, Fids,
         BaseFits, Drawn
<1>1. \A o \in plan : o.kind = "create" =>
          /\ o.fid \in DOMAIN local /\ ~Recorded(local, base, o.fid)
          /\ ~EmptyRow(local[o.fid]) /\ o = CreateOf(o.fid)
  BY DEF PlanOps, Creates, Updates, Deletes, OpFor
<1>2. \A f \in DOMAIN local :
          ~Recorded(local, base, f) /\ ~EmptyRow(local[f])
              => CreateOf(f) \in plan /\ CreateOf(f).kind = "create" /\ CreateOf(f).fid = f
  BY DEF PlanOps, Creates, OpFor
<1>3. ASSUME NEW f \in DOMAIN local
      PROVE  /\ local'[f].gid = IF Reminted(f) THEN mint[f] ELSE local[f].gid
             /\ local'[f].attr = local[f].attr /\ local'[f].geom = local[f].geom
  <2>1. CASE CreatesRow(plan, f)
    <3> DEFINE o == CHOOSE op \in plan : op.kind = "create" /\ op.fid = f
    <3>1. o \in plan /\ o.kind = "create" /\ o.fid = f
      BY <2>1 DEF CreatesRow
    <3>2. local'[f] = OfContent(o.id, ContentOf(local[f]))
      BY <1>0, <2>1 DEF Stamped, WithMintedId
    <3> HIDE DEF o
    <3>3. o = CreateOf(f) /\ ~EmptyRow(local[f])
      BY <1>1, <3>1
    <3>4. o.id = IF Owns(local, f) THEN local[f].gid ELSE mint[f]
      BY <3>3 DEF OpFor
    <3> QED
      BY <3>2, <3>3, <3>4 DEF OfContent, ContentOf
  <2>2. CASE ~CreatesRow(plan, f)
    <3>1. local'[f] = local[f]
      BY <1>0, <2>2 DEF Stamped
    <3>2. ~Reminted(f)
      BY <1>2, <2>2 DEF CreatesRow, Recorded
    <3> QED
      BY <3>1, <3>2
  <2> QED
    BY <2>1, <2>2
<1>4. \A f \in DOMAIN local : Reminted(f) => mint[f] \in Ids /\ mint[f] \notin issued \cup Drawn /\ mint[f] # NoId
  BY ValueAssumption DEF FreshMint, Unowned
<1>5. \A f, g \in DOMAIN local : Reminted(f) /\ Reminted(g) /\ mint[f] = mint[g] => f = g
  BY DEF FreshMint, Unowned
<1>6. \A f \in DOMAIN local : EmptyRow(local'[f]) <=> EmptyRow(local[f])
  BY <1>3 DEF EmptyRow
<1> HIDE DEF Reminted
<1>7. ASSUME NEW f \in DOMAIN local, Owns(local, f)
      PROVE  Owns(local', f) /\ local'[f].gid = local[f].gid
  <2>1. local'[f].gid = local[f].gid /\ local[f].gid # NoId /\ local[f].gid \in issued \cup Drawn
    BY <1>0, <1>3, <1>7 DEF Owns, Reminted
  <2>2. ASSUME NEW g \in DOMAIN local, g < f PROVE local'[g].gid # local'[f].gid
    <3>1. local[g].gid # local[f].gid
      BY <1>7, <2>2 DEF Owns
    <3> QED
      BY <1>3, <1>4, <2>1, <3>1
  <2> QED
    BY <1>0, <2>1, <2>2 DEF Owns
<1>8. ASSUME NEW f \in DOMAIN local, Reminted(f)
      PROVE  Owns(local', f) /\ local'[f].gid = mint[f]
  <2>1. local'[f].gid = mint[f] /\ mint[f] # NoId /\ mint[f] \notin issued \cup Drawn
    BY <1>3, <1>4, <1>8
  <2>2. ASSUME NEW g \in DOMAIN local, g < f PROVE local'[g].gid # local'[f].gid
    <3>1. g # f
      BY <1>0, <2>2
    <3> QED
      BY <1>0, <1>3, <1>5, <1>8, <2>1, <3>1
  <2> QED
    BY <1>0, <2>1, <2>2 DEF Owns
<1>9. \A f \in DOMAIN local : ~EmptyRow(local[f]) => Owns(local', f)
  BY <1>7, <1>8 DEF Reminted
<1>10. \A f \in DOMAIN local : ~EmptyRow(local[f])
          => (Recorded(local', base, f) <=> Recorded(local, base, f))
  <2> TAKE f \in DOMAIN local
  <2> HAVE ~EmptyRow(local[f])
  <2>1. CASE Owns(local, f)
    BY <1>7, <2>1 DEF Recorded
  <2>2. CASE ~Owns(local, f)
    <3>1. Reminted(f)
      BY <2>2 DEF Reminted
    <3> QED
      BY <1>0, <1>4, <1>8, <2>2, <3>1 DEF Recorded
  <2> QED
    BY <2>1, <2>2
<1>11. Creates(local', base, NoMint') = Creates(local, base, mint)
  <2>1. ASSUME NEW f \in DOMAIN local, ~EmptyRow(local[f])
        PROVE  OpFor("create", f, IF Owns(local', f) THEN local'[f].gid ELSE NoMint'[f], local'[f])
                   = CreateOf(f)
    <3>1. local'[f].gid = IF Owns(local, f) THEN local[f].gid ELSE mint[f]
      BY <1>7, <1>8, <2>1 DEF Reminted
    <3>2. Owns(local', f)
      BY <1>9, <2>1
    <3>3. local'[f].attr = local[f].attr /\ local'[f].geom = local[f].geom
      BY <1>3
    <3> QED
      BY <3>1, <3>2, <3>3 DEF OpFor
  <2>2. {g \in DOMAIN local' : ~Recorded(local', base, g) /\ ~EmptyRow(local'[g])}
            = {g \in DOMAIN local : ~Recorded(local, base, g) /\ ~EmptyRow(local[g])}
    BY <1>0, <1>6, <1>10
  <2> QED
    BY <2>1, <2>2 DEF Creates
<1>12. Updates(local', base) = Updates(local, base)
  <2>1. ASSUME NEW f \in DOMAIN local, Recorded(local, base, f)
        PROVE  /\ OpFor("update", f, local'[f].gid, local'[f]) = OpFor("update", f, local[f].gid, local[f])
               /\ Unchanged(local', base, f) <=> Unchanged(local, base, f)
    BY <1>3, <1>7, <2>1 DEF OpFor, Unchanged, ContentOf, Recorded
  <2>2. {g \in DOMAIN local' : /\ Recorded(local', base, g)
                               /\ ~Unchanged(local', base, g)
                               /\ ~EmptyRow(local'[g])}
          = {g \in DOMAIN local : /\ Recorded(local, base, g)
                                  /\ ~Unchanged(local, base, g)
                                  /\ ~EmptyRow(local[g])}
    BY <1>0, <1>6, <1>10, <2>1
  <2> QED
    BY <2>1, <2>2 DEF Updates
<1>13. Deletes(local', base) = Deletes(local, base)
  <2> SUFFICES ASSUME NEW j \in DOMAIN base
               PROVE  (\E f \in DOMAIN local' : local'[f].gid = j)
                          <=> (\E f \in DOMAIN local : local[f].gid = j)
    BY DEF Deletes
  <2>1. j \in Ids /\ j \in issued \cup Drawn
    BY <1>0 DEF BaseOK
  <2>2. ASSUME NEW f \in DOMAIN local, local'[f].gid = j PROVE local[f].gid = j
    BY <1>3, <1>4, <2>1, <2>2
  <2>3. ASSUME NEW f \in DOMAIN local, local[f].gid = j
        PROVE  \E g \in DOMAIN local : local'[g].gid = j
    BY <1>0, <1>7, <2>1, <2>3, OwnerExists
  <2> QED
    BY <1>0, <2>2, <2>3
<1>14. AllOwn'
  BY <1>0, <1>6, <1>9 DEF AllOwn
<1> QED
  BY <1>11, <1>12, <1>13, <1>14 DEF PlanOps

\* A step that leaves the rows and the plan alone, and the baseline too or else
\* says that the plan is superseded.
LEMMA ReplanQuiet ==
    ASSUME ReplanInv, UNCHANGED <<local, issued, plan>>, BaseFits(baseline)',
           superseded' \/ ((superseded' <=> superseded) /\ baseline' = baseline),
           \/ phase' = phase
           \/ phase \in InPush /\ phase' \in InPush \cup {"open"}
    PROVE  ReplanInv'
<1>1. /\ AllOwn' = AllOwn /\ NoMint' = NoMint
      /\ \A mint : FreshMint(mint)' <=> FreshMint(mint)
  BY DEF AllOwn, NoMint, FreshMint, Unowned
<1>2. ASSUME NEW base, NEW mint, PlannedFrom(base, mint) PROVE PlannedFrom(base, mint)'
  BY <1>2 DEF PlannedFrom, BaseFits
<1>3. CASE phase' \notin {"open"} \cup InPush
  BY <1>3 DEF ReplanInv, PlanFromFile
<1>4. CASE phase = "open" /\ phase' = "open"
  <2>1. PICK mint, base : FreshMint(mint) /\ PlannedFrom(base, mint)
    BY <1>4 DEF ReplanInv, PlanFromFile
  <2>2. FreshMint(mint)' /\ PlannedFrom(base, mint)'
    BY <1>1, <1>2, <2>1
  <2> QED
    BY <1>4, <2>2 DEF ReplanInv, PlanFromFile, InPush
<1>5. CASE phase \in InPush
  <2>1. PICK base : PlannedFrom(base, NoMint)
    BY <1>5 DEF ReplanInv, PlanFromFile
  <2>2. PICK mint : mint = NoMint
    OBVIOUS
  <2>3. AllOwn /\ FreshMint(mint)' /\ PlannedFrom(base, mint)'
    BY <1>1, <1>2, <1>5, <2>1, <2>2 DEF ReplanInv, PlanFromFile, FreshMint, Unowned, AllOwn
  <2>4. PlannedFrom(base, NoMint)'
    BY <1>1, <2>2, <2>3
  <2> QED
    BY <1>1, <2>3, <2>4 DEF ReplanInv, PlanFromFile
<1> QED
  BY <1>3, <1>4, <1>5 DEF InPush

LEMMA ReplanInit == Init => ReplanInv
<1> SUFFICES ASSUME Init PROVE ReplanInv
  OBVIOUS
<1>1. BaseOK(baseline)
  BY TypeInit, FileRowsOK DEF TypeOK
<1> QED
  BY <1>1 DEF Init, ReplanInv, BaseFits, PlanFromFile, InPush

\* The baseline a callback leaves holds ids of rows, and a dialog whose plan it
\* did not come from is superseded by it.
LEMMA CallbackBase ==
    ASSUME TypeOK, OneCopyInv, ReplanInv, NEW k \in Pushes, Callback(k)
    PROVE  /\ BaseFits(baseline)'
           /\ ~OnScreen(k) => \/ (superseded' <=> superseded) /\ baseline' = baseline
                              \/ superseded' \/ phase = "closed"
<1>0. issued' = issued
  BY DEF Callback, PushIncomplete, RefreshBaseline, RefreshFails, RefreshDropsTable, TaskOver
<1>a. ASSUME Accept(k), ~OnScreen(k)
      PROVE  \/ (superseded' <=> superseded) /\ baseline' = baseline
             \/ superseded' \/ phase = "closed"
  BY <1>a DEF Accept, TypeOK, DialogTypeOK
<1>1. CASE RefreshBaseline(k)
  <2>1. PICK seen \in Answers : baseline' = SnapshotBaseline(local, seen)
    BY <1>1 DEF RefreshBaseline
  <2>2. BaseOK(baseline')
    BY <2>1, SnapshotType, AnswerType, FileRowsOK DEF TypeOK
  <2>3. DOMAIN baseline' \subseteq issued \cup Drawn
    BY <2>1 DEF SnapshotBaseline, OneCopyInv, RowsIssued
  <2> QED
    BY <1>0, <1>1, <1>a, <2>2, <2>3 DEF RefreshBaseline, BaseFits, BaseOK
<1>2. CASE RefreshDropsTable(k)
  <2>1. baseline' = << >> /\ Accept(k)
    BY <1>2 DEF RefreshDropsTable
  <2>2. DOMAIN baseline' = {} /\ baseline' \in [{} -> Entry]
    BY <2>1
  <2> QED
    BY <1>0, <1>a, <2>1, <2>2 DEF BaseFits, BaseOK
<1>3. CASE PushIncomplete(k) \/ RefreshFails(k)
  <2>1. BaseFits(baseline)'
    BY <1>0, <1>3 DEF PushIncomplete, RefreshFails, ReplanInv, BaseFits, BaseOK
  <2> QED
    BY <1>3, <1>a, <2>1 DEF PushIncomplete, RefreshFails
<1> QED
  BY <1>1, <1>2, <1>3 DEF Callback

LEMMA ReplanStep == TypeOK /\ TasksInv /\ OneCopyInv /\ ReplanInv /\ [Next]_vars => ReplanInv'
<1> SUFFICES ASSUME TypeOK, TasksInv, OneCopyInv, ReplanInv, [Next]_vars PROVE ReplanInv'
  OBVIOUS
<1>0. BaseFits(baseline)
  BY DEF ReplanInv
<1>1. CASE UNCHANGED <<baseline, issued>> /\ phase' = "closed"
  BY <1>0, <1>1 DEF ReplanInv, BaseFits, PlanFromFile, InPush
<1>2. CASE User
  BY <1>1, <1>2, UserStep DEF CanEdit, dialogVars
<1>3. CASE OpenDialog
  <2>1. PICK mint \in Mintings(local, issued) : plan' = PlanOps(local, baseline, mint)
    BY <1>3 DEF OpenDialog
  <2>2. UNCHANGED <<local, baseline, issued>> /\ phase' = "open"
    BY <1>3 DEF OpenDialog, fileVars
  <2>3. FreshMint(mint)'
    BY <2>2 DEF Mintings, FreshMint, Unowned
  <2>4. BaseFits(baseline)' /\ PlannedFrom(baseline, mint)'
    BY <1>0, <2>1, <2>2 DEF BaseFits, PlannedFrom
  <2>5. \E base, m : FreshMint(m)' /\ PlannedFrom(base, m)'
    BY <2>2, <2>3, <2>4
  <2> QED
    BY <2>2, <2>4, <2>5 DEF ReplanInv, PlanFromFile, InPush
<1>4. CASE StampMintedIds
  <2>1. /\ phase = "open" /\ phase' = "stamped" /\ UNCHANGED <<baseline, plan, superseded>>
        /\ issued \subseteq issued'
    BY <1>4 DEF StampMintedIds
  <2>2. PICK mint, base : FreshMint(mint) /\ PlannedFrom(base, mint)
    BY <2>1 DEF ReplanInv, PlanFromFile
  <2>3. AllOwn' /\ PlanOps(local', base, NoMint') = plan
    BY <1>4, <2>2, StampedPlan DEF PlannedFrom
  <2>4. BaseFits(baseline)' /\ PlannedFrom(base, NoMint)'
    BY <1>0, <2>1, <2>2, <2>3 DEF PlannedFrom, BaseFits
  <2> QED
    BY <2>1, <2>3, <2>4 DEF ReplanInv, PlanFromFile, InPush
<1>5. CASE Check \/ SendUnchecked \/ OverwriteConflicts \/ SkipConflicts \/ AbandonPush
  <2>1. /\ UNCHANGED <<local, baseline, issued, plan, superseded>>
        /\ phase \in InPush /\ phase' \in InPush \cup {"open"}
    BY <1>5 DEF Check, CheckConflicts, CheckFails, SendUnchecked, OverwriteConflicts,
                SkipConflicts, AbandonPush, StartTask, BackToOpen, fileVars, InPush
  <2> QED
    BY <1>0, <2>1, ReplanQuiet DEF BaseFits
<1>6. CASE CloseDialog \/ DismissDuringPush \/ Crash
  BY <1>1, <1>6 DEF CloseDialog, DismissDuringPush, Crash, LeaveScreen, fileVars
<1>7. CASE (\E k \in Pushes : Worker(k)) \/ Others \/ UNCHANGED vars
  <2>1. UNCHANGED <<local, baseline, issued, plan, superseded, phase>>
    BY <1>7 DEF Worker, WorkerTake, WorkerDone, WorkerReturn, Others, RemoteEdit, RemoteDelete,
                fileVars, dialogVars, vars
  <2> QED
    BY <1>0, <2>1, ReplanQuiet DEF BaseFits
<1>8. ASSUME NEW k \in Pushes, Callback(k) PROVE ReplanInv'
  <2>1. /\ UNCHANGED <<local, issued>> /\ BaseFits(baseline)'
        /\ OnScreen(k) => phase' \in {"open", "closed"}
        /\ ~OnScreen(k) => UNCHANGED <<phase, plan>>
    BY <1>8, CallbackEffect, CallbackBase
  <2>2. CASE phase' = "closed"
    BY <2>1, <2>2 DEF ReplanInv, PlanFromFile, InPush
  <2>3. CASE OnScreen(k) /\ phase' # "closed"
    <3>1. PushIncomplete(k)
      BY <1>8, <2>3 DEF Callback, RefreshBaseline, RefreshFails, RefreshDropsTable, Accept,
                        LeaveScreen
    <3>2. UNCHANGED <<baseline, superseded, plan>> /\ phase \in InPush /\ phase' = "open"
      BY <2>1, <2>3, <3>1 DEF PushIncomplete, OnScreen, InPush
    <3> QED
      BY <2>1, <3>2, ReplanQuiet
  <2>4. CASE ~OnScreen(k) /\ phase' # "closed"
    BY <1>8, <2>1, <2>4, CallbackBase, ReplanQuiet
  <2> QED
    BY <2>2, <2>3, <2>4
<1> QED
  BY <1>2, <1>3, <1>4, <1>5, <1>6, <1>7, <1>8 DEF Next, Dialog

\* What is planned once all rows own their ids is what the rows hold.
LEMMA PlannedIsHeld ==
    ASSUME AllOwn, NEW base, NEW mint, NEW op \in PlanOps(local, base, mint)
    PROVE  OfTheFile(op)
<1>1. CASE op \in Creates(local, base, mint)
  <2>1. PICK f \in DOMAIN local :
           ~EmptyRow(local[f])
           /\ op = OpFor("create", f, IF Owns(local, f) THEN local[f].gid ELSE mint[f], local[f])
    BY <1>1 DEF Creates
  <2>2. Owns(local, f)
    BY <2>1 DEF AllOwn
  <2> QED
    BY <2>1, <2>2 DEF OfTheFile, OpFor, ContentOf
<1>2. CASE op \in Updates(local, base)
  BY <1>2 DEF Updates, OfTheFile, OpFor, ContentOf
<1>3. CASE op \in Deletes(local, base)
  BY <1>3 DEF Deletes, OfTheFile, OpFor, HasRow
<1> QED
  BY <1>1, <1>2, <1>3 DEF PlanOps

\* Pressing Sync again sends what the file holds, and what reopening the dialog
\* would: while a push is under way the clone's file yields exactly the plan on
\* screen, unless the callback of an earlier push has moved the baseline.
THEOREM ReplanIsTheSame == Spec => []ReplanIsSamePlan
<1>1. ReplanInv => ReplanIsSamePlan
  <2> SUFFICES ASSUME ReplanInv, phase \in InPush
               PROVE  /\ \A op \in plan : OfTheFile(op)
                      /\ PlanOps(local, baseline, NoMint) = plan \/ superseded
    BY DEF ReplanIsSamePlan, InPush
  <2>1. PICK base : AllOwn /\ PlannedFrom(base, NoMint)
    BY DEF ReplanInv, PlanFromFile
  <2>2. PICK mint : mint = NoMint
    OBVIOUS
  <2> QED
    BY <2>1, <2>2, PlannedIsHeld DEF PlannedFrom
<1> QED
  BY <1>1, TypeCorrect, TasksInit, TasksStep, OneCopyInit, OneCopyStep, ReplanInit, ReplanStep, PTL
     DEF Spec

-----------------------------------------------------------------------------
(* A refresh leaves nothing to send.                                       *)

LEMMA SettledPlan ==
    ASSUME TypeOK, HasColumns, AllOwn, NEW feats \in [Ids -> PortalRow]
    PROVE  PlanOps(local, SnapshotBaseline(local, feats), NoMint) = {}
<1> DEFINE base == SnapshotBaseline(local, feats)
<1>0. RowsOK(local) /\ DOMAIN local \subseteq Nat
  BY FileRowsOK DEF TypeOK, RowsOK, Fids
<1>1. \A f \in DOMAIN local : Owns(local, f)
  BY DEF AllOwn, EmptyRow
<1>2. DOMAIN base = {local[f].gid : f \in DOMAIN local} \ {NoId}
  BY DEF SnapshotBaseline
<1>3. ASSUME NEW f \in DOMAIN local
      PROVE  Recorded(local, base, f) /\ Unchanged(local, base, f)
  <2>1. local[f].gid \in DOMAIN base
    BY <1>1, <1>2 DEF Owns
  <2>2. LastWith(local, local[f].gid) \in DOMAIN local
        /\ local[LastWith(local, local[f].gid)].gid = local[f].gid
    BY <1>0, LastWithExists, CloneAssumption DEF RowsOK, Fids
  <2>3. LastWith(local, local[f].gid) = f
    BY <1>0, <1>1, <2>2 DEF Owns
  <2>4. base[local[f].gid].attr = local[f].attr /\ base[local[f].gid].geom = local[f].geom
    BY <2>1, <2>3 DEF SnapshotBaseline
  <2> HIDE DEF base
  <2> QED
    BY <1>1, <2>1, <2>4 DEF Recorded, Unchanged, ContentOf
<1> HIDE DEF base
<1>4. Creates(local, base, NoMint) = {} /\ Updates(local, base) = {} /\ Deletes(local, base) = {}
  BY <1>2, <1>3 DEF Creates, Updates, Deletes
<1> QED
  BY <1>4 DEF PlanOps, base

\* Layers with columns of their own: once a push has gone through with its dialog
\* on screen, reopening it finds nothing to send, whatever the portal answered.
THEOREM RefreshHasSettled ==
    ASSUME HasColumns PROVE Spec => RefreshSettles
<1>1. /\ TypeOK /\ ReplanInv /\ [Next]_vars
      => [phase = "pushing" /\ phase' = "closed" /\ baseline' # baseline /\ baseline' # << >>
             => PlanOps(local', baseline', [f \in DOMAIN local' |-> NoId]) = {}]_vars
  <2> SUFFICES ASSUME TypeOK, ReplanInv, Next, phase = "pushing", phase' = "closed",
                      baseline' # baseline, baseline' # << >>
               PROVE  PlanOps(local', baseline', [f \in DOMAIN local' |-> NoId]) = {}
    OBVIOUS
  <2>1. PICK k \in Pushes : RefreshBaseline(k)
    BY UserStep
       DEF Next, Others, RemoteEdit, RemoteDelete, Dialog, OpenDialog, StampMintedIds, Check,
           CheckConflicts, CheckFails, SendUnchecked, OverwriteConflicts, SkipConflicts,
           AbandonPush, CloseDialog, DismissDuringPush, Worker, WorkerTake, WorkerDone,
           WorkerReturn, Callback, PushIncomplete, RefreshFails, RefreshDropsTable, Crash,
           fileVars
  <2>2. PICK seen \in Answers : baseline' = SnapshotBaseline(local, seen)
    BY <2>1 DEF RefreshBaseline
  <2>3. local' = local
    BY <2>1 DEF RefreshBaseline, TaskOver
  <2>4. AllOwn
    BY DEF ReplanInv, PlanFromFile, InPush
  <2>5. seen \in [Ids -> PortalRow]
    BY AnswerType DEF TypeOK
  <2> QED
    BY <2>2, <2>3, <2>4, <2>5, SettledPlan DEF NoMint
<1> QED
  BY <1>1, TypeCorrect, TasksInit, TasksStep, OneCopyInit, OneCopyStep, ReplanInit, ReplanStep, PTL
     DEF Spec, RefreshSettles

-----------------------------------------------------------------------------
(* What a push may overwrite.                                              *)

\* Unless a dialog is closed during its push, one push is out at a time and
\* nothing moves the baseline under the plan.
OnePush ==
    "dismiss" \notin env =>
        /\ ~superseded
        /\ \A k \in Pushes : at[k] # "idle" => phase = "pushing" /\ k = pushes

\* Where a row may be written with no two stamps compared.
Blinding == {"garbled", "dismiss"} \cap env # {}

\* A row somebody else changed is live; and a stamp the baseline has of it tells,
\* unless a refresh has taken the new one over.
StampInv ==
    /\ \A i \in foreign : portal[i].live
    /\ \A i \in Ids : portal[i].live => portal[i].stamp # 0
    /\ \A i \in DOMAIN baseline :
          /\ baseline[i].stamp <= portal[i].stamp
          /\ baseline[i].stamp = 0 => ~portal[i].live \/ Blinding
          /\ i \in foreign \ restamped /\ baseline[i].stamp # 0
                => baseline[i].stamp # portal[i].stamp

Warned(k, i, agreed) ==
    i \in foreign \ agreed => i \in late[k] \cup restamped \/ (i \in blind[k] /\ Blinding)

\* Whatever is still to be sent was compared, agreed to or changed since; and
\* none of it touches a row the user chose to leave alone.
TaskWarned(k) ==
    \A op \in todo[k] \cup inflight[k] :
        /\ op.kind # "create" => Warned(k, op.id, consented[k])
        /\ op.id \notin declined[k]

WarnInv ==
    /\ phase = "asking" =>
          \A op \in plan : op.kind # "create" => Warned(pushes, op.id, conflicts)
    /\ \A k \in Pushes : TaskWarned(k)

PushInv ==
    TypeOK /\ TasksInv /\ OneCopyInv /\ ReplanInv /\ OnePush /\ StampInv /\ WarnInv

LEMMA EnvKept == [Next]_vars => env' = env
BY UserStep
   DEF Next, Others, RemoteEdit, RemoteDelete, Dialog, OpenDialog, StampMintedIds, Check,
       CheckConflicts, CheckFails, SendUnchecked, OverwriteConflicts, SkipConflicts,
       AbandonPush, CloseDialog, DismissDuringPush, Worker, WorkerTake, WorkerDone,
       WorkerReturn, Callback, PushIncomplete, RefreshBaseline, RefreshFails,
       RefreshDropsTable, TaskOver, Crash, boundVars, vars

LEMMA OnePushStep == TypeOK /\ TasksInv /\ OnePush /\ [Next]_vars => OnePush'
<1> SUFFICES ASSUME TypeOK, TasksInv, OnePush, [Next]_vars, "dismiss" \notin env'
             PROVE  /\ ~superseded'
                    /\ \A k \in Pushes : at'[k] # "idle" => phase' = "pushing" /\ k = pushes'
  BY DEF OnePush
<1>1. env' = env
  BY EnvKept
<1>2. /\ ~superseded /\ TasksTypeOK
      /\ \A k \in Pushes : at[k] # "idle" => phase = "pushing" /\ k = pushes
  BY <1>1 DEF OnePush, TypeOK
<1>3. CASE UNCHANGED <<at, phase, pushes, superseded>>
  BY <1>2, <1>3
<1>4. ASSUME NEW work, NEW agreed, NEW skipped, StartTask(work, agreed, skipped),
             phase # "pushing", pushes' = pushes
      PROVE  /\ ~superseded'
             /\ \A k \in Pushes : at'[k] # "idle" => phase' = "pushing" /\ k = pushes'
  BY <1>2, <1>4 DEF StartTask, TasksTypeOK
<1>5. CASE phase # "pushing" /\ UNCHANGED at /\ ~superseded'
  BY <1>2, <1>5
<1>6. CASE CheckConflicts
  <2>1. phase = "stamped" /\ pushes' = pushes
    BY <1>6 DEF CheckConflicts, boundVars
  <2>2. StartTask(plan, {}, {}) \/ UNCHANGED <<at, superseded>>
    BY <1>6 DEF CheckConflicts
  <2> QED
    BY <1>2, <1>4, <1>5, <2>1, <2>2
<1>7. CASE SendUnchecked \/ OverwriteConflicts
  BY <1>4, <1>7 DEF SendUnchecked, OverwriteConflicts, boundVars
<1>8. CASE SkipConflicts
  BY <1>2, <1>4, <1>5, <1>8 DEF SkipConflicts, BackToOpen, boundVars
<1>9. CASE OpenDialog \/ StampMintedIds \/ CheckFails \/ AbandonPush \/ CloseDialog
  BY <1>2, <1>5, <1>9 DEF OpenDialog, StampMintedIds, CheckFails, AbandonPush, BackToOpen,
                          CloseDialog, LeaveScreen, taskVars
<1>10. CASE DismissDuringPush
  BY <1>1, <1>10 DEF DismissDuringPush
<1>11. ASSUME NEW k \in Pushes, Worker(k)
       PROVE  /\ ~superseded'
              /\ \A j \in Pushes : at'[j] # "idle" => phase' = "pushing" /\ j = pushes'
  <2>1. UNCHANGED <<phase, pushes, superseded>> /\ at[k] = "sending"
    BY <1>11 DEF Worker, WorkerTake, WorkerDone, WorkerReturn, dialogVars, boundVars
  <2>2. \A j \in Pushes : at'[j] # "idle" => at[j] # "idle"
    BY <1>2, <1>11 DEF Worker, WorkerTake, WorkerDone, WorkerReturn, TasksTypeOK
  <2> QED
    BY <1>2, <2>1, <2>2
<1>12. ASSUME NEW k \in Pushes, Callback(k)
       PROVE  /\ ~superseded'
              /\ \A j \in Pushes : at'[j] # "idle" => phase' = "pushing" /\ j = pushes'
  <2>1. at[k] # "idle" /\ at' = [at EXCEPT ![k] = "idle"]
    BY <1>12, CallbackEffect
  <2>2. OnScreen(k) /\ \A j \in Pushes : at'[j] = "idle"
    BY <1>2, <2>1 DEF OnScreen, TasksTypeOK
  <2>3. ~superseded'
    BY <1>2, <1>12, <2>2 DEF Callback, PushIncomplete, RefreshBaseline, RefreshFails,
                             RefreshDropsTable, Accept, LeaveScreen
  <2> QED
    BY <2>2, <2>3
<1>13. CASE Crash
  BY <1>13 DEF Crash, LeaveScreen
<1>14. CASE User
  BY <1>3, <1>14, UserStep DEF dialogVars, taskVars
<1>15. CASE Others \/ UNCHANGED vars
  BY <1>3, <1>15 DEF Others, RemoteEdit, RemoteDelete, vars, dialogVars, taskVars, boundVars
<1> QED
  BY <1>6, <1>7, <1>8, <1>9, <1>10, <1>11, <1>12, <1>13, <1>14, <1>15 DEF Next, Dialog, Check

\* A plan that is not superseded creates what the baseline has not, and writes
\* what it has.
LEMMA PlanBased ==
    ASSUME ReplanInv, phase \in InPush, ~superseded, NEW op \in plan
    PROVE  op.kind = "create" <=> op.id \notin DOMAIN baseline
<1>1. AllOwn /\ BaseFits(baseline) /\ plan = PlanOps(local, baseline, NoMint)
  BY DEF ReplanInv, PlanFromFile, PlannedFrom
<1>2. FreshMint(NoMint)
  BY <1>1 DEF FreshMint, Unowned, AllOwn
<1> QED
  BY <1>1, <1>2, PlannedBase

\* What a request does to the portal and to what is known of it.
LEMMA RequestEffect ==
    ASSUME PushInv, NEW k \in Pushes, WorkerDone(k)
    PROVE  \/ UNCHANGED portalVars
           \/ \E op \in inflight[k] :
                 /\ op \in ops[k] /\ op.id \in Ids
                 /\ ~Refused(op)
                 /\ portal' = [portal EXCEPT ![op.id] = Written(op)]
                 /\ Written(op).stamp = portal[op.id].stamp + 1
                 /\ op.kind = "delete" => ~Written(op).live
                 /\ foreign' = foreign \ {op.id}
                 /\ late' = [j \in Pushes |-> late[j] \ {op.id}]
                 /\ restamped' = restamped \ {op.id}
<1>1. UNCHANGED portalVars \/ \E op \in inflight[k] : Apply(op)
  BY DEF WorkerDone
<1>2. ASSUME NEW op \in inflight[k], Apply(op), ~UNCHANGED portalVars
      PROVE  /\ op \in ops[k] /\ op.id \in Ids /\ ~Refused(op)
             /\ portal' = [portal EXCEPT ![op.id] = Written(op)]
             /\ foreign' = foreign \ {op.id}
             /\ late' = [j \in Pushes |-> late[j] \ {op.id}]
             /\ restamped' = restamped \ {op.id}
  BY <1>2 DEF Apply, PushInv, TasksInv, TaskInv, TypeOK, TasksTypeOK, Op
<1>3. ASSUME NEW op \in inflight[k]
      PROVE  /\ Written(op).stamp = portal[op.id].stamp + 1
             /\ op.kind = "delete" => ~Written(op).live
  BY DEF Written, Removed
<1> QED
  BY <1>1, <1>2, <1>3

\* With no dialog dismissed, what is on the wire is written where it is recorded,
\* and created where it is not.
LEMMA WireBased ==
    ASSUME PushInv, ~Blinding, NEW k \in Pushes, NEW op \in inflight[k]
    PROVE  op.kind = "create" <=> op.id \notin DOMAIN baseline
<1>1. at[k] # "idle" /\ op \in ops[k]
  BY DEF PushInv, TasksInv, TaskInv
<1>2. phase = "pushing" /\ k = pushes /\ ~superseded
  BY <1>1 DEF PushInv, OnePush, Blinding
<1>3. op \in plan
  BY <1>1, <1>2 DEF PushInv, TasksInv, ScreenInv
<1> QED
  BY <1>2, <1>3, PlanBased DEF PushInv, InPush

LEMMA StampStep == PushInv /\ [Next]_vars => StampInv'
<1> SUFFICES ASSUME PushInv, [Next]_vars PROVE StampInv'
  OBVIOUS
<1>0. /\ portal \in [Ids -> PortalRow] /\ foreign \subseteq Ids
      /\ \A i \in Ids : portal[i].stamp \in Nat /\ portal[i].live \in BOOLEAN
      /\ BaseOK(baseline) /\ \A i \in DOMAIN baseline : i \in Ids /\ baseline[i].stamp \in Nat
      /\ StampInv
  BY FileRowsOK DEF PushInv, TypeOK, PortalTypeOK, PortalRow, BaseOK, Entry
<1>e. Blinding' <=> Blinding
  BY EnvKept DEF Blinding
<1>1. CASE UNCHANGED <<portal, baseline, foreign, restamped>>
  BY <1>0, <1>1, <1>e DEF StampInv
<1>2. ASSUME NEW i \in Ids, NEW r, portal[i].live \/ i \notin DOMAIN baseline \/ Blinding,
             UNCHANGED baseline,
             portal' = [portal EXCEPT ![i] = r], r.stamp = portal[i].stamp + 1,
             i \in foreign' => r.live,
             foreign' \ {i} \subseteq foreign \ {i}, restamped' \ {i} = restamped \ {i},
             foreign' \subseteq Ids
      PROVE  StampInv'
  <2>1. /\ \A j \in Ids \ {i} : portal'[j] = portal[j]
        /\ portal'[i] = r
    BY <1>0, <1>2
  <2>2. /\ portal[i].stamp \in Nat /\ portal'[i].stamp = portal[i].stamp + 1
    BY <1>0, <1>2, <2>1
  <2>3. \A j \in foreign' : portal'[j].live
    BY <1>0, <1>2, <2>1 DEF StampInv
  <2>4. \A j \in Ids : portal'[j].live => portal'[j].stamp # 0
    BY <1>0, <2>1, <2>2 DEF StampInv
  <2>5. ASSUME NEW j \in DOMAIN baseline
        PROVE  /\ baseline[j].stamp <= portal'[j].stamp
               /\ baseline[j].stamp = 0 => ~portal'[j].live \/ Blinding
               /\ j \in foreign' \ restamped' /\ baseline[j].stamp # 0
                     => baseline[j].stamp # portal'[j].stamp
    <3>1. CASE j = i
      BY <1>0, <1>2, <2>2, <3>1 DEF StampInv
    <3>2. CASE j # i
      BY <1>0, <1>2, <2>1, <3>2 DEF StampInv
    <3> QED
      BY <3>1, <3>2
  <2> QED
    BY <1>2, <1>e, <2>3, <2>4, <2>5 DEF StampInv
<1>3. ASSUME NEW i \in Ids, RemoteDelete(i) PROVE StampInv'
  <2>1. /\ UNCHANGED baseline /\ portal[i].live
        /\ portal' = [portal EXCEPT ![i] = Removed(portal[i])]
        /\ Removed(portal[i]).stamp = portal[i].stamp + 1
        /\ foreign' = foreign \ {i} /\ restamped' = restamped
    BY <1>0, <1>3 DEF RemoteDelete, Removed, fileVars
  <2> QED
    BY <1>0, <1>2, <2>1
<1>4. ASSUME NEW i \in Ids, NEW c \in Content, RemoteEdit(i, c) PROVE StampInv'
  <2> DEFINE r == [live |-> TRUE, attr |-> c.attr, geom |-> c.geom, stamp |-> portal[i].stamp + 1]
  <2>1. /\ UNCHANGED baseline /\ portal[i].live
        /\ portal' = [portal EXCEPT ![i] = r]
        /\ r.stamp = portal[i].stamp + 1 /\ r.live
        /\ foreign' = foreign \cup {i} /\ restamped' = restamped \ {i}
    BY <1>0, <1>4 DEF RemoteEdit, fileVars
  <2> HIDE DEF r
  <2> QED
    BY <1>0, <1>2, <2>1
<1>5. ASSUME NEW k \in Pushes, WorkerDone(k) PROVE StampInv'
  <2>1. UNCHANGED baseline
    BY <1>5 DEF WorkerDone, fileVars
  <2>2. CASE UNCHANGED portalVars
    BY <1>1, <2>1, <2>2 DEF portalVars
  <2>3. CASE ~UNCHANGED portalVars
    <3>1. PICK op \in inflight[k] :
             /\ op.id \in Ids /\ ~Refused(op)
             /\ portal' = [portal EXCEPT ![op.id] = Written(op)]
             /\ Written(op).stamp = portal[op.id].stamp + 1
             /\ foreign' = foreign \ {op.id} /\ restamped' = restamped \ {op.id}
      BY <1>5, <2>3, RequestEffect
    <3>2. portal[op.id].live \/ op.id \notin DOMAIN baseline \/ Blinding
      BY <3>1, WireBased DEF Refused
    <3>3. /\ foreign' \ {op.id} \subseteq foreign \ {op.id}
          /\ restamped' \ {op.id} = restamped \ {op.id}
          /\ op.id \notin foreign' /\ foreign' \subseteq Ids
      BY <1>0, <3>1
    <3> QED
      BY <1>2, <2>1, <3>1, <3>2, <3>3
  <2> QED
    BY <2>2, <2>3
<1>6. ASSUME NEW k \in Pushes, RefreshBaseline(k) PROVE StampInv'
  <2>1. PICK seen \in Answers : /\ baseline' = SnapshotBaseline(local, seen)
                                /\ restamped' = IF seen = portal THEN foreign ELSE restamped
    BY <1>6 DEF RefreshBaseline
  <2>2. UNCHANGED <<portal, foreign>>
    BY <1>6 DEF RefreshBaseline, TaskOver
  <2>3. seen = portal \/ (seen = Emptied /\ Blinding)
    BY DEF Answers, Blinding
  <2>4. \A i \in DOMAIN baseline' :
           i \in Ids /\ baseline'[i].stamp = IF seen[i].live THEN seen[i].stamp ELSE 0
    <3>1. BaseOK(baseline')
      BY <2>1, FileRowsOK, SnapshotType, AnswerType DEF PushInv, TypeOK
    <3> QED
      BY <2>1, <3>1 DEF SnapshotBaseline, BaseOK
  <2>5. CASE seen = portal
    BY <1>0, <1>e, <2>1, <2>2, <2>4, <2>5 DEF StampInv
  <2>6. CASE seen = Emptied /\ Blinding /\ seen # portal
    <3>1. \A i \in DOMAIN baseline' : i \in Ids /\ baseline'[i].stamp = 0
      BY <2>4, <2>6 DEF Emptied
    <3> QED
      BY <1>0, <1>e, <2>1, <2>2, <2>6, <3>1 DEF StampInv
  <2> QED
    BY <2>3, <2>5, <2>6
<1>7. ASSUME NEW k \in Pushes, RefreshDropsTable(k) PROVE StampInv'
  <2>1. UNCHANGED <<portal, foreign, restamped>> /\ baseline' = << >>
    BY <1>7 DEF RefreshDropsTable, TaskOver
  <2>2. DOMAIN << >> = {}
    OBVIOUS
  <2> QED
    BY <1>0, <2>1, <2>2 DEF StampInv
<1>8. CASE User
  BY <1>1, <1>8, UserStep DEF portalVars
<1> QED
  BY <1>1, <1>3, <1>4, <1>5, <1>6, <1>7, <1>8
     DEF Next, Others, Dialog, Check, OpenDialog, StampMintedIds, CheckConflicts, CheckFails,
         SendUnchecked, OverwriteConflicts, SkipConflicts, AbandonPush, CloseDialog,
         DismissDuringPush, Worker, WorkerTake, WorkerReturn, Callback, PushIncomplete,
         RefreshFails, TaskOver, Crash, vars, portalVars, fileVars

\* What the check does not report nobody else changed, but for stamps taken over
\* and rows there were no two stamps for.
LEMMA CheckedRows ==
    ASSUME PushInv, phase = "stamped", NEW seen \in Answers,
           NEW op \in plan, op.kind # "create",
           op.id \in foreign, op.id \notin FindConflicts(plan, baseline, seen)
    PROVE  \/ op.id \in restamped
           \/ op.id \in Uncompared(plan, baseline, seen) /\ Blinding
<1>1. seen = portal \/ (seen = Emptied /\ Blinding)
  BY DEF Answers, Blinding
<1>2. op.id \in Ids /\ portal[op.id].live
  BY DEF PushInv, TypeOK, PortalTypeOK, StampInv
<1>3. CASE op.id \in Uncompared(plan, baseline, seen)
  <2>1. ~Blinding => seen = portal /\ op.id \in DOMAIN baseline
    BY <1>1, PlanBased DEF PushInv, OnePush, Blinding, InPush
  <2>2. ~Blinding => baseline[op.id].stamp # 0
    BY <1>2, <2>1 DEF PushInv, StampInv
  <2>3. PICK o \in plan : o.kind # "create" /\ o.id = op.id
                          /\ (o.id \notin DOMAIN baseline \/ baseline[o.id].stamp = 0
                              \/ ~seen[o.id].live)
    BY <1>3 DEF Uncompared
  <2> QED
    BY <1>2, <1>3, <2>1, <2>2, <2>3
<1>4. CASE op.id \notin Uncompared(plan, baseline, seen)
  <2>1. op.id \in DOMAIN baseline /\ baseline[op.id].stamp # 0 /\ seen[op.id].live
    BY <1>4 DEF Uncompared
  <2>2. seen = portal
    BY <1>1, <1>2, <2>1 DEF Emptied
  <2>3. portal[op.id].stamp = baseline[op.id].stamp
    BY <2>1, <2>2 DEF FindConflicts
  <2> QED
    BY <2>1, <2>3 DEF PushInv, StampInv
<1> QED
  BY <1>3, <1>4

\* A task keeps its warnings as long as it gets no more work, and what it missed
\* is noted.
LEMMA WarningsStay ==
    ASSUME NEW k \in Pushes, TaskWarned(k), env' = env,
           todo'[k] \cup inflight'[k] \subseteq todo[k] \cup inflight[k],
           todo'[k] \cup inflight'[k] # {} =>
              /\ consented'[k] = consented[k] /\ declined'[k] = declined[k]
              /\ blind'[k] = blind[k]
              /\ \A i \in foreign' : i \in foreign \/ i \in late'[k]
              /\ \A i \in foreign' : i \in late[k] \cup restamped => i \in late'[k] \cup restamped'
    PROVE  TaskWarned(k)'
<1> SUFFICES ASSUME NEW op \in todo'[k] \cup inflight'[k]
             PROVE  /\ op.kind # "create" => Warned(k, op.id, consented[k])'
                    /\ op.id \notin declined'[k]
  BY DEF TaskWarned
<1>1. /\ op \in todo[k] \cup inflight[k]
      /\ consented'[k] = consented[k] /\ declined'[k] = declined[k] /\ blind'[k] = blind[k]
      /\ Blinding' = Blinding
      /\ op.id \in foreign' => op.id \in foreign \/ op.id \in late'[k]
      /\ op.id \in foreign' /\ op.id \in late[k] \cup restamped => op.id \in late'[k] \cup restamped'
  BY DEF Blinding
<1> QED
  BY <1>1 DEF TaskWarned, Warned

LEMMA WarnStep == PushInv /\ [Next]_vars => WarnInv'
<1> SUFFICES ASSUME PushInv, [Next]_vars PROVE WarnInv'
  OBVIOUS
<1>0. WarnInv /\ TasksTypeOK /\ ScreenInv /\ PortalTypeOK /\ (\A k \in Pushes : TaskInv(k))
  BY DEF PushInv, TypeOK, TasksInv
<1>1. ASSUME UNCHANGED <<plan, conflicts, todo, inflight, consented, declined, blind, env, pushes>>,
             phase' = "asking" => phase = "asking",
             \A k \in Pushes, i \in foreign' :
                HasChecked(k) =>
                    /\ i \in foreign \/ i \in late'[k]
                    /\ i \in late[k] \cup restamped => i \in late'[k] \cup restamped'
      PROVE  WarnInv'
  <2>1. ASSUME NEW k \in Pushes PROVE TaskWarned(k)'
    <3>1. todo[k] \cup inflight[k] # {} => HasChecked(k)
      BY <1>0 DEF TaskInv, HasChecked
    <3> QED
      BY <1>0, <1>1, <3>1, WarningsStay DEF WarnInv
  <2>2. ASSUME phase' = "asking", NEW op \in plan, op.kind # "create"
        PROVE  Warned(pushes, op.id, conflicts)'
    <3>1. phase = "asking" /\ pushes \in Pushes /\ HasChecked(pushes)
      BY <1>0, <1>1, <2>2 DEF ScreenInv, InPush, HasChecked
    <3>2. Warned(pushes, op.id, conflicts)
      BY <1>0, <2>2, <3>1 DEF WarnInv
    <3> QED
      BY <1>1, <3>1, <3>2 DEF Warned, Blinding
  <2> QED
    BY <1>1, <2>1, <2>2 DEF WarnInv
<1>2. ASSUME NEW work \in SUBSET plan, NEW agreed, NEW skipped,
             StartTask(work, agreed, skipped), phase \in {"stamped", "unread", "asking"},
             UNCHANGED <<env, pushes, foreign, restamped>>,
             \A j \in Pushes \ {pushes} : late'[j] = late[j] /\ blind'[j] = blind[j],
             \A op \in work :
                /\ op.kind # "create" /\ op.id \in foreign \ agreed
                      => op.id \in late'[pushes] \cup restamped
                         \/ (op.id \in blind'[pushes] /\ Blinding)
                /\ op.id \notin skipped
      PROVE  WarnInv'
  <2>1. /\ pushes \in Pushes /\ phase' = "pushing"
        /\ todo'[pushes] = work /\ inflight'[pushes] = {}
        /\ \A k \in Pushes \ {pushes} : todo'[k] = todo[k] /\ inflight'[k] = inflight[k]
    BY <1>2, StartEffect DEF PushInv
  <2>2. /\ consented'[pushes] = agreed /\ declined'[pushes] = skipped
        /\ \A k \in Pushes \ {pushes} : consented'[k] = consented[k] /\ declined'[k] = declined[k]
    BY <1>0, <1>2, <2>1 DEF StartTask, TasksTypeOK
  <2>3. TaskWarned(pushes)'
    BY <1>2, <2>1, <2>2 DEF TaskWarned, Warned, Blinding
  <2>4. ASSUME NEW k \in Pushes, k # pushes PROVE TaskWarned(k)'
    <3>1. TaskWarned(k)
      BY <1>0 DEF WarnInv
    <3>2. /\ todo'[k] = todo[k] /\ inflight'[k] = inflight[k]
          /\ consented'[k] = consented[k] /\ declined'[k] = declined[k]
          /\ blind'[k] = blind[k] /\ late'[k] = late[k]
      BY <1>2, <2>1, <2>2, <2>4
    <3> QED
      BY <1>2, <3>1, <3>2, WarningsStay
  <2> QED
    BY <1>2, <2>1, <2>3, <2>4 DEF WarnInv
<1>3. CASE CheckConflicts
  <2>1. /\ phase = "stamped" /\ pushes \in Pushes /\ at[pushes] = "idle"
        /\ todo[pushes] = {} /\ inflight[pushes] = {}
        /\ UNCHANGED <<foreign, restamped, env, pushes>>
    BY <1>0, <1>3 DEF CheckConflicts, boundVars, ScreenInv, InPush, TaskInv
  <2>2. PICK seen \in Answers :
           /\ late' = [late EXCEPT ![pushes] = {}]
           /\ blind' = [blind EXCEPT ![pushes] = Uncompared(plan, baseline, seen)]
           /\ IF FindConflicts(plan, baseline, seen) = {}
              THEN StartTask(plan, {}, {})
              ELSE /\ phase' = "asking"
                   /\ conflicts' = FindConflicts(plan, baseline, seen)
                   /\ UNCHANGED <<plan, todo, inflight, consented, declined>>
    BY <1>3 DEF CheckConflicts
  <2>3. /\ blind'[pushes] = Uncompared(plan, baseline, seen)
        /\ \A j \in Pushes \ {pushes} : late'[j] = late[j] /\ blind'[j] = blind[j]
    BY <1>0, <2>1, <2>2 DEF TasksTypeOK, PortalTypeOK
  <2>4. \A op \in plan :
           op.kind # "create" /\ op.id \in foreign \ FindConflicts(plan, baseline, seen)
               => op.id \in restamped \/ (op.id \in blind'[pushes] /\ Blinding)
    BY <2>1, <2>3, CheckedRows
  <2>5. CASE FindConflicts(plan, baseline, seen) = {}
    BY <1>2, <2>1, <2>2, <2>3, <2>4, <2>5
  <2>6. CASE FindConflicts(plan, baseline, seen) # {}
    <3>1. /\ phase' = "asking" /\ conflicts' = FindConflicts(plan, baseline, seen)
          /\ UNCHANGED <<plan, todo, inflight, consented, declined>>
      BY <2>2, <2>6
    <3>2. ASSUME NEW op \in plan, op.kind # "create" PROVE Warned(pushes, op.id, conflicts)'
      BY <2>1, <2>4, <3>1, <3>2 DEF Warned, Blinding
    <3>3. ASSUME NEW k \in Pushes PROVE TaskWarned(k)'
      <4>1. TaskWarned(k)
        BY <1>0 DEF WarnInv
      <4>2. k # pushes => late'[k] = late[k] /\ blind'[k] = blind[k]
        BY <2>3
      <4>3. /\ todo'[k] = todo[k] /\ inflight'[k] = inflight[k]
            /\ consented'[k] = consented[k] /\ declined'[k] = declined[k]
        BY <3>1
      <4>4. k = pushes => todo'[k] \cup inflight'[k] = {}
        BY <2>1, <4>3
      <4> QED
        BY <2>1, <4>1, <4>2, <4>3, <4>4, WarningsStay
    <3> QED
      BY <3>1, <3>2, <3>3 DEF WarnInv
  <2> QED
    BY <2>5, <2>6
<1>4. CASE SendUnchecked
  <2>1. \A op \in plan : op.id \in Ids
    BY DEF PushInv, TypeOK, DialogTypeOK, Op
  <2> QED
    BY <1>0, <1>2, <1>4, <2>1 DEF SendUnchecked, portalVars, boundVars, PortalTypeOK
<1>5. CASE OverwriteConflicts
  BY <1>0, <1>2, <1>5 DEF OverwriteConflicts, WarnInv, Warned, portalVars, boundVars
<1>6. ASSUME UNCHANGED <<todo, inflight, consented, declined, blind, env, portalVars>>,
             phase' # "asking"
      PROVE  WarnInv'
  BY <1>0, <1>6 DEF WarnInv, TaskWarned, Warned, Blinding, portalVars
<1>7. CASE SkipConflicts
  <2>1. CASE BackToOpen
    BY <1>7, <1>6, <2>1 DEF SkipConflicts, BackToOpen, boundVars
  <2>2. CASE StartTask(WithoutConflicts(plan, conflicts), {}, conflicts)
    <3>1. /\ WithoutConflicts(plan, conflicts) \subseteq plan
          /\ \A op \in WithoutConflicts(plan, conflicts) : op.id \notin conflicts
      BY DEF WithoutConflicts
    <3>2. phase = "asking" /\ UNCHANGED <<env, pushes, foreign, restamped, late, blind>>
      BY <1>7 DEF SkipConflicts, portalVars, boundVars
    <3>3. \A op \in WithoutConflicts(plan, conflicts) :
             op.kind # "create" /\ op.id \in foreign
                 => op.id \in late[pushes] \cup restamped \/ (op.id \in blind[pushes] /\ Blinding)
      BY <1>0, <3>1, <3>2 DEF WarnInv, Warned
    <3> QED
      BY <1>2, <2>2, <3>1, <3>2, <3>3
  <2> QED
    BY <1>7, <2>1, <2>2 DEF SkipConflicts
<1>8. CASE OpenDialog \/ StampMintedIds \/ CheckFails \/ AbandonPush \/ CloseDialog
           \/ DismissDuringPush
  BY <1>6, <1>8 DEF OpenDialog, StampMintedIds, CheckFails, AbandonPush, BackToOpen, CloseDialog,
                    DismissDuringPush, LeaveScreen, taskVars, boundVars
<1>9. ASSUME NEW k \in Pushes, Worker(k) PROVE WarnInv'
  <2>1. /\ UNCHANGED <<phase, plan, conflicts, consented, declined, blind, env, pushes>>
        /\ at[k] = "sending"
        /\ \A j \in Pushes : todo'[j] \cup inflight'[j] \subseteq todo[j] \cup inflight[j]
    BY <1>0, <1>9 DEF Worker, WorkerTake, WorkerDone, WorkerReturn, dialogVars, boundVars,
                      TasksTypeOK
  <2>2. \A j \in Pushes, i \in foreign' :
            /\ i \in foreign
            /\ i \in late[j] \cup restamped => i \in late'[j] \cup restamped'
    <3>1. CASE UNCHANGED portalVars
      BY <3>1 DEF portalVars
    <3>2. CASE WorkerDone(k) /\ ~UNCHANGED portalVars
      BY <3>2, RequestEffect
    <3> QED
      BY <1>9, <3>1, <3>2 DEF Worker, WorkerTake, WorkerReturn
  <2>3. ASSUME NEW j \in Pushes PROVE TaskWarned(j)'
    BY <1>0, <2>1, <2>2, WarningsStay DEF WarnInv
  <2>4. ASSUME phase = "asking", NEW op \in plan, op.kind # "create"
        PROVE  Warned(pushes, op.id, conflicts)'
    <3>1. pushes \in Pushes /\ Warned(pushes, op.id, conflicts)
      BY <1>0, <2>4 DEF WarnInv, ScreenInv, InPush
    <3> QED
      BY <2>1, <2>2, <3>1 DEF Warned, Blinding
  <2> QED
    BY <2>1, <2>3, <2>4 DEF WarnInv
<1>10. ASSUME NEW k \in Pushes, Callback(k) PROVE WarnInv'
  <2>1. /\ todo' = [todo EXCEPT ![k] = {}] /\ inflight' = inflight /\ inflight[k] = {}
        /\ UNCHANGED <<env, pushes, foreign>> /\ at[k] # "idle"
        /\ OnScreen(k) => phase' \in {"open", "closed"}
        /\ ~OnScreen(k) => UNCHANGED <<phase, plan, conflicts>>
    BY <1>10, CallbackEffect DEF PushInv, boundVars
  <2>2. TaskOver(k) /\ (restamped' = restamped \/ restamped' = foreign)
    BY <1>10 DEF Callback, PushIncomplete, RefreshBaseline, RefreshFails, RefreshDropsTable
  <2>3. \A j \in Pushes \ {k} :
           /\ todo'[j] = todo[j] /\ inflight'[j] = inflight[j] /\ consented'[j] = consented[j]
           /\ declined'[j] = declined[j] /\ blind'[j] = blind[j] /\ late'[j] = late[j]
    BY <1>0, <2>1, <2>2 DEF TaskOver, TasksTypeOK, PortalTypeOK
  <2>4. \A i \in foreign' : i \in foreign /\ (i \in restamped => i \in restamped')
    BY <2>1, <2>2
  <2>5. ASSUME NEW j \in Pushes PROVE TaskWarned(j)'
    <3>1. TaskWarned(j)
      BY <1>0 DEF WarnInv
    <3>2. j = k => todo'[j] \cup inflight'[j] = {}
      BY <1>0, <2>1 DEF TasksTypeOK
    <3>3. j # k =>
             /\ todo'[j] \cup inflight'[j] = todo[j] \cup inflight[j]
             /\ consented'[j] = consented[j] /\ declined'[j] = declined[j]
             /\ blind'[j] = blind[j] /\ late'[j] = late[j]
      BY <2>3
    <3> QED
      BY <2>1, <2>4, <3>1, <3>2, <3>3, WarningsStay
  <2>6. ASSUME phase' = "asking", NEW op \in plan', op.kind # "create"
        PROVE  Warned(pushes, op.id, conflicts)'
    <3>1. ~OnScreen(k) /\ phase = "asking" /\ op \in plan /\ conflicts' = conflicts
      BY <2>1, <2>6
    <3>2. pushes \in Pushes /\ pushes # k /\ Warned(pushes, op.id, conflicts)
      BY <1>0, <2>1, <2>6, <3>1 DEF WarnInv, ScreenInv, InPush
    <3>3. blind'[pushes] = blind[pushes] /\ late'[pushes] = late[pushes]
      BY <2>3, <3>2
    <3> QED
      BY <2>1, <2>4, <3>1, <3>2, <3>3 DEF Warned, Blinding
  <2> QED
    BY <2>5, <2>6 DEF WarnInv
<1>11. CASE Crash
  <2>1. phase' = "closed" /\ \A k \in Pushes : todo'[k] = {} /\ inflight'[k] = {}
    BY <1>11 DEF Crash, LeaveScreen
  <2> QED
    BY <2>1 DEF WarnInv, TaskWarned
<1>12. CASE Others \/ UNCHANGED vars
  <2>1. UNCHANGED <<phase, plan, conflicts, todo, inflight, consented, declined, blind, env,
                    pushes>>
    BY <1>12 DEF Others, RemoteEdit, RemoteDelete, vars, taskVars, dialogVars, boundVars
  <2>2. ASSUME NEW k \in Pushes, NEW i \in foreign', HasChecked(k)
        PROVE  /\ i \in foreign \/ i \in late'[k]
               /\ i \in late[k] \cup restamped => i \in late'[k] \cup restamped'
    BY <1>12, <2>2 DEF Others, RemoteEdit, RemoteDelete, vars, portalVars
  <2> QED
    BY <1>1, <2>1, <2>2
<1>13. CASE User
  BY <1>6, <1>13, UserStep DEF taskVars, dialogVars, CanEdit
<1> QED
  BY <1>3, <1>4, <1>5, <1>7, <1>8, <1>9, <1>10, <1>11, <1>12, <1>13 DEF Next, Dialog, Check

LEMMA PushInit == Init => PushInv
<1> SUFFICES ASSUME Init PROVE OnePush /\ StampInv /\ WarnInv
  BY TypeInit, TasksInit, OneCopyInit, ReplanInit DEF PushInv
<1>1. \A i \in Ids : /\ portal[i].live <=> i \in Cloned
                     /\ portal[i].stamp = IF i \in Cloned THEN 1 ELSE 0
  BY DEF Init
<1>2. DOMAIN baseline = Cloned /\ \A i \in Cloned : i \in Ids /\ baseline[i].stamp = 1
  BY CloneAssumption DEF Init, Cloned
<1>3. foreign = {} /\ restamped = {}
  BY DEF Init
<1>4. StampInv
  BY <1>1, <1>2, <1>3 DEF StampInv
<1>5. OnePush
  BY DEF Init, OnePush
<1>6. \A k \in Pushes : todo[k] = {} /\ inflight[k] = {}
  BY DEF Init
<1> QED
  BY <1>4, <1>5, <1>6 DEF Init, WarnInv, TaskWarned

LEMMA PushStep == PushInv /\ [Next]_vars => PushInv'
<1>1. PushInv /\ [Next]_vars => TypeOK'
  BY PortalTypeStep, FileTypeStep, DialogTypeStep, TasksTypeStep, BoundTypeStep
     DEF PushInv, TypeOK
<1> QED
  BY <1>1, TasksStep, OneCopyStep, ReplanStep, OnePushStep, StampStep, WarnStep DEF PushInv

\* Only a request that comes back changes a row of the portal, the one it names.
LEMMA RequestReturns ==
    ASSUME PushInv, [Next]_vars, NEW k \in Pushes, inflight[k] # {}, inflight'[k] = {},
           NEW i \in Ids, portal'[i] # portal[i]
    PROVE  \E op \in inflight[k] : op.id = i
<1>1. PICK j \in Pushes : WorkerDone(j)
  BY UserStep
     DEF Next, Others, RemoteEdit, RemoteDelete, Dialog, OpenDialog, StampMintedIds, Check,
         CheckConflicts, CheckFails, SendUnchecked, OverwriteConflicts, SkipConflicts,
         AbandonPush, CloseDialog, DismissDuringPush, Worker, WorkerTake, WorkerReturn,
         Callback, PushIncomplete, RefreshBaseline, RefreshFails, RefreshDropsTable, TaskOver,
         Crash, vars, portalVars, taskVars
<1>2. j = k
  BY <1>1 DEF WorkerDone, PushInv, TypeOK, TasksTypeOK
<1> QED
  BY <1>1, <1>2, RequestEffect DEF portalVars, PushInv, TypeOK, PortalTypeOK

\* "Skip those, send the rest": a row the user chose to leave as it is on the
\* portal is not written by that push.
THEOREM SkipIsHonoured == Spec => SkipHonoured
<1>1. PushInv /\ [Next]_vars
      => [\A k \in Pushes : \A i \in declined[k] :
             inflight[k] # {} /\ inflight'[k] = {} => portal'[i] = portal[i]]_vars
  <2> SUFFICES ASSUME PushInv, [Next]_vars, NEW k \in Pushes, NEW i \in declined[k],
                      inflight[k] # {}, inflight'[k] = {}, portal'[i] # portal[i]
               PROVE  FALSE
    OBVIOUS
  <2>1. i \in Ids
    BY DEF PushInv, TypeOK, TasksTypeOK
  <2>2. \E op \in inflight[k] : op.id = i
    BY <2>1, RequestReturns
  <2> QED
    BY <2>2 DEF PushInv, WarnInv, TaskWarned
<1> QED
  BY <1>1, PushInit, PushStep, PTL DEF Spec, SkipHonoured

\* A push that overwrites somebody else's change without the user's consent hits
\* one that landed after its check, one whose stamp a baseline refresh took over,
\* or, where the portal may answer with no features or an earlier push may still
\* be out, a row the check had no two stamps for: it misses nothing else.
THEOREM OnlyWindowIsSilent == Spec => ConflictWindow
<1>1. PushInv /\ [Next]_vars
      => [\A k \in Pushes, i \in Ids :
             Overwrites(k, i)
                 => \/ i \in late[k] \cup restamped
                    \/ i \in blind[k] /\ {"garbled", "dismiss"} \cap env # {}]_vars
  <2> SUFFICES ASSUME PushInv, NEW k \in Pushes, NEW i \in Ids, Overwrites(k, i)
               PROVE  \/ i \in late[k] \cup restamped
                      \/ i \in blind[k] /\ Blinding
    BY DEF Blinding
  <2>1. PICK op \in inflight[k] : op.id = i /\ op.kind # "create"
    BY DEF Overwrites
  <2>2. i \in foreign \ consented[k]
    BY DEF Overwrites
  <2> QED
    BY <2>1, <2>2 DEF PushInv, WarnInv, TaskWarned, Warned
<1> QED
  BY <1>1, PushInit, PushStep, PTL DEF Spec, ConflictWindow

-----------------------------------------------------------------------------
(* What a finished push may call synced.                                   *)

\* Nothing goes wrong, whatever others edit and however long the user goes on.
Calm(e) == e \subseteq {"remoteEdit", "checkfail", "garbled", "split", "lateEdit"}

\* Environments in which no geometry is cleared and no conflict skipped, and in
\* which the user saves all edits before the first push unless nothing goes wrong.
Steady(e) == "clear" \notin e /\ "skip" \notin e /\ ("lateEdit" \in e => Calm(e))

NoneEmpty == \A f \in DOMAIN local : local[f].geom # NoGeom

\* Before the first push every id in circulation is one of the baseline's.
FirstPush ==
    /\ \A i \in Ids : portal[i].live => i \in issued
    /\ pushes = 0 => issued \subseteq DOMAIN baseline

TasksOut == \E k \in Pushes : at[k] # "idle"

\* The rows keep the ids the first push gave them, and do not change behind a
\* push, dismissed or not.
RowsStay ==
    /\ pushes # 0 /\ "lateEdit" \notin env => AllOwn
    /\ TasksOut => AllOwn

\* What is recorded as synced was sent, what is live is recorded or has its row,
\* and a row that is live and not recorded was sent as it is.
Accounted ==
    /\ \A i \in DOMAIN baseline : ContentOf(baseline[i]) \in sent[i]
    /\ \A i \in Ids : portal[i].live => i \in DOMAIN baseline \/ HasRow(i)
    /\ \A f \in DOMAIN local :
          LET i == local[f].gid
          IN  i \in Ids \ DOMAIN baseline /\ portal[i].live
                  => ContentOf(local[f]) \in sent[i]

\* Ops that leave nothing out: a row that was not sent as it is is sent, and a
\* feature without a row is deleted.
Covers(work) ==
    /\ \A f \in DOMAIN local :
          \/ Owns(local, f) /\ ContentOf(local[f]) \in sent[local[f].gid]
          \/ \E op \in work :
                op.kind # "delete" /\ op.fid = f /\ ContentOf(op) = ContentOf(local[f])
    /\ \A i \in Ids :
          portal[i].live /\ ~HasRow(i) => \E op \in work : op.kind = "delete" /\ op.id = i

\* A feature that is there already is created again only as it was sent.
CreatesSent(work) ==
    \A op \in work : op.kind = "create" /\ portal[op.id].live => ContentOf(op) \in sent[op.id]

\* So it is with what the dialog shows and with what each task was given.
PlanFits == phase \in {"open"} \cup InPush => Covers(plan) /\ CreatesSent(plan)
OpsFit ==
    \A k \in Pushes : at[k] # "idle" =>
        Covers(ops[k]) /\ CreatesSent(ops[k]) /\ \A op \in ops[k] : OfTheFile(op)

\* What a worker is through with and did not see fail has been done.
Done(k) == ops[k] \ (todo[k] \cup inflight[k] \cup failed[k])
HasBeenDone(op) ==
    IF op.kind = "delete" THEN ~portal[op.id].live ELSE ContentOf(op) \in sent[op.id]
DoneIsDone ==
    \A k \in Pushes : at[k] \in {"sending", "complete"} => \A op \in Done(k) : HasBeenDone(op)

\* With nothing going wrong every push completes: a row of the baseline is live
\* until its own delete is done, a created one from its create on.
Leaving(i) == phase = "pushing" /\ ~HasRow(i)
                 /\ \A op \in todo[pushes] \cup inflight[pushes] : op.id # i
CalmPush ==
    Calm(env) =>
        /\ \A k \in Pushes : ~cancelled[k] /\ failed[k] = {} /\ at[k] # "cancelled"
        /\ \A i \in DOMAIN baseline : portal[i].live \/ Leaving(i)
        /\ IF phase = "pushing"
           THEN /\ ops[pushes] = plan
                /\ \A op \in plan \ (todo[pushes] \cup inflight[pushes]) :
                       op.kind = "create" => portal[op.id].live
           ELSE \A i \in Ids : portal[i].live => i \in DOMAIN baseline

SteadyInv ==
    /\ NoneEmpty /\ FirstPush /\ RowsStay /\ Accounted
    /\ PlanFits /\ OpsFit /\ DoneIsDone /\ CalmPush

-----------------------------------------------------------------------------
(* Rows and plans.                                                         *)

\* Edits find no push out and the portal's features recorded: either nothing was
\* ever pushed, or everything was.
LEMMA EditsFind ==
    ASSUME PushInv, Steady(env), SteadyInv, User
    PROVE  /\ phase = "closed" /\ ~TasksOut
           /\ pushes = 0 \/ "lateEdit" \in env
           /\ \A i \in Ids : portal[i].live => i \in DOMAIN baseline
<1>1. phase = "closed" /\ (pushes = 0 \/ "lateEdit" \in env)
  BY UserStep DEF CanEdit
<1>2. CASE pushes = 0
  <2>1. \A k \in Pushes : k > pushes
    BY <1>2, BoundAssumption DEF Pushes
  <2> QED
    BY <1>1, <1>2, <2>1 DEF SteadyInv, FirstPush, PushInv, TasksInv, TaskInv, TasksOut
<1>3. CASE "lateEdit" \in env
  <2>1. Calm(env) /\ "dismiss" \notin env
    BY <1>3 DEF Steady, Calm
  <2> QED
    BY <1>1, <2>1 DEF SteadyInv, CalmPush, TasksOut, PushInv, OnePush
<1> QED
  BY <1>1, <1>2, <1>3

LEMMA EditsLeaveGeometry ==
    ASSUME PushInv, "clear" \notin env, NoneEmpty, User
    PROVE  NoneEmpty'
<1> USE ValueAssumption
<1>1. ASSUME NEW f \in Fids, NEW c \in Content, EditRow(f, c) PROVE NoneEmpty'
  BY <1>1 DEF EditRow, SaveRows, OfContent, NoneEmpty
<1>2. ASSUME NEW c \in Content, AddRow(c) PROVE NoneEmpty'
  BY <1>2 DEF AddRow, SaveRows, OfContent, NoneEmpty
<1>3. ASSUME NEW f \in Fids, SplitRow(f) PROVE NoneEmpty'
  <2> DEFINE Part(i, g) == OfContent(i, [attr |-> local[f].attr, geom |-> g])
  <2>1. PICK g1, g2 \in Geoms :
           local' = [h \in DOMAIN local \cup {lastFid'} |->
                            IF h = f THEN Part(local[f].gid, g1)
                            ELSE IF h = lastFid' THEN Part(CopiedId(f), g2) ELSE local[h]]
    BY <1>3 DEF SplitRow, SaveRows
  <2>2. \A i : Part(i, g1).geom # NoGeom /\ Part(i, g2).geom # NoGeom
    BY DEF OfContent
  <2> HIDE DEF Part
  <2> QED
    BY <2>1, <2>2 DEF NoneEmpty
<1>4. ASSUME NEW f \in Fids, DeleteRow(f) PROVE NoneEmpty'
  BY <1>4 DEF DeleteRow, SaveRows, NoneEmpty
<1> QED
  BY <1>1, <1>2, <1>3, <1>4 DEF User

LEMMA OwnersOwn ==
    ASSUME PushInv, NoneEmpty, AllOwn
    PROVE  /\ DOMAIN local \subseteq Nat
           /\ \A f \in DOMAIN local : Owns(local, f) /\ local[f].gid \in Ids
           /\ \A f, g \in DOMAIN local : local[f].gid = local[g].gid => f = g
<1>1. RowsOK(local) /\ DOMAIN local \subseteq Nat
  BY FileRowsOK DEF PushInv, TypeOK, RowsOK, Fids
<1>2. \A f \in DOMAIN local : Owns(local, f)
  BY DEF AllOwn, EmptyRow, NoneEmpty
<1>3. \A f \in DOMAIN local : local[f].gid \in Ids
  BY <1>1, <1>2 DEF Owns, RowsOK, Row
<1> QED
  BY <1>1, <1>2, <1>3 DEF Owns

\* Once all rows own their ids the plan on screen is what they hold.
LEMMA PlanHeld ==
    ASSUME PushInv, phase \in {"open"} \cup InPush, AllOwn, NEW op \in plan
    PROVE  OfTheFile(op)
<1>1. PICK mint, base : plan = PlanOps(local, base, mint)
  BY DEF PushInv, ReplanInv, PlanFromFile, PlannedFrom
<1> QED
  BY <1>1, PlannedIsHeld

\* Stamping gives rows ids that nothing on the portal has, and none of a row
\* that has one goes; a row that owns its id keeps it.
LEMMA StampedRows ==
    ASSUME PushInv, StampMintedIds
    PROVE  /\ DOMAIN local' = DOMAIN local /\ AllOwn'
           /\ \A f \in DOMAIN local :
                 /\ ContentOf(local'[f]) = ContentOf(local[f])
                 /\ local'[f].gid = local[f].gid \/ local'[f].gid \notin issued
                 /\ Owns(local, f) => local'[f].gid = local[f].gid
           /\ \A i \in Ids : HasRow(i) => HasRow(i)'
<1>0. /\ local' = Stamped(local, plan) /\ DOMAIN local' = DOMAIN local /\ phase = "open"
      /\ RowsOK(local) /\ DOMAIN local \subseteq Nat
  BY FileRowsOK DEF StampMintedIds, Stamped, PushInv, TypeOK, RowsOK, Fids
<1>1. PICK mint, base : FreshMint(mint) /\ BaseFits(base) /\ plan = PlanOps(local, base, mint)
  BY <1>0 DEF PushInv, ReplanInv, PlanFromFile, PlannedFrom
<1>2. AllOwn'
  BY <1>1, StampedPlan DEF PushInv
<1>3. ASSUME NEW f \in DOMAIN local
      PROVE  /\ ContentOf(local'[f]) = ContentOf(local[f])
             /\ local'[f].gid = local[f].gid \/ local'[f].gid \notin issued
             /\ Owns(local, f) => local'[f].gid = local[f].gid
  <2>1. ContentOf(local'[f]) = ContentOf(local[f])
    BY <1>0 DEF Stamped, WithMintedId, OfContent, ContentOf
  <2>2. CASE local'[f].gid = local[f].gid
    BY <2>1, <2>2
  <2>3. CASE local'[f].gid # local[f].gid
    <3>1. PICK op \in Creating : op.fid = f /\ local'[f].gid = op.id
      BY <1>0, <2>3, StampedGid
    <3>2. op.id \notin issued
      BY <1>0, <2>3, <3>1 DEF PushInv, OneCopyInv, BeforeStamping, Claims
    <3>3. op.id = IF Owns(local, f) THEN local[f].gid ELSE mint[f]
      BY <1>1, <3>1, PlannedCreate DEF Creating
    <3> QED
      BY <2>1, <2>3, <3>1, <3>2, <3>3
  <2> QED
    BY <2>2, <2>3
<1>4. ASSUME NEW i \in Ids, HasRow(i) PROVE HasRow(i)'
  <2>1. PICK f \in DOMAIN local : Owns(local, f) /\ local[f].gid = i
    BY <1>0, <1>4, OwnerExists DEF HasRow
  <2> QED
    BY <1>0, <1>3, <2>1 DEF HasRow
<1> QED
  BY <1>0, <1>2, <1>3, <1>4

\* With all ids in place there is nothing to stamp.
LEMMA StampOwned ==
    ASSUME PushInv, NoneEmpty, AllOwn, StampMintedIds
    PROVE  local' = local
<1>1. /\ DOMAIN local' = DOMAIN local
      /\ \A f \in DOMAIN local :
            ContentOf(local'[f]) = ContentOf(local[f]) /\ local'[f].gid = local[f].gid
  BY StampedRows, OwnersOwn
<1>2. /\ local \in [DOMAIN local -> Row] /\ local' \in [DOMAIN local' -> Row]
  <2>1. FileTypeOK'
    BY FileTypeStep DEF PushInv, Next, Dialog
  <2> QED
    BY <2>1 DEF PushInv, TypeOK, FileTypeOK
<1>3. ASSUME NEW f \in DOMAIN local PROVE local'[f] = local[f]
  <2>1. local[f] \in Row /\ local'[f] \in Row
    BY <1>1, <1>2
  <2>2. local'[f].attr = local[f].attr /\ local'[f].geom = local[f].geom
    BY <1>1 DEF ContentOf
  <2> QED
    BY <1>1, <2>1, <2>2 DEF Row
<1> QED
  BY <1>1, <1>2, <1>3

\* When everything was sent, every row's content was, and nothing lives on the
\* portal without a row here.
LEMMA AllSentMeansSent ==
    ASSUME PushInv, SteadyInv, NEW k \in Pushes, AllSent(k)
    PROVE  /\ AllOwn
           /\ \A f \in DOMAIN local :
                 local[f].gid \in Ids /\ ContentOf(local[f]) \in sent[local[f].gid]
           /\ \A i \in Ids : portal[i].live => HasRow(i)
<1>0. /\ at[k] = "complete" /\ Done(k) = ops[k] /\ AllOwn /\ NoneEmpty
      /\ Covers(ops[k]) /\ \A op \in ops[k] : OfTheFile(op) /\ HasBeenDone(op)
  <2>1. at[k] = "complete" /\ failed[k] = {} /\ todo[k] = {} /\ inflight[k] = {}
    BY DEF AllSent, PushInv, TasksInv, TaskInv
  <2> QED
    BY <2>1 DEF SteadyInv, RowsStay, TasksOut, OpsFit, DoneIsDone, Done
<1>1. \A f \in DOMAIN local : local[f].gid \in Ids
  BY <1>0, OwnersOwn
<1>2. ASSUME NEW f \in DOMAIN local
      PROVE  ContentOf(local[f]) \in sent[local[f].gid]
  <2>1. CASE \E op \in ops[k] :
                op.kind # "delete" /\ op.fid = f /\ ContentOf(op) = ContentOf(local[f])
    <3>1. PICK op \in ops[k] :
                op.kind # "delete" /\ op.fid = f /\ ContentOf(op) = ContentOf(local[f])
      BY <2>1
    <3> QED
      BY <1>0, <3>1 DEF OfTheFile, HasBeenDone
  <2> QED
    BY <1>0, <2>1 DEF Covers
<1>3. ASSUME NEW i \in Ids, portal[i].live PROVE HasRow(i)
  BY <1>0, <1>3 DEF Covers, HasBeenDone
<1> QED
  BY <1>0, <1>1, <1>2, <1>3

-----------------------------------------------------------------------------
(* What a step may do to the portal.                                       *)

\* A request either changes nothing, being refused, lost on the way or a create
\* of what is there, or does what its op says.
RequestDid(k, op) ==
    /\ op \in ops[k] /\ op.id \in Ids /\ inflight[k] = {op} /\ op \notin todo[k]
    /\ OfTheFile(op) /\ AllOwn
    /\ \/ /\ UNCHANGED <<portal, sent>>
          /\ op \in failed'[k] \/ (op.kind = "create" /\ portal[op.id].live)
       \/ /\ \A i \in Ids \ {op.id} : portal'[i] = portal[i] /\ sent'[i] = sent[i]
          /\ portal'[op.id].live <=> op.kind # "delete"
          /\ sent[op.id] \subseteq sent'[op.id]
          /\ op.kind # "create" => portal[op.id].live
          /\ op.kind # "delete" => ContentOf(op) \in sent'[op.id]

LEMMA RequestDoes ==
    ASSUME PushInv, SteadyInv, NEW k \in Pushes, WorkerDone(k)
    PROVE  /\ at[k] = "sending" /\ failed[k] \subseteq failed'[k]
           /\ inflight' = [inflight EXCEPT ![k] = {}]
           /\ \A j \in Pushes \ {k} : failed'[j] = failed[j]
           /\ UNCHANGED <<fileVars, dialogVars, at, ops, todo, cancelled, boundVars>>
           /\ \E op \in inflight[k] : RequestDid(k, op)
<1>1. /\ at[k] = "sending" /\ failed[k] \subseteq failed'[k]
      /\ inflight' = [inflight EXCEPT ![k] = {}]
      /\ \A j \in Pushes \ {k} : failed'[j] = failed[j]
      /\ UNCHANGED <<fileVars, dialogVars, at, ops, todo, cancelled, boundVars>>
  BY DEF WorkerDone, PushInv, TypeOK, TasksTypeOK
<1>2. PICK op \in inflight[k] :
         \/ Apply(op) /\ (Refused(op) => op \in failed'[k])
         \/ UNCHANGED portalVars /\ op \in failed'[k]
  BY DEF WorkerDone, PushInv, TypeOK, TasksTypeOK
<1>3. /\ op \in ops[k] /\ op.id \in Ids /\ inflight[k] = {op} /\ op \notin todo[k]
      /\ portal \in [Ids -> PortalRow] /\ sent \in [Ids -> SUBSET Content]
      /\ op.kind \in {"create", "update", "delete"}
  <2>1. op \in ops[k] /\ inflight[k] = {op} /\ op \notin todo[k]
    BY DEF PushInv, TasksInv, TaskInv
  <2>2. op.id \in Ids /\ op.kind \in {"create", "update", "delete"}
    BY <2>1 DEF PushInv, TypeOK, TasksTypeOK, Op
  <2> QED
    BY <2>1, <2>2 DEF PushInv, TypeOK, PortalTypeOK
<1>4. OfTheFile(op) /\ AllOwn
  BY <1>1, <1>3 DEF SteadyInv, OpsFit, RowsStay, TasksOut
<1>5. op.kind # "delete" => op.geom # NoGeom
  BY <1>4 DEF OfTheFile, ContentOf, SteadyInv, NoneEmpty
<1>6. ASSUME UNCHANGED <<portal, sent>>, op \in failed'[k] PROVE RequestDid(k, op)
  BY <1>3, <1>4, <1>6 DEF RequestDid
<1>7. ASSUME Apply(op), Deduplicated(op) PROVE RequestDid(k, op)
  BY <1>3, <1>4, <1>7 DEF RequestDid, Apply, Deduplicated, portalVars
<1>8. ASSUME Apply(op), ~Refused(op), ~Deduplicated(op) PROVE RequestDid(k, op)
  <2>1. /\ portal' = [portal EXCEPT ![op.id] = Written(op)]
        /\ sent' = IF op.kind = "delete" THEN sent
                   ELSE [sent EXCEPT ![op.id] = sent[op.id] \cup {ContentOf(Written(op))}]
    BY <1>8 DEF Apply
  <2>2. /\ Written(op).live <=> op.kind # "delete"
        /\ op.kind # "delete" => ContentOf(Written(op)) = ContentOf(op)
    BY <1>3, <1>5 DEF Written, Removed, ContentOf
  <2>3. op.kind # "create" => portal[op.id].live
    BY <1>8 DEF Refused
  <2>4. portal'[op.id] = Written(op) /\ \A i \in Ids \ {op.id} : portal'[i] = portal[i]
    BY <1>3, <2>1
  <2>5. /\ \A i \in Ids \ {op.id} : sent'[i] = sent[i]
        /\ sent[op.id] \subseteq sent'[op.id]
        /\ op.kind # "delete" => ContentOf(Written(op)) \in sent'[op.id]
    BY <1>3, <2>1
  <2> QED
    BY <1>3, <1>4, <2>2, <2>3, <2>4, <2>5 DEF RequestDid
<1>9. RequestDid(k, op)
  BY <1>2, <1>6, <1>7, <1>8 DEF Apply, portalVars
<1> QED
  BY <1>1, <1>9

\* The rows stay, nothing that was sent is forgotten, and a feature that comes to
\* life is a row's, with the content the row has.
Progress ==
    /\ UNCHANGED local
    /\ \A i \in Ids :
          /\ sent[i] \subseteq sent'[i]
          /\ portal'[i].live /\ ~portal[i].live =>
                /\ AllOwn /\ HasRow(i)
                /\ \A f \in DOMAIN local :
                      local[f].gid = i => ContentOf(local[f]) \in sent'[i]

LEMMA Progresses ==
    ASSUME PushInv, SteadyInv, [Next]_vars
    PROVE  User \/ StampMintedIds \/ Progress
<1>1. CASE UNCHANGED <<local, portal, sent>>
  BY <1>1 DEF Progress
<1>2. CASE Others
  BY <1>2 DEF Others, RemoteEdit, RemoteDelete, Removed, fileVars, Progress, PushInv, TypeOK,
              PortalTypeOK
<1>3. ASSUME NEW k \in Pushes, WorkerDone(k) PROVE Progress
  <2>1. UNCHANGED local /\ \E op \in inflight[k] : RequestDid(k, op)
    BY <1>3, RequestDoes DEF fileVars
  <2>2. PICK op \in inflight[k] : RequestDid(k, op)
    BY <2>1
  <2>3. \A i \in Ids : sent[i] \subseteq sent'[i]
    BY <2>2 DEF RequestDid
  <2>4. ASSUME NEW i \in Ids, portal'[i].live, ~portal[i].live
        PROVE  /\ AllOwn /\ HasRow(i)
               /\ \A f \in DOMAIN local :
                     local[f].gid = i => ContentOf(local[f]) \in sent'[i]
    <3>1. /\ i = op.id /\ op.kind # "delete" /\ AllOwn /\ OfTheFile(op)
          /\ ContentOf(op) \in sent'[i]
      BY <2>2, <2>4 DEF RequestDid
    <3>2. \A f \in DOMAIN local : local[f].gid = i => f = op.fid
      BY <3>1, OwnersOwn DEF SteadyInv, OfTheFile
    <3> QED
      BY <3>1, <3>2 DEF OfTheFile, HasRow
  <2> QED
    BY <2>1, <2>3, <2>4 DEF Progress
<1> QED
  BY <1>1, <1>2, <1>3
     DEF Next, Dialog, Check, OpenDialog, CheckConflicts, CheckFails, SendUnchecked,
         OverwriteConflicts, SkipConflicts, AbandonPush, CloseDialog, DismissDuringPush, Worker,
         WorkerTake, WorkerReturn, Callback, PushIncomplete, RefreshBaseline, RefreshFails,
         RefreshDropsTable, TaskOver, Crash, fileVars, portalVars, vars

\* Under it a set of ops leaves out nothing more than before, and what was done
\* stays done.
LEMMA StillCovers ==
    ASSUME Progress, NEW work, Covers(work), PushInv
    PROVE  Covers(work)'
<1>1. local' = local /\ NoId \notin Ids
  BY ValueAssumption DEF Progress
<1>2. ASSUME NEW f \in DOMAIN local
      PROVE  \/ Owns(local, f) /\ ContentOf(local[f]) \in sent'[local[f].gid]
             \/ \E op \in work :
                   op.kind # "delete" /\ op.fid = f /\ ContentOf(op) = ContentOf(local[f])
  <2>1. Owns(local, f) => local[f].gid \in Ids
    BY DEF Owns, PushInv, TypeOK, FileTypeOK, Row
  <2> QED
    BY <2>1 DEF Covers, Progress
<1>3. ASSUME NEW i \in Ids, portal'[i].live, ~HasRow(i)
      PROVE  \E op \in work : op.kind = "delete" /\ op.id = i
  BY <1>3 DEF Covers, Progress
<1> QED
  BY <1>1, <1>2, <1>3 DEF Covers, HasRow

LEMMA StillSent ==
    ASSUME Progress, NEW work, work \subseteq Op, CreatesSent(work),
           AllOwn => \A op \in work : OfTheFile(op)
    PROVE  CreatesSent(work)'
<1> SUFFICES ASSUME NEW op \in work, op.kind = "create", portal'[op.id].live
             PROVE  ContentOf(op) \in sent'[op.id]
  BY DEF CreatesSent
<1>1. op.id \in Ids
  BY DEF Op
<1>2. CASE portal[op.id].live
  BY <1>1, <1>2 DEF CreatesSent, Progress
<1>3. CASE ~portal[op.id].live
  <2>1. OfTheFile(op)
    BY <1>1, <1>3 DEF Progress
  <2> QED
    BY <1>1, <1>3, <2>1 DEF Progress, OfTheFile
<1> QED
  BY <1>2, <1>3

LEMMA StillDone ==
    ASSUME Progress, NEW op \in Op, HasBeenDone(op), OfTheFile(op)
    PROVE  HasBeenDone(op)'
<1>1. op.id \in Ids
  BY DEF Op
<1>2. op.kind = "delete" => ~HasRow(op.id)
  BY DEF OfTheFile
<1> QED
  BY <1>1, <1>2 DEF HasBeenDone, Progress

-----------------------------------------------------------------------------
(* One lemma per part of the invariant.                                    *)

LEMMA NoneEmptyStep ==
    ASSUME PushInv, SteadyInv, Steady(env), [Next]_vars PROVE NoneEmpty'
<1>1. CASE UNCHANGED local
  BY <1>1 DEF SteadyInv, NoneEmpty
<1>2. CASE User
  BY <1>2, EditsLeaveGeometry DEF SteadyInv, Steady
<1>3. CASE StampMintedIds
  <2>1. /\ DOMAIN local' = DOMAIN local
        /\ \A f \in DOMAIN local : ContentOf(local'[f]) = ContentOf(local[f])
    BY <1>3, StampedRows
  <2>2. \A f \in DOMAIN local : local'[f].geom = local[f].geom
    BY <2>1 DEF ContentOf
  <2> QED
    BY <2>1, <2>2 DEF SteadyInv, NoneEmpty
<1> QED
  BY <1>1, <1>2, <1>3, Progresses DEF Progress

LEMMA LiveIssuedStep ==
    ASSUME PushInv, SteadyInv, [Next]_vars, NEW i \in Ids, portal'[i].live
    PROVE  i \in issued'
<1>0. portal \in [Ids -> PortalRow] /\ (portal[i].live => i \in issued)
  BY DEF SteadyInv, FirstPush, PushInv, TypeOK, PortalTypeOK
<1>1. CASE UNCHANGED <<portal, issued>>
  BY <1>0, <1>1
<1>2. CASE Others
  BY <1>0, <1>2 DEF Others, RemoteEdit, RemoteDelete, Removed, fileVars
<1>3. ASSUME NEW k \in Pushes, WorkerDone(k) PROVE i \in issued'
  <2>1. PICK op \in inflight[k] : RequestDid(k, op)
    BY <1>3, RequestDoes
  <2>2. UNCHANGED issued
    BY <1>3 DEF WorkerDone, fileVars
  <2>3. CASE portal[i].live
    BY <1>0, <2>2, <2>3
  <2>4. CASE ~portal[i].live
    <3>1. i = op.id /\ op \in ops[k] /\ op.kind # "delete" /\ op.kind # "update"
      BY <2>1, <2>4 DEF RequestDid
    <3>2. op \in Making
      BY <3>1 DEF Making, PushInv, TypeOK, TasksTypeOK, Op
    <3> QED
      BY <2>2, <3>1, <3>2 DEF PushInv, OneCopyInv, AfterStamping, Settled
  <2> QED
    BY <2>3, <2>4
<1>4. CASE StampMintedIds
  BY <1>0, <1>4 DEF StampMintedIds, portalVars
<1>5. CASE User
  BY <1>1, <1>5, UserStep DEF portalVars
<1> QED
  BY <1>1, <1>2, <1>3, <1>4, <1>5
     DEF Next, Dialog, Check, OpenDialog, CheckConflicts, CheckFails, SendUnchecked,
         OverwriteConflicts, SkipConflicts, AbandonPush, CloseDialog, DismissDuringPush, Worker,
         WorkerTake, WorkerReturn, Callback, PushIncomplete, RefreshBaseline, RefreshFails,
         RefreshDropsTable, TaskOver, Crash, fileVars, portalVars, vars

LEMMA PushesStep == PushInv /\ [Next]_vars => pushes' = pushes \/ StampMintedIds
BY UserStep
   DEF Next, Others, RemoteEdit, RemoteDelete, Dialog, OpenDialog, Check, CheckConflicts,
       CheckFails, SendUnchecked, OverwriteConflicts, SkipConflicts, AbandonPush, CloseDialog,
       DismissDuringPush, Worker, WorkerTake, WorkerDone, WorkerReturn, Callback,
       PushIncomplete, RefreshBaseline, RefreshFails, RefreshDropsTable, TaskOver, Crash,
       boundVars, vars

LEMMA FirstPushStep ==
    ASSUME PushInv, SteadyInv, [Next]_vars PROVE FirstPush'
<1>1. ASSUME pushes' = 0 PROVE issued' \subseteq DOMAIN baseline'
  <2>1. pushes = 0 /\ ~StampMintedIds
    BY <1>1, PushesStep DEF StampMintedIds, PushInv, TypeOK, BoundTypeOK
  <2>2. issued \subseteq DOMAIN baseline
    BY <2>1 DEF SteadyInv, FirstPush
  <2>3. \A k \in Pushes : at[k] = "idle"
    BY <2>1, BoundAssumption DEF PushInv, TasksInv, TaskInv, Pushes
  <2>4. UNCHANGED <<issued, baseline>>
    BY <2>1, <2>3, UserStep
       DEF Next, Others, RemoteEdit, RemoteDelete, Dialog, OpenDialog, Check, CheckConflicts,
           CheckFails, SendUnchecked, OverwriteConflicts, SkipConflicts, AbandonPush, CloseDialog,
           DismissDuringPush, Worker, WorkerTake, WorkerDone, WorkerReturn, Callback,
           PushIncomplete, RefreshBaseline, RefreshFails, RefreshDropsTable, Returned, Crash,
           fileVars, vars
  <2> QED
    BY <2>2, <2>4
<1> QED
  BY <1>1, LiveIssuedStep DEF FirstPush

\* What a task works on is what the dialog showed when it was started.
LEMMA OpsGiven ==
    ASSUME PushInv, Steady(env), [Next]_vars, NEW k \in Pushes, at'[k] # "idle"
    PROVE  \/ at[k] # "idle" /\ ops'[k] = ops[k]
           \/ phase \in InPush /\ k = pushes /\ ops'[k] = plan /\ todo'[k] = plan
              /\ at'[k] = "sending" /\ inflight'[k] = {}
              /\ Progress
<1>0. TasksTypeOK
  BY DEF PushInv, TypeOK
<1>1. CASE UNCHANGED <<at, ops>>
  BY <1>1
<1>2. ASSUME NEW agreed, NEW skipped, StartTask(plan, agreed, skipped),
             phase \in {"stamped", "unread", "asking"}, UNCHANGED <<local, portal, sent>>
      PROVE  \/ at[k] # "idle" /\ ops'[k] = ops[k]
             \/ phase \in InPush /\ k = pushes /\ ops'[k] = plan /\ todo'[k] = plan
                /\ at'[k] = "sending" /\ inflight'[k] = {}
                /\ Progress
  <2>1. /\ pushes \in Pushes
        /\ at'[pushes] = "sending" /\ ops'[pushes] = plan /\ todo'[pushes] = plan
        /\ inflight' = inflight /\ inflight[pushes] = {}
        /\ \A j \in Pushes \ {pushes} : at'[j] = at[j] /\ ops'[j] = ops[j]
    BY <1>2, StartEffect DEF PushInv
  <2> QED
    BY <1>2, <2>1 DEF InPush, Progress
<1>3. CASE CheckConflicts \/ SendUnchecked \/ OverwriteConflicts \/ SkipConflicts
  <2>1. /\ phase \in {"stamped", "unread", "asking"} /\ UNCHANGED <<local, portal, sent>>
        /\ \/ \E agreed, skipped : StartTask(plan, agreed, skipped)
           \/ UNCHANGED <<at, ops>>
    BY <1>3 DEF CheckConflicts, SendUnchecked, OverwriteConflicts, SkipConflicts, Steady,
                fileVars, portalVars
  <2> QED
    BY <1>1, <1>2, <2>1
<1>4. ASSUME NEW j \in Pushes, Worker(j)
      PROVE  at[k] # "idle" /\ ops'[k] = ops[k]
  BY <1>0, <1>4 DEF Worker, WorkerTake, WorkerDone, WorkerReturn, TasksTypeOK
<1>5. ASSUME NEW j \in Pushes, Callback(j)
      PROVE  at[k] # "idle" /\ ops'[k] = ops[k]
  BY <1>0, <1>5, CallbackEffect DEF PushInv, TasksTypeOK
<1>6. CASE User \/ Others \/ UNCHANGED vars
  BY <1>1, <1>6, UserStep DEF Others, RemoteEdit, RemoteDelete, vars, taskVars
<1>7. CASE \/ OpenDialog \/ StampMintedIds \/ CheckFails \/ AbandonPush \/ CloseDialog
           \/ DismissDuringPush
  BY <1>1, <1>7 DEF OpenDialog, StampMintedIds, CheckFails, AbandonPush, BackToOpen, CloseDialog,
                    DismissDuringPush, taskVars
<1>8. CASE Crash
  BY <1>8 DEF Crash
<1> QED
  BY <1>3, <1>4, <1>5, <1>6, <1>7, <1>8 DEF Next, Dialog, Check

LEMMA RowsStayStep ==
    ASSUME PushInv, SteadyInv, Steady(env), [Next]_vars PROVE RowsStay'
<1>1. CASE User
  <2>1. ~TasksOut' /\ UNCHANGED <<pushes, env>>
    BY <1>1, EditsFind, UserStep DEF taskVars, TasksOut
  <2> QED
    BY <1>1, <2>1, EditsFind DEF RowsStay
<1>2. CASE StampMintedIds
  BY <1>2, StampedRows DEF RowsStay
<1>3. CASE Progress /\ ~StampMintedIds
  <2>1. UNCHANGED <<pushes, env>> /\ AllOwn' = AllOwn
    BY <1>3, PushesStep, EnvKept DEF Progress, AllOwn
  <2>2. TasksOut' => TasksOut \/ phase \in InPush
    BY OpsGiven DEF TasksOut
  <2>3. phase \in InPush => AllOwn
    BY DEF PushInv, ReplanInv, PlanFromFile
  <2> QED
    BY <2>1, <2>2, <2>3 DEF SteadyInv, RowsStay
<1> QED
  BY <1>1, <1>2, <1>3, Progresses

LEMMA AccountedRefresh ==
    ASSUME PushInv, SteadyInv, NEW k \in Pushes, RefreshBaseline(k) \/ RefreshDropsTable(k)
    PROVE  Accounted'
<1>1. AllSent(k) /\ UNCHANGED <<local, portal, sent>>
  BY DEF RefreshBaseline, RefreshDropsTable, TaskOver
<1>2. /\ \A f \in DOMAIN local :
            local[f].gid \in Ids /\ ContentOf(local[f]) \in sent[local[f].gid]
      /\ \A i \in Ids : portal[i].live => HasRow(i)
  BY <1>1, AllSentMeansSent
<1>3. \A i \in DOMAIN baseline' : ContentOf(baseline'[i]) \in sent[i]
  <2>1. CASE baseline' = << >>
    BY <2>1
  <2>2. CASE \E seen : baseline' = SnapshotBaseline(local, seen)
    <3>1. PICK seen : baseline' = SnapshotBaseline(local, seen)
      BY <2>2
    <3> SUFFICES ASSUME NEW i \in DOMAIN baseline' PROVE ContentOf(baseline'[i]) \in sent[i]
      OBVIOUS
    <3>2. \E f \in DOMAIN local : local[f].gid = i
      BY <3>1 DEF SnapshotBaseline
    <3>3. LastWith(local, i) \in DOMAIN local /\ local[LastWith(local, i)].gid = i
      BY <3>2, LastWithExists, FileRowsOK, CloneAssumption DEF PushInv, TypeOK, RowsOK, Fids
    <3>4. ContentOf(baseline'[i]) = ContentOf(local[LastWith(local, i)])
      BY <3>1 DEF SnapshotBaseline, ContentOf
    <3> QED
      BY <1>2, <3>3, <3>4
  <2> QED
    BY <2>1, <2>2 DEF RefreshBaseline, RefreshDropsTable
<1> QED
  BY <1>1, <1>2, <1>3 DEF Accounted, HasRow

LEMMA AccountedStep ==
    ASSUME PushInv, SteadyInv, Steady(env), [Next]_vars PROVE Accounted'
<1>0. Accounted /\ DOMAIN baseline \subseteq Ids
  BY DEF SteadyInv, PushInv, TypeOK, FileTypeOK
<1>1. CASE Progress /\ UNCHANGED baseline
  <2>1. local' = local
    BY <1>1 DEF Progress
  <2>2. \A i \in DOMAIN baseline : ContentOf(baseline[i]) \in sent'[i]
    BY <1>0, <1>1 DEF Accounted, Progress
  <2>3. ASSUME NEW i \in Ids, portal'[i].live PROVE i \in DOMAIN baseline \/ HasRow(i)
    BY <1>0, <1>1, <2>3 DEF Accounted, Progress
  <2>4. ASSUME NEW f \in DOMAIN local, local[f].gid \in Ids \ DOMAIN baseline,
               portal'[local[f].gid].live
        PROVE  ContentOf(local[f]) \in sent'[local[f].gid]
    BY <1>0, <1>1, <2>4 DEF Accounted, Progress
  <2> QED
    BY <1>1, <2>1, <2>2, <2>3, <2>4 DEF Accounted, HasRow
<1>2. CASE User
  <2>1. UNCHANGED <<portal, sent, baseline>>
    BY <1>2, UserStep DEF portalVars
  <2> QED
    BY <1>2, <2>1, EditsFind DEF SteadyInv, Accounted
<1>3. CASE StampMintedIds
  <2>1. UNCHANGED <<portal, sent, baseline>>
    BY <1>3 DEF StampMintedIds, portalVars
  <2>2. /\ DOMAIN local' = DOMAIN local
        /\ \A f \in DOMAIN local :
              /\ ContentOf(local'[f]) = ContentOf(local[f])
              /\ local'[f].gid = local[f].gid \/ local'[f].gid \notin issued
        /\ \A i \in Ids : HasRow(i) => HasRow(i)'
    BY <1>3, StampedRows
  <2>3. \A i \in Ids : portal[i].live => i \in issued
    BY DEF SteadyInv, FirstPush
  <2>4. ASSUME NEW f \in DOMAIN local, local'[f].gid \in Ids \ DOMAIN baseline,
               portal[local'[f].gid].live
        PROVE  ContentOf(local'[f]) \in sent[local'[f].gid]
    <3>1. local'[f].gid = local[f].gid
      BY <2>2, <2>3, <2>4
    <3> QED
      BY <1>0, <2>2, <2>4, <3>1 DEF Accounted
  <2> QED
    BY <1>0, <2>1, <2>2, <2>4 DEF Accounted
<1>4. UNCHANGED baseline \/ \E k \in Pushes : RefreshBaseline(k) \/ RefreshDropsTable(k)
  BY UserStep
     DEF Next, Others, RemoteEdit, RemoteDelete, Dialog, OpenDialog, StampMintedIds, Check,
         CheckConflicts, CheckFails, SendUnchecked, OverwriteConflicts, SkipConflicts,
         AbandonPush, CloseDialog, DismissDuringPush, Worker, WorkerTake, WorkerDone,
         WorkerReturn, Callback, PushIncomplete, RefreshFails, Crash, fileVars, vars
<1> QED
  BY <1>1, <1>2, <1>3, <1>4, AccountedRefresh, Progresses

\* A plan read off the file leaves nothing out.
LEMMA PlanCovers ==
    ASSUME PushInv, SteadyInv, NEW mint \in Mintings(local, issued)
    PROVE  /\ Covers(PlanOps(local, baseline, mint))
           /\ CreatesSent(PlanOps(local, baseline, mint))
<1> DEFINE Id(f) == IF Owns(local, f) THEN local[f].gid ELSE mint[f]
<1>0. NoneEmpty /\ Accounted /\ FirstPush /\ RowsOK(local)
  BY FileRowsOK DEF SteadyInv, PushInv, TypeOK
<1>1. ASSUME NEW f \in DOMAIN local
      PROVE  \/ Owns(local, f) /\ ContentOf(local[f]) \in sent[local[f].gid]
             \/ \E op \in PlanOps(local, baseline, mint) :
                   op.kind # "delete" /\ op.fid = f /\ ContentOf(op) = ContentOf(local[f])
  <2>1. CASE Recorded(local, baseline, f) /\ Unchanged(local, baseline, f)
    BY <1>0, <2>1 DEF Accounted, Recorded, Unchanged
  <2>2. CASE ~(Recorded(local, baseline, f) /\ Unchanged(local, baseline, f))
    <3> DEFINE op == IF Recorded(local, baseline, f)
                     THEN OpFor("update", f, local[f].gid, local[f])
                     ELSE OpFor("create", f, Id(f), local[f])
    <3>1. ~EmptyRow(local[f])
      BY <1>0 DEF EmptyRow, NoneEmpty
    <3>2. op \in PlanOps(local, baseline, mint)
      BY <2>2, <3>1 DEF PlanOps, Creates, Updates
    <3>3. op.kind # "delete" /\ op.fid = f /\ ContentOf(op) = ContentOf(local[f])
      BY DEF OpFor, ContentOf
    <3> HIDE DEF op
    <3> QED
      BY <3>2, <3>3
  <2> QED
    BY <2>1, <2>2
<1>2. ASSUME NEW i \in Ids, portal[i].live, ~HasRow(i)
      PROVE  \E op \in PlanOps(local, baseline, mint) : op.kind = "delete" /\ op.id = i
  <2> DEFINE op == OpFor("delete", 0, i, baseline[i])
  <2>1. op \in PlanOps(local, baseline, mint)
    BY <1>0, <1>2 DEF PlanOps, Deletes, HasRow, Accounted
  <2>2. op.kind = "delete" /\ op.id = i
    BY DEF OpFor
  <2> HIDE DEF op
  <2> QED
    BY <2>1, <2>2
<1>3. ASSUME NEW op \in PlanOps(local, baseline, mint), op.kind = "create", portal[op.id].live
      PROVE  ContentOf(op) \in sent[op.id]
  <2>1. op \in Creates(local, baseline, mint)
    BY <1>3 DEF PlanOps, Updates, Deletes, OpFor
  <2>2. PICK f \in DOMAIN local :
           ~Recorded(local, baseline, f) /\ op = OpFor("create", f, Id(f), local[f])
    BY <2>1 DEF Creates
  <2>3. op.id = Id(f) /\ ContentOf(op) = ContentOf(local[f])
    BY <2>2 DEF OpFor, ContentOf
  <2>4. CASE Owns(local, f)
    <3>1. op.id = local[f].gid /\ op.id \in Ids \ DOMAIN baseline
      BY <1>0, <2>2, <2>3, <2>4 DEF Recorded, Owns, RowsOK, Row
    <3> QED
      BY <1>0, <1>3, <2>3, <3>1 DEF Accounted
  <2>5. CASE ~Owns(local, f)
    <3>1. op.id \in Ids \ issued
      BY <2>3, <2>5 DEF Mintings
    <3> QED
      BY <1>0, <1>3, <3>1 DEF FirstPush
  <2> QED
    BY <2>4, <2>5
<1> QED
  BY <1>1, <1>2, <1>3 DEF Covers, CreatesSent

LEMMA PlanFitsStep ==
    ASSUME PushInv, SteadyInv, [Next]_vars PROVE PlanFits'
<1>0. plan \subseteq Op
  BY DEF PushInv, TypeOK, DialogTypeOK
<1>1. CASE phase' \notin {"open"} \cup InPush
  BY <1>1 DEF PlanFits
<1>2. CASE OpenDialog
  <2>1. PICK mint \in Mintings(local, issued) : plan' = PlanOps(local, baseline, mint)
    BY <1>2 DEF OpenDialog
  <2>2. UNCHANGED <<local, portal, sent>>
    BY <1>2 DEF OpenDialog, fileVars, portalVars
  <2>3. Covers(plan') /\ CreatesSent(plan')
    BY <2>1, PlanCovers
  <2> QED
    BY <2>2, <2>3 DEF PlanFits, Covers, CreatesSent, HasRow, Owns
<1>3. CASE StampMintedIds
  <2>1. phase = "open" /\ UNCHANGED <<portal, sent, plan>>
    BY <1>3 DEF StampMintedIds, portalVars
  <2>2. /\ DOMAIN local' = DOMAIN local /\ AllOwn' /\ NoneEmpty'
        /\ \A f \in DOMAIN local :
              /\ ContentOf(local'[f]) = ContentOf(local[f])
              /\ Owns(local, f) => local'[f].gid = local[f].gid
        /\ \A i \in Ids : HasRow(i) => HasRow(i)'
    <3>1. /\ DOMAIN local' = DOMAIN local /\ AllOwn'
          /\ \A f \in DOMAIN local :
                /\ ContentOf(local'[f]) = ContentOf(local[f])
                /\ Owns(local, f) => local'[f].gid = local[f].gid
          /\ \A i \in Ids : HasRow(i) => HasRow(i)'
      BY <1>3, StampedRows
    <3>2. \A f \in DOMAIN local : local'[f].geom = local[f].geom
      BY <3>1 DEF ContentOf
    <3> QED
      BY <3>1, <3>2 DEF SteadyInv, NoneEmpty
  <2>3. \A f \in DOMAIN local : Owns(local', f)
    BY <2>2 DEF AllOwn, EmptyRow, NoneEmpty
  <2>4. Covers(plan) /\ CreatesSent(plan)
    BY <2>1 DEF SteadyInv, PlanFits
  <2> QED
    BY <2>1, <2>2, <2>3, <2>4 DEF PlanFits, Covers, CreatesSent
<1>4. CASE phase \in {"open"} \cup InPush /\ UNCHANGED plan /\ Progress
  <2>1. Covers(plan) /\ CreatesSent(plan)
    BY <1>4 DEF SteadyInv, PlanFits
  <2>2. AllOwn => \A op \in plan : OfTheFile(op)
    BY <1>4, PlanHeld
  <2> QED
    BY <1>0, <1>4, <2>1, <2>2, StillCovers, StillSent DEF PlanFits
<1>5. \/ phase' = "closed" \/ OpenDialog \/ StampMintedIds
      \/ UNCHANGED plan /\ (phase' = phase \/ phase \in {"open"} \cup InPush)
  <2>1. ASSUME NEW k \in Pushes, Callback(k)
        PROVE  phase' = "closed" \/ (UNCHANGED plan /\ (phase' = phase \/ phase \in InPush))
    BY <2>1, CallbackEffect DEF PushInv, OnScreen, InPush
  <2>2. CASE User
    BY <2>2, UserStep DEF dialogVars
  <2> QED
    BY <2>1, <2>2
       DEF Next, Others, RemoteEdit, RemoteDelete, Dialog, Check, CheckConflicts, CheckFails,
           SendUnchecked, OverwriteConflicts, SkipConflicts, AbandonPush, StartTask, BackToOpen,
           CloseDialog, DismissDuringPush, LeaveScreen, Worker, WorkerTake, WorkerDone,
           WorkerReturn, Crash, dialogVars, vars, InPush
<1>6. CASE User
  <2>1. phase' = "closed"
    BY <1>6, UserStep DEF CanEdit, dialogVars
  <2> QED
    BY <1>1, <2>1 DEF InPush
<1> QED
  BY <1>1, <1>2, <1>3, <1>4, <1>5, <1>6, Progresses DEF InPush

\* Behind a push neither edits nor stamping change a row.
LEMMA OutProgress ==
    ASSUME PushInv, SteadyInv, Steady(env), [Next]_vars, TasksOut
    PROVE  Progress
<1>1. ~User
  BY EditsFind
<1>2. CASE StampMintedIds
  <2>1. AllOwn /\ NoneEmpty
    BY DEF SteadyInv, RowsStay
  <2>2. UNCHANGED <<local, portal, sent>>
    BY <1>2, <2>1, StampOwned DEF StampMintedIds, portalVars
  <2> QED
    BY <2>2 DEF Progress
<1> QED
  BY <1>1, <1>2, Progresses

LEMMA OpsFitStep ==
    ASSUME PushInv, SteadyInv, Steady(env), [Next]_vars PROVE OpsFit'
<1> SUFFICES ASSUME NEW k \in Pushes, at'[k] # "idle"
             PROVE  (/\ Covers(ops[k]) /\ CreatesSent(ops[k])
                     /\ \A op \in ops[k] : OfTheFile(op))'
  BY DEF OpsFit
<1>1. ASSUME NEW work, work \subseteq Op, Progress, Covers(work), CreatesSent(work),
             \A op \in work : OfTheFile(op)
      PROVE  Covers(work)' /\ CreatesSent(work)' /\ (\A op \in work : OfTheFile(op))'
  BY <1>1, StillCovers, StillSent DEF Progress, OfTheFile, HasRow
<1>2. CASE at[k] # "idle" /\ ops'[k] = ops[k]
  <2>1. Progress
    BY <1>2, OutProgress DEF TasksOut
  <2>2. /\ ops[k] \subseteq Op /\ Covers(ops[k]) /\ CreatesSent(ops[k])
        /\ \A op \in ops[k] : OfTheFile(op)
    BY <1>2 DEF SteadyInv, OpsFit, PushInv, TypeOK, TasksTypeOK
  <2>3. PICK work : work = ops[k]
    OBVIOUS
  <2>4. Covers(work)' /\ CreatesSent(work)' /\ (\A op \in work : OfTheFile(op))'
    BY <1>1, <2>1, <2>2, <2>3
  <2> QED
    BY <1>2, <2>3, <2>4
<1>3. CASE phase \in InPush /\ ops'[k] = plan /\ Progress
  <2>1. AllOwn
    BY <1>3 DEF PushInv, ReplanInv, PlanFromFile
  <2>2. /\ plan \subseteq Op /\ Covers(plan) /\ CreatesSent(plan)
        /\ \A op \in plan : OfTheFile(op)
    BY <1>3, <2>1, PlanHeld DEF SteadyInv, PlanFits, PushInv, TypeOK, DialogTypeOK
  <2>3. PICK work : work = plan
    OBVIOUS
  <2>4. Covers(work)' /\ CreatesSent(work)' /\ (\A op \in work : OfTheFile(op))'
    BY <1>1, <1>3, <2>2, <2>3
  <2> QED
    BY <1>3, <2>3, <2>4
<1> QED
  BY <1>2, <1>3, OpsGiven

\* A worker is through with what it was through with before, and with the op
\* whose request has come back.
LEMMA DoneGrows ==
    ASSUME PushInv, Steady(env), [Next]_vars,
           NEW k \in Pushes, at'[k] \in {"sending", "complete"}, NEW op \in Done(k)'
    PROVE  \/ at[k] \in {"sending", "complete"} /\ op \in Done(k)
           \/ WorkerDone(k) /\ op \in inflight[k] /\ op \notin failed'[k]
<1>0. TasksTypeOK
  BY DEF PushInv, TypeOK
<1>1. at[k] # "idle" /\ ops'[k] = ops[k]
  <2>1. CASE ops'[k] = plan /\ todo'[k] = plan
    BY <2>1 DEF Done
  <2> QED
    BY <2>1, OpsGiven
<1>2. CASE UNCHANGED <<at, todo, inflight, failed>>
  BY <1>1, <1>2 DEF Done
<1>3. CASE Worker(k)
  <2>1. CASE WorkerTake(k)
    BY <1>0, <1>1, <2>1 DEF WorkerTake, TasksTypeOK, Done
  <2>2. CASE WorkerDone(k)
    <3>1. at[k] = "sending" /\ todo' = todo /\ failed[k] \subseteq failed'[k]
      BY <1>0, <2>2 DEF WorkerDone, TasksTypeOK
    <3> QED
      BY <1>1, <2>2, <3>1 DEF Done
  <2>3. CASE WorkerReturn(k)
    BY <1>1, <2>3 DEF WorkerReturn, Done
  <2> QED
    BY <1>3, <2>1, <2>2, <2>3 DEF Worker
<1>4. ASSUME NEW j \in Pushes, j # k, Worker(j)
      PROVE  at'[k] = at[k] /\ todo'[k] = todo[k] /\ inflight'[k] = inflight[k]
             /\ failed'[k] = failed[k]
  BY <1>0, <1>4 DEF Worker, WorkerTake, WorkerDone, WorkerReturn, TasksTypeOK
<1>5. ASSUME NEW j \in Pushes, Callback(j)
      PROVE  at'[k] = at[k] /\ todo'[k] = todo[k] /\ inflight'[k] = inflight[k]
             /\ failed'[k] = failed[k]
  <2>1. /\ at' = [at EXCEPT ![j] = "idle"] /\ todo' = [todo EXCEPT ![j] = {}]
        /\ inflight' = inflight
    BY <1>5, CallbackEffect DEF PushInv
  <2>2. failed' = [failed EXCEPT ![j] = {}]
    BY <1>5 DEF Callback, PushIncomplete, RefreshBaseline, RefreshFails, RefreshDropsTable,
                TaskOver
  <2>3. j # k
    BY <1>0, <2>1 DEF TasksTypeOK
  <2> QED
    BY <1>0, <2>1, <2>2, <2>3 DEF TasksTypeOK
<1>6. ASSUME NEW work, NEW agreed, NEW skipped, StartTask(work, agreed, skipped),
             work \subseteq plan, phase \in {"stamped", "unread", "asking"}
      PROVE  at'[k] = at[k] /\ todo'[k] = todo[k] /\ inflight'[k] = inflight[k]
             /\ failed'[k] = failed[k]
  <2>1. pushes # k
    BY <1>1, <1>6, StartEffect DEF PushInv
  <2> QED
    BY <1>0, <1>6, <2>1 DEF StartTask, TasksTypeOK
<1>7. CASE Check \/ SendUnchecked \/ OverwriteConflicts \/ SkipConflicts
  <2>1. CASE UNCHANGED <<at, todo, inflight, failed>>
    BY <1>2, <2>1
  <2>2. CASE ~UNCHANGED <<at, todo, inflight, failed>>
    <3>1. /\ phase \in {"stamped", "unread", "asking"}
          /\ \E work, agreed, skipped : StartTask(work, agreed, skipped) /\ work \subseteq plan
      BY <1>7, <2>2 DEF Check, CheckConflicts, CheckFails, SendUnchecked, OverwriteConflicts,
                        SkipConflicts, BackToOpen, WithoutConflicts, taskVars
    <3> QED
      BY <1>1, <1>6, <3>1 DEF Done
  <2> QED
    BY <2>1, <2>2
<1>8. CASE User \/ Others \/ UNCHANGED vars
  BY <1>2, <1>8, UserStep DEF Others, RemoteEdit, RemoteDelete, vars, taskVars
<1>9. CASE OpenDialog \/ StampMintedIds \/ AbandonPush \/ CloseDialog \/ DismissDuringPush
  BY <1>2, <1>9 DEF OpenDialog, StampMintedIds, AbandonPush, BackToOpen, CloseDialog,
                    DismissDuringPush, taskVars
<1>10. ~Crash
  BY DEF Crash
<1> QED
  BY <1>1, <1>3, <1>4, <1>5, <1>7, <1>8, <1>9, <1>10 DEF Next, Dialog, Done

LEMMA DoneStep ==
    ASSUME PushInv, SteadyInv, Steady(env), [Next]_vars PROVE DoneIsDone'
<1> SUFFICES ASSUME NEW k \in Pushes, at'[k] \in {"sending", "complete"}, NEW op \in Done(k)'
             PROVE  HasBeenDone(op)'
  BY DEF DoneIsDone
<1>1. CASE at[k] \in {"sending", "complete"} /\ op \in Done(k)
  <2>1. HasBeenDone(op) /\ OfTheFile(op) /\ op \in Op
    BY <1>1 DEF SteadyInv, DoneIsDone, OpsFit, Done, PushInv, TypeOK, TasksTypeOK
  <2>2. Progress
    BY <1>1, OutProgress DEF TasksOut
  <2>3. PICK done : done = op
    OBVIOUS
  <2>4. HasBeenDone(done)'
    BY <2>1, <2>2, <2>3, StillDone
  <2> QED
    BY <2>3, <2>4
<1>2. CASE WorkerDone(k) /\ op \in inflight[k] /\ op \notin failed'[k]
  <2>1. RequestDid(k, op) /\ at[k] = "sending"
    <3>1. PICK o \in inflight[k] : RequestDid(k, o)
      BY <1>2, RequestDoes
    <3> QED
      BY <1>2, <3>1, RequestDoes DEF RequestDid
  <2>2. CASE UNCHANGED <<portal, sent>>
    <3>1. \/ op.kind = "create" /\ portal[op.id].live
          \/ ~portal'[op.id].live /\ op.kind = "delete"
          \/ op.kind # "delete" /\ ContentOf(op) \in sent'[op.id]
      BY <1>2, <2>1, <2>2 DEF RequestDid
    <3>2. op.kind = "create" /\ portal[op.id].live => ContentOf(op) \in sent[op.id]
      BY <2>1 DEF RequestDid, SteadyInv, OpsFit, CreatesSent
    <3> QED
      BY <2>2, <3>1, <3>2 DEF HasBeenDone
  <2>3. CASE ~UNCHANGED <<portal, sent>>
    BY <2>1, <2>3 DEF RequestDid, HasBeenDone
  <2> QED
    BY <2>2, <2>3
<1> QED
  BY <1>1, <1>2, DoneGrows

\* In a calm environment one push is out at a time, and its plan is the file's.
LEMMA CalmOut ==
    ASSUME PushInv, SteadyInv, Calm(env), NEW k \in Pushes, at[k] # "idle"
    PROVE  /\ phase = "pushing" /\ k = pushes /\ AllOwn
           /\ ops[k] = plan /\ plan = PlanOps(local, baseline, NoMint)
           /\ \A op \in plan : (op.kind = "create" <=> op.id \notin DOMAIN baseline) /\ OfTheFile(op)
<1>1. phase = "pushing" /\ k = pushes /\ ~superseded
  BY DEF PushInv, OnePush, Calm
<1>2. AllOwn /\ plan = PlanOps(local, baseline, NoMint)
  BY <1>1 DEF PushInv, ReplanInv, PlanFromFile, PlannedFrom, InPush
<1>3. ops[k] = plan
  BY <1>1 DEF SteadyInv, CalmPush
<1>4. \A op \in plan : (op.kind = "create" <=> op.id \notin DOMAIN baseline) /\ OfTheFile(op)
  BY <1>1, <1>2, PlanBased, PlanHeld DEF PushInv, InPush
<1> QED
  BY <1>1, <1>2, <1>3, <1>4

\* With nothing going wrong no request is refused.
LEMMA CalmRequest ==
    ASSUME PushInv, SteadyInv, Calm(env), NEW k \in Pushes, WorkerDone(k) PROVE CalmPush'
<1>1. /\ at[k] = "sending" /\ inflight' = [inflight EXCEPT ![k] = {}]
      /\ \A j \in Pushes \ {k} : failed'[j] = failed[j]
      /\ UNCHANGED <<local, baseline, plan, phase, at, ops, todo, cancelled, env, pushes>>
      /\ \E op \in inflight[k] : RequestDid(k, op)
  BY RequestDoes DEF fileVars, dialogVars, boundVars
<1>2. PICK op \in inflight[k] : RequestDid(k, op)
  BY <1>1
<1>3. /\ phase = "pushing" /\ k = pushes /\ ops[k] = plan
      /\ plan = PlanOps(local, baseline, NoMint)
      /\ \A p \in plan : (p.kind = "create" <=> p.id \notin DOMAIN baseline) /\ OfTheFile(p)
  BY <1>1, CalmOut
<1>4. /\ op \in plan /\ op.id \in Ids /\ inflight[k] = {op} /\ op \notin todo[k]
      /\ todo[k] \subseteq plan /\ inflight'[k] = {}
      /\ \A p \in plan : p.id \in Ids
  BY <1>1, <1>2, <1>3
     DEF RequestDid, PushInv, TasksInv, TaskInv, TypeOK, DialogTypeOK, TasksTypeOK, Op
<1>5. op.kind # "create" => op.id \in DOMAIN baseline /\ portal[op.id].live
  BY <1>3, <1>4 DEF SteadyInv, CalmPush, Leaving
<1>6. \A j \in Pushes : failed'[j] = {}
  <2>1. (\A j \in Pushes : failed[j] = {}) /\ "reject" \notin env /\ "lost" \notin env /\ ~Refused(op)
    BY <1>5 DEF SteadyInv, CalmPush, Calm, Refused
  <2>2. failed' = failed
    BY <1>4, <2>1 DEF WorkerDone
  <2> QED
    BY <2>1, <2>2
<1>7. ASSUME NEW p \in plan, p.kind = "delete", p.id = op.id, op.kind = "delete"
      PROVE  p = op
  <2>1. op \in Deletes(local, baseline) /\ p \in Deletes(local, baseline)
    BY <1>3, <1>4, <1>7 DEF PlanOps, Creates, Updates, OpFor
  <2>2. \A o \in Deletes(local, baseline) : o = OpFor("delete", 0, o.id, baseline[o.id])
    BY DEF Deletes, OpFor
  <2> QED
    BY <1>7, <2>1, <2>2
<1>8. ASSUME NEW i \in DOMAIN baseline
      PROVE  \/ portal'[i].live
             \/ ~HasRow(i) /\ \A p \in todo[k] : p.id # i
  <2>1. i \in Ids
    BY DEF PushInv, TypeOK, FileTypeOK
  <2>2. CASE i # op.id
    <3>1. portal'[i] = portal[i]
      BY <1>2, <2>1, <2>2 DEF RequestDid
    <3> QED
      BY <1>3, <3>1 DEF SteadyInv, CalmPush, Leaving
  <2>3. CASE i = op.id
    <3>1. op.kind # "create"
      BY <1>3, <1>4, <2>3
    <3>2. portal'[op.id].live <=> op.kind # "delete"
      BY <1>2, <1>4, <1>6, <3>1 DEF RequestDid
    <3>3. op.kind = "delete" => ~HasRow(op.id)
      BY <1>3, <1>4 DEF OfTheFile
    <3>4. ASSUME op.kind = "delete", NEW p \in todo[k], p.id = i PROVE FALSE
      <4>1. p \in plan /\ OfTheFile(p)
        BY <1>3, <1>4, <3>4
      <4>2. p.kind = "delete"
        BY <2>3, <3>3, <3>4, <4>1 DEF OfTheFile, HasRow
      <4> QED
        BY <1>4, <1>7, <2>3, <3>4, <4>1, <4>2
    <3> QED
      BY <2>3, <3>2, <3>3, <3>4
  <2> QED
    BY <2>2, <2>3
<1>9. ASSUME NEW p \in plan \ todo[k], p.kind = "create" PROVE portal'[p.id].live
  <2>1. CASE p.id = op.id
    <3>1. op.kind = "create"
      BY <1>3, <1>4, <1>9, <2>1
    <3> QED
      BY <1>2, <1>4, <1>6, <2>1, <3>1 DEF RequestDid
  <2>2. CASE p.id # op.id
    <3>1. portal'[p.id] = portal[p.id]
      BY <1>2, <1>4, <2>2 DEF RequestDid
    <3>2. p \notin todo[pushes] \cup inflight[pushes]
      BY <1>3, <1>4, <1>9, <2>2
    <3> QED
      BY <1>3, <1>9, <3>1, <3>2 DEF SteadyInv, CalmPush
  <2> QED
    BY <2>1, <2>2
<1>10. \A j \in Pushes : ~cancelled'[j] /\ at'[j] # "cancelled"
  BY <1>1 DEF SteadyInv, CalmPush
<1>11. ops'[pushes'] = plan' /\ phase' = "pushing" /\ pushes' = k /\ todo' = todo
  BY <1>1, <1>3
<1>12. \A i \in DOMAIN baseline : portal'[i].live \/ Leaving(i)'
  BY <1>1, <1>4, <1>8, <1>11 DEF Leaving, HasRow
<1> QED
  BY <1>1, <1>4, <1>6, <1>9, <1>10, <1>11, <1>12 DEF CalmPush

\* ... and the refresh that follows records exactly what is live.
LEMMA CalmRefresh ==
    ASSUME PushInv, SteadyInv, Calm(env), NEW k \in Pushes, RefreshBaseline(k) PROVE CalmPush'
<1>1. /\ AllSent(k) /\ at[k] = "complete" /\ UNCHANGED <<local, portal, env>>
      /\ Accept(k) /\ TaskOver(k)
  BY DEF RefreshBaseline, TaskOver, AllSent, boundVars
<1>2. /\ phase = "pushing" /\ k = pushes /\ AllOwn /\ ops[k] = plan
      /\ plan = PlanOps(local, baseline, NoMint)
      /\ todo[k] = {} /\ inflight[k] = {}
  BY <1>1, CalmOut DEF PushInv, TasksInv, TaskInv
<1>3. phase' = "closed"
  BY <1>1, <1>2 DEF Accept, OnScreen, LeaveScreen
<1>4. /\ \A f \in DOMAIN local : local[f].gid \in Ids /\ Owns(local, f)
      /\ \A i \in Ids : portal[i].live => HasRow(i)
  BY <1>1, AllSentMeansSent, OwnersOwn DEF SteadyInv
<1>5. DOMAIN baseline' = {local[f].gid : f \in DOMAIN local}
  BY <1>4, ValueAssumption DEF RefreshBaseline, SnapshotBaseline
<1>6. ASSUME NEW f \in DOMAIN local PROVE portal[local[f].gid].live
  <2>1. CASE local[f].gid \in DOMAIN baseline
    BY <2>1 DEF SteadyInv, CalmPush, HasRow, Leaving
  <2>2. CASE local[f].gid \notin DOMAIN baseline
    <3> DEFINE op == OpFor("create", f, local[f].gid, local[f])
    <3>1. op \in plan
      BY <1>2, <1>4, <2>2 DEF PlanOps, Creates, Recorded, EmptyRow, SteadyInv, NoneEmpty
    <3>2. op.kind = "create" /\ op.id = local[f].gid
      BY DEF OpFor
    <3> HIDE DEF op
    <3> QED
      BY <1>2, <3>1, <3>2 DEF SteadyInv, CalmPush
  <2> QED
    BY <2>1, <2>2
<1>7. \A j \in Pushes : ~cancelled'[j] /\ failed'[j] = {} /\ at'[j] # "cancelled"
  BY <1>1 DEF TaskOver, SteadyInv, CalmPush, PushInv, TypeOK, TasksTypeOK
<1> QED
  BY <1>1, <1>3, <1>4, <1>5, <1>6, <1>7 DEF CalmPush, HasRow

LEMMA CalmStep ==
    ASSUME PushInv, SteadyInv, Steady(env), [Next]_vars PROVE CalmPush'
<1> SUFFICES ASSUME Calm(env)' PROVE CalmPush'
  BY DEF CalmPush
<1>0. /\ Calm(env) /\ UNCHANGED env
      /\ \A k \in Pushes : ~cancelled[k] /\ failed[k] = {} /\ at[k] # "cancelled"
      /\ phase # "pushing" =>
            /\ \A i \in DOMAIN baseline : portal[i].live
            /\ \A i \in Ids : portal[i].live => i \in DOMAIN baseline
  BY EnvKept DEF SteadyInv, CalmPush, Leaving
<1>1. /\ "remoteDelete" \notin env /\ "skip" \notin env /\ "dismiss" \notin env
      /\ "stalefail" \notin env /\ "dropfail" \notin env /\ "crash" \notin env
  BY <1>0 DEF Calm
<1>2. ASSUME UNCHANGED <<portal, baseline, env, at, cancelled, failed>>,
             phase # "pushing", phase' # "pushing"
      PROVE  CalmPush'
  BY <1>0, <1>2 DEF CalmPush
<1>3. ASSUME UNCHANGED <<portal, baseline, env, pushes>>, phase \in {"stamped", "unread", "asking"},
             NEW agreed, NEW skipped, StartTask(plan, agreed, skipped)
      PROVE  CalmPush'
  <2>1. /\ pushes \in Pushes /\ phase' = "pushing" /\ plan' = plan
        /\ ops'[pushes] = plan /\ todo'[pushes] = plan
    BY <1>3, StartEffect DEF PushInv
  <2>2. \A k \in Pushes : ~cancelled'[k] /\ failed'[k] = {} /\ at'[k] # "cancelled"
    BY <1>0, <1>3 DEF StartTask, PushInv, TypeOK, TasksTypeOK
  <2> QED
    BY <1>0, <1>3, <2>1, <2>2 DEF CalmPush
<1>4. ASSUME UNCHANGED <<local, baseline, env, cancelled, failed, plan, phase, pushes, ops>>,
             \A i \in Ids : portal'[i].live <=> portal[i].live,
             \A k \in Pushes : todo'[k] \cup inflight'[k] = todo[k] \cup inflight[k],
             \A k \in Pushes : at'[k] # "cancelled"
      PROVE  CalmPush'
  <2>1. DOMAIN baseline \subseteq Ids /\ \A op \in plan : op.id \in Ids
    BY DEF PushInv, TypeOK, FileTypeOK, DialogTypeOK, Op
  <2>2. phase = "pushing" =>
           pushes \in Pushes /\ todo'[pushes] \cup inflight'[pushes] = todo[pushes] \cup inflight[pushes]
    BY <1>4 DEF PushInv, TasksInv, ScreenInv, InPush
  <2> QED
    BY <1>0, <1>4, <2>1, <2>2 DEF SteadyInv, CalmPush, Leaving, HasRow
<1>5. CASE User
  BY <1>2, <1>5, UserStep DEF portalVars, taskVars, dialogVars, CanEdit
<1>6. CASE Others
  <2>1. PICK i \in Ids, c \in Content : RemoteEdit(i, c)
    BY <1>1, <1>6 DEF Others, RemoteDelete
  <2>2. \A j \in Ids : portal'[j].live <=> portal[j].live
    BY <2>1 DEF RemoteEdit, PushInv, TypeOK, PortalTypeOK
  <2>3. UNCHANGED <<local, baseline, env, plan, phase, pushes, taskVars>>
    BY <2>1 DEF RemoteEdit, fileVars, dialogVars
  <2> QED
    BY <1>0, <1>4, <2>2, <2>3 DEF taskVars
<1>7. CASE OpenDialog \/ StampMintedIds \/ CloseDialog \/ AbandonPush \/ CheckFails
  BY <1>2, <1>7
     DEF OpenDialog, StampMintedIds, CloseDialog, LeaveScreen, AbandonPush, BackToOpen, CheckFails,
         portalVars, fileVars, taskVars, boundVars
<1>8. CASE CheckConflicts \/ SendUnchecked \/ OverwriteConflicts
  <2>1. /\ UNCHANGED <<portal, baseline, env, pushes>> /\ phase \in {"stamped", "unread", "asking"}
        /\ \/ \E agreed, skipped : StartTask(plan, agreed, skipped)
           \/ phase' = "asking" /\ UNCHANGED <<at, cancelled, failed>>
    BY <1>8 DEF CheckConflicts, SendUnchecked, OverwriteConflicts, fileVars, portalVars, boundVars
  <2> QED
    BY <1>2, <1>3, <2>1
<1>9. ASSUME NEW k \in Pushes, WorkerTake(k) PROVE CalmPush'
  <2>1. PICK op \in todo[k] : /\ inflight' = [inflight EXCEPT ![k] = {op}]
                              /\ todo' = [todo EXCEPT ![k] = @ \ {op}]
    BY <1>9 DEF WorkerTake
  <2>2. \A j \in Pushes : todo'[j] \cup inflight'[j] = todo[j] \cup inflight[j]
    BY <1>9, <2>1 DEF WorkerTake, PushInv, TypeOK, TasksTypeOK
  <2>3. UNCHANGED <<portal, local, baseline, env, at, cancelled, failed, plan, phase, pushes, ops>>
    BY <1>9 DEF WorkerTake, portalVars, fileVars, dialogVars, boundVars
  <2> QED
    BY <1>0, <1>4, <2>2, <2>3
<1>10. ASSUME NEW k \in Pushes, WorkerReturn(k) PROVE CalmPush'
  <2>1. todo[k] = {}
    BY <1>0, <1>10 DEF WorkerReturn, LoopOver
  <2>2. /\ UNCHANGED <<portal, local, baseline, env, cancelled, failed, plan, phase, pushes, ops,
                       todo, inflight>>
        /\ \A j \in Pushes : at'[j] # "cancelled"
    BY <1>0, <1>10, <2>1 DEF WorkerReturn, portalVars, fileVars, dialogVars, boundVars, PushInv,
                             TypeOK, TasksTypeOK
  <2> QED
    BY <1>4, <2>2
<1>11. ASSUME NEW k \in Pushes, Callback(k) PROVE CalmPush'
  <2>1. ~PushIncomplete(k) /\ ~RefreshFails(k) /\ ~RefreshDropsTable(k)
    BY <1>0, <1>1 DEF PushIncomplete, RefreshFails, RefreshDropsTable, AllSent, Returned
  <2> QED
    BY <1>0, <1>11, <2>1, CalmRefresh DEF Callback
<1>12. CASE SkipConflicts \/ DismissDuringPush \/ Crash
  BY <1>1, <1>12 DEF SkipConflicts, DismissDuringPush, Crash
<1>13. CASE UNCHANGED vars
  BY <1>0, <1>4, <1>13 DEF vars, portalVars, fileVars, dialogVars, taskVars, boundVars
<1> QED
  BY <1>0, <1>5, <1>6, <1>7, <1>8, <1>9, <1>10, <1>11, <1>12, <1>13, CalmRequest
     DEF Next, Dialog, Check, Worker

-----------------------------------------------------------------------------

LEMMA SteadyInit == Init => SteadyInv
<1> SUFFICES ASSUME Init PROVE SteadyInv
  OBVIOUS
<1> USE FirstContentType, CloneAssumption, ValueAssumption
<1>1. /\ DOMAIN local = 1 .. NCloned /\ DOMAIN baseline = Cloned /\ Cloned \subseteq Ids
      /\ issued = Cloned /\ phase = "closed" /\ pushes = 0
      /\ \A k \in Pushes : at[k] = "idle" /\ failed[k] = {} /\ ~cancelled[k]
      /\ \A f \in 1 .. NCloned : local[f].geom # NoGeom
      /\ \A i \in Ids : portal[i].live <=> i \in Cloned
      /\ \A i \in Cloned : sent[i] = {FirstContent} /\ ContentOf(baseline[i]) = FirstContent
  <2>1. Cloned \subseteq Ids
    BY DEF Cloned
  <2>2. [attr |-> FirstContent.attr, geom |-> FirstContent.geom] = FirstContent
    BY DEF Content
  <2>3. \A i \in Cloned : sent[i] = {FirstContent} /\ ContentOf(baseline[i]) = FirstContent
    BY <2>1, <2>2 DEF Init, ContentOf
  <2>4. /\ \A f \in 1 .. NCloned : local[f].geom # NoGeom
        /\ \A i \in Ids : portal[i].live <=> i \in Cloned
    BY DEF Init
  <2> QED
    BY <2>1, <2>3, <2>4 DEF Init
<1>2. \A f \in DOMAIN local : local[f].gid \in Cloned
  BY <1>1 DEF Init, Cloned
<1>3. NoneEmpty /\ FirstPush
  BY <1>1 DEF NoneEmpty, FirstPush
<1>4. Accounted
  BY <1>1, <1>2 DEF Accounted
<1>5. RowsStay /\ OpsFit /\ DoneIsDone
  BY <1>1 DEF RowsStay, TasksOut, OpsFit, DoneIsDone
<1>6. PlanFits /\ CalmPush
  BY <1>1 DEF PlanFits, InPush, CalmPush
<1> QED
  BY <1>3, <1>4, <1>5, <1>6 DEF SteadyInv

LEMMA SteadyStep == PushInv /\ (Steady(env) => SteadyInv) /\ [Next]_vars
                        => (Steady(env) => SteadyInv)'
<1> SUFFICES ASSUME PushInv, Steady(env) => SteadyInv, [Next]_vars, Steady(env)'
             PROVE  SteadyInv'
  OBVIOUS
<1>1. SteadyInv /\ Steady(env)
  BY EnvKept DEF Steady, Calm
<1> QED
  BY <1>1, NoneEmptyStep, FirstPushStep, RowsStayStep, AccountedStep, PlanFitsStep, OpsFitStep,
     DoneStep, CalmStep DEF SteadyInv

LEMMA SteadyHolds == Spec => [](Steady(env) => SteadyInv)
BY PushInit, PushStep, SteadyInit, SteadyStep, PTL DEF Spec

\* In a steady environment a saved row that reads as unchanged was on the portal
\* with that content, put there by this clone or cloned from it: the baseline
\* never marks unsent work as synced, whichever push moved it.
THEOREM SyncedWasSent == Spec => [](Steady(env) => SyncedMeansSent)
<1>1. SteadyInv => SyncedMeansSent
  BY DEF SteadyInv, Accounted, SyncedMeansSent, Recorded, Unchanged
<1> QED
  BY <1>1, SteadyHolds, PTL

\* ... and a live feature that has lost its local row is in the baseline, so the
\* next plan deletes it.
THEOREM DeletesStayPlanned == Spec => [](Steady(env) => DeletionsStayPending)
<1>1. SteadyInv => DeletionsStayPending
  BY DEF SteadyInv, Accounted, DeletionsStayPending, HasRow
<1> QED
  BY <1>1, SteadyHolds, PTL
=============================================================================
