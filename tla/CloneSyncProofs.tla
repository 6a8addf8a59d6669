-------------------------- MODULE CloneSyncProofs --------------------------
(***************************************************************************)
(* Proofs about CloneSync, for every value of its constants.               *)
(***************************************************************************)
EXTENDS CloneSync, WellFoundedInduction, TLAPS

\* The first rows' content exists, and has a geometry.
LEMMA FirstContentType == FirstContent \in Content /\ FirstContent.geom \in Geoms
<1>1. PICK a \in Attrs, g \in Geoms : TRUE
  BY ValueAssumption
<1>2. [attr |-> a, geom |-> g] \in Content /\ [attr |-> a, geom |-> g].geom # NoGeom
  BY <1>1, ValueAssumption DEF Content
<1>3. \E c \in Content : c.geom # NoGeom
  BY <1>2
<1>4. FirstContent \in Content /\ FirstContent.geom # NoGeom
  BY <1>3 DEF FirstContent
<1> QED
  BY <1>4 DEF Content

\* Among the rows with a given id one is the last.
LEMMA LastWithExists ==
    ASSUME NEW n \in Nat, NEW rows, DOMAIN rows \subseteq 1 .. n,
           NEW i, \E f \in DOMAIN rows : rows[f].gid = i
    PROVE  LastWith(rows, i) \in DOMAIN rows /\ rows[LastWith(rows, i)].gid = i
<1> DEFINE Claims == {f \in DOMAIN rows : rows[f].gid = i}
           Gaps == {n - f : f \in Claims}
<1>1. Gaps \subseteq Nat /\ Gaps # {}
  OBVIOUS
<1>2. PICK k \in Gaps : \A m \in Gaps : ~(<<m, k>> \in OpToRel(<, Nat))
  BY <1>1, NatLessThanWellFounded, WFMin
<1>3. \A m \in Gaps : ~(m < k)
  BY <1>1, <1>2 DEF OpToRel
<1>4. PICK f \in Claims : k = n - f
  OBVIOUS
<1>5. \A g \in Claims : g <= f
  <2> TAKE g \in Claims
  <2>1. n - g \in Gaps
    OBVIOUS
  <2>2. f \in Nat /\ g \in Nat /\ ~(n - g < n - f)
    BY <1>3, <1>4, <2>1
  <2> QED
    BY <2>2
<1>6. /\ f \in DOMAIN rows /\ rows[f].gid = i
      /\ \A g \in DOMAIN rows : rows[g].gid = i => g <= f
  BY <1>4, <1>5
<1> QED
  BY <1>6 DEF LastWith

-----------------------------------------------------------------------------
(* The types of what planning, stamping, sending and refreshing compute.   *)

RowsOK(rows) == DOMAIN rows \subseteq Fids /\ rows \in [DOMAIN rows -> Row]
BaseOK(base) == DOMAIN base \subseteq Ids /\ base \in [DOMAIN base -> Entry]
MintOK(mint, rows) == mint \in [{f \in DOMAIN rows : ~Owns(rows, f)} -> Ids]

LEMMA PlanType ==
    ASSUME NEW rows, NEW base, NEW mint, RowsOK(rows), BaseOK(base), MintOK(mint, rows)
    PROVE  PlanOps(rows, base, mint) \subseteq Op
<1>1. Creates(rows, base, mint) \subseteq Op
  <2>1. ASSUME NEW f \in DOMAIN rows
        PROVE  OpFor("create", f, IF Owns(rows, f) THEN rows[f].gid ELSE mint[f], rows[f]) \in Op
    <3>1. (IF Owns(rows, f) THEN rows[f].gid ELSE mint[f]) \in Ids
      BY DEF RowsOK, MintOK, Owns, Row
    <3>2. f \in Fids /\ rows[f].attr \in Attrs /\ rows[f].geom \in Geoms \cup {NoGeom}
      BY DEF RowsOK, Row
    <3> QED
      BY <3>1, <3>2 DEF OpFor, Op
  <2> QED
    BY <2>1 DEF Creates
<1>2. Updates(rows, base) \subseteq Op
  <2>1. ASSUME NEW f \in DOMAIN rows, Recorded(rows, base, f)
        PROVE  OpFor("update", f, rows[f].gid, rows[f]) \in Op
    <3>1. rows[f].gid \in Ids
      BY <2>1 DEF RowsOK, BaseOK, Recorded
    <3>2. f \in Fids /\ rows[f].attr \in Attrs /\ rows[f].geom \in Geoms \cup {NoGeom}
      BY DEF RowsOK, Row
    <3> QED
      BY <3>1, <3>2 DEF OpFor, Op
  <2> QED
    BY <2>1 DEF Updates
<1>3. Deletes(rows, base) \subseteq Op
  <2>1. ASSUME NEW i \in DOMAIN base
        PROVE  OpFor("delete", 0, i, base[i]) \in Op
    BY DEF BaseOK, Entry, OpFor, Op
  <2> QED
    BY <2>1 DEF Deletes
<1> QED
  BY <1>1, <1>2, <1>3 DEF PlanOps

LEMMA StampedType ==
    ASSUME NEW rows, NEW planned, RowsOK(rows), planned \subseteq Op
    PROVE  DOMAIN Stamped(rows, planned) = DOMAIN rows /\ RowsOK(Stamped(rows, planned))
<1>1. ASSUME NEW f \in DOMAIN rows
      PROVE  Stamped(rows, planned)[f] \in Row
  <2>1. CASE CreatesRow(planned, f)
    <3>1. (CHOOSE op \in planned : op.kind = "create" /\ op.fid = f) \in Op
      BY <2>1 DEF CreatesRow
    <3>2. WithMintedId(rows[f], planned, f) \in Row
      BY <3>1 DEF WithMintedId, OfContent, ContentOf, RowsOK, Row, Op
    <3> QED
      BY <2>1, <3>2 DEF Stamped
  <2>2. CASE ~CreatesRow(planned, f)
    BY <2>2 DEF Stamped, RowsOK
  <2> QED
    BY <2>1, <2>2
<1>2. /\ DOMAIN Stamped(rows, planned) = DOMAIN rows
      /\ Stamped(rows, planned) = [f \in DOMAIN rows |-> Stamped(rows, planned)[f]]
  BY DEF Stamped
<1> QED
  BY <1>1, <1>2 DEF RowsOK

LEMMA SnapshotType ==
    ASSUME NEW rows, NEW feats, RowsOK(rows), feats \in [Ids -> PortalRow]
    PROVE  BaseOK(SnapshotBaseline(rows, feats))
<1> DEFINE Claimed == {rows[f].gid : f \in DOMAIN rows} \ {NoId}
<1>1. Claimed \subseteq Ids
  BY DEF RowsOK, Row
<1>2. ASSUME NEW i \in Claimed
      PROVE  SnapshotBaseline(rows, feats)[i] \in Entry
  <2>1. \E f \in DOMAIN rows : rows[f].gid = i
    OBVIOUS
  <2>2. LastWith(rows, i) \in DOMAIN rows
    BY <2>1, LastWithExists, CloneAssumption DEF RowsOK, Fids
  <2>3. rows[LastWith(rows, i)] \in Row
    BY <2>2 DEF RowsOK
  <2>4. (IF feats[i].live THEN feats[i].stamp ELSE 0) \in Nat
    BY <1>1 DEF PortalRow
  <2> QED
    BY <2>3, <2>4 DEF SnapshotBaseline, Row, Entry
<1>3. /\ DOMAIN SnapshotBaseline(rows, feats) = Claimed
      /\ SnapshotBaseline(rows, feats) = [i \in Claimed |-> SnapshotBaseline(rows, feats)[i]]
  BY DEF SnapshotBaseline
<1> QED
  BY <1>1, <1>2, <1>3 DEF BaseOK

\* Whatever a read yields has the shape of the portal.
LEMMA AnswerType ==
    ASSUME PortalTypeOK, NEW seen \in Answers
    PROVE  seen \in [Ids -> PortalRow]
<1>1. portal \in [Ids -> PortalRow]
  BY DEF PortalTypeOK
<1>2. ASSUME NEW i \in Ids
      PROVE  [live |-> FALSE, attr |-> portal[i].attr, geom |-> portal[i].geom,
              stamp |-> portal[i].stamp] \in PortalRow
  BY <1>1 DEF PortalRow
<1>3. Emptied \in [Ids -> PortalRow]
  BY <1>2 DEF Emptied
<1>4. seen = portal \/ seen = Emptied
  BY DEF Answers
<1> QED
  BY <1>1, <1>3, <1>4

\* What the portal makes of an op is a portal row.
LEMMA WrittenType ==
    ASSUME NEW op \in Op, PortalTypeOK
    PROVE  /\ Written(op) \in PortalRow
           /\ op.kind # "delete" => ContentOf(Written(op)) \in Content
<1>1. portal[op.id] \in PortalRow
  BY DEF PortalTypeOK, Op
<1>2. portal[op.id].stamp + 1 \in Nat
  BY <1>1 DEF PortalRow
<1> QED
  BY <1>1, <1>2 DEF Written, Removed, PortalRow, Op, ContentOf, Content

LEMMA FileRowsOK == FileTypeOK => RowsOK(local) /\ BaseOK(baseline)
BY CloneAssumption DEF FileTypeOK, RowsOK, BaseOK, Fids

-----------------------------------------------------------------------------
(* Type correctness.                                                       *)

LEMMA TypeInit == Init => TypeOK
<1> SUFFICES ASSUME Init PROVE TypeOK
  OBVIOUS
<1> USE FirstContentType, CloneAssumption, ValueAssumption
<1>1. Cloned \subseteq Ids
  BY DEF Cloned
<1>2. PortalTypeOK
  <2>1. portal \in [Ids -> PortalRow]
    BY <1>1 DEF Init, PortalRow, Content
  <2>2. sent \in [Ids -> SUBSET Content] /\ origin \in [Ids -> SUBSET Fids]
    BY DEF Init, Fids
  <2> QED
    BY <2>1, <2>2 DEF Init, PortalTypeOK
<1>3. FileTypeOK
  <2>1. local \in [1 .. NCloned -> Row] /\ DOMAIN local = 1 .. NCloned
    BY DEF Init, Row, Content
  <2>2. baseline \in [Cloned -> Entry] /\ DOMAIN baseline = Cloned
    BY DEF Init, Entry, Content
  <2> QED
    BY <1>1, <2>1, <2>2 DEF Init, FileTypeOK
<1>4. DialogTypeOK
  BY DEF Init, DialogTypeOK
<1>5. BoundTypeOK
  BY BoundAssumption DEF Init, BoundTypeOK
<1>6. TasksTypeOK
  <2>1. ops = [k \in Pushes |-> {}] /\ at = [k \in Pushes |-> "idle"]
        /\ cancelled = [k \in Pushes |-> FALSE]
    BY DEF Init
  <2>2. todo = ops /\ inflight = ops /\ failed = ops /\ blind = ops
        /\ consented = ops /\ declined = ops
    BY DEF Init
  <2> QED
    BY <2>1, <2>2 DEF TasksTypeOK
<1> QED
  BY <1>2, <1>3, <1>4, <1>5, <1>6 DEF TypeOK

\* Editing the clone touches nothing but its rows.
LEMMA UserStep ==
    User => /\ CanEdit
            /\ UNCHANGED <<portalVars, baseline, hasTable, issued, dialogVars, taskVars,
                           env, remotes, pushes>>
<1>1. ASSUME NEW f \in Fids, NEW c \in Content, EditRow(f, c)
      PROVE  CanEdit /\ \E rows : SaveRows(rows)
  BY <1>1 DEF EditRow
<1>2. ASSUME NEW c \in Content, AddRow(c)
      PROVE  CanEdit /\ \E rows : SaveRows(rows)
  BY <1>2 DEF AddRow
<1>3. ASSUME NEW f \in Fids, SplitRow(f)
      PROVE  CanEdit /\ \E rows : SaveRows(rows)
  BY <1>3 DEF SplitRow
<1>4. ASSUME NEW f \in Fids, DeleteRow(f)
      PROVE  CanEdit /\ \E rows : SaveRows(rows)
  BY <1>4 DEF DeleteRow
<1>5. User => CanEdit /\ \E rows : SaveRows(rows)
  BY <1>1, <1>2, <1>3, <1>4 DEF User
<1> QED
  BY <1>5 DEF SaveRows

LEMMA PortalTypeStep == TypeOK /\ [Next]_vars => PortalTypeOK'
<1> SUFFICES ASSUME TypeOK, [Next]_vars PROVE PortalTypeOK'
  OBVIOUS
<1>1. ASSUME NEW i \in Ids, NEW c \in Content, RemoteEdit(i, c) PROVE PortalTypeOK'
  <2>1. portal[i] \in PortalRow
    BY DEF TypeOK, PortalTypeOK
  <2>2. [live |-> TRUE, attr |-> c.attr, geom |-> c.geom, stamp |-> portal[i].stamp + 1]
            \in PortalRow
    BY <2>1 DEF PortalRow, Content
  <2>3. portal' = [portal EXCEPT ![i] = [live |-> TRUE, attr |-> c.attr, geom |-> c.geom,
                                         stamp |-> portal[i].stamp + 1]]
    BY <1>1 DEF RemoteEdit
  <2>4. portal' \in [Ids -> PortalRow]
    BY <2>2, <2>3 DEF TypeOK, PortalTypeOK
  <2> QED
    BY <1>1, <2>4 DEF TypeOK, PortalTypeOK, RemoteEdit
<1>2. ASSUME NEW i \in Ids, RemoteDelete(i) PROVE PortalTypeOK'
  <2>1. portal[i] \in PortalRow
    BY DEF TypeOK, PortalTypeOK
  <2>2. portal' = [portal EXCEPT ![i] = Removed(portal[i])]
    BY <1>2 DEF RemoteDelete
  <2>3. Removed(portal[i]) \in PortalRow
    BY <2>1 DEF Removed, PortalRow
  <2>4. portal' \in [Ids -> PortalRow]
    BY <2>2, <2>3 DEF TypeOK, PortalTypeOK
  <2> QED
    BY <1>2, <2>4 DEF TypeOK, PortalTypeOK, RemoteDelete
<1>3. ASSUME NEW k \in Pushes, WorkerDone(k) PROVE PortalTypeOK'
  <2>1. CASE UNCHANGED portalVars
    BY <2>1 DEF TypeOK, PortalTypeOK, portalVars
  <2>2. ASSUME NEW op \in inflight[k], Apply(op), ~UNCHANGED portalVars PROVE PortalTypeOK'
    <3>1. op \in Op /\ op.id \in Ids
      BY DEF TypeOK, TasksTypeOK, Op
    <3>2. /\ Written(op) \in PortalRow
          /\ op.kind # "delete" => ContentOf(Written(op)) \in Content
      BY <3>1, WrittenType DEF TypeOK
    <3>3. portal' \in [Ids -> PortalRow]
      BY <2>2, <3>1, <3>2 DEF Apply, TypeOK, PortalTypeOK
    <3>4. sent' \in [Ids -> SUBSET Content]
      BY <2>2, <3>1, <3>2 DEF Apply, TypeOK, PortalTypeOK
    <3>5. op.kind = "create" => op.fid \in Fids
      BY <3>1 DEF Op
    <3>6. origin' \in [Ids -> SUBSET Fids]
      BY <2>2, <3>1, <3>5 DEF Apply, TypeOK, PortalTypeOK
    <3>7. foreign' \subseteq Ids /\ late' \in [Pushes -> SUBSET Ids] /\ restamped' \subseteq Ids
      BY <2>2 DEF Apply, TypeOK, PortalTypeOK
    <3> QED
      BY <3>3, <3>4, <3>6, <3>7 DEF PortalTypeOK
  <2> QED
    BY <1>3, <2>1, <2>2 DEF WorkerDone
<1>4. CASE UNCHANGED vars
  BY <1>4 DEF TypeOK, PortalTypeOK, vars, portalVars
<1>5. CASE User
  BY <1>5, UserStep DEF TypeOK, PortalTypeOK, portalVars
<1>6. CASE Dialog \/ Crash
  BY <1>6 DEF Dialog, OpenDialog, StampMintedIds, Check, CheckConflicts, CheckFails,
              SendUnchecked, OverwriteConflicts, SkipConflicts, AbandonPush, CloseDialog,
              DismissDuringPush, Crash, TypeOK, PortalTypeOK, portalVars
<1>7. ASSUME NEW k \in Pushes, WorkerTake(k) \/ WorkerReturn(k) PROVE PortalTypeOK'
  BY <1>7 DEF WorkerTake, WorkerReturn, TypeOK, PortalTypeOK, portalVars
<1>8. ASSUME NEW k \in Pushes, Callback(k) PROVE PortalTypeOK'
  BY <1>8 DEF Callback, PushIncomplete, RefreshBaseline, RefreshFails, RefreshDropsTable,
              TaskOver, TypeOK, PortalTypeOK, portalVars
<1> QED
  BY <1>1, <1>2, <1>3, <1>4, <1>5, <1>6, <1>7, <1>8 DEF Next, Others, Worker

LEMMA DrawnIdType ==
    ASSUME NEW n \in Nat, NCloned <= n, n < MaxFid
    PROVE  /\ n + 1 \in NCloned + 1 .. MaxFid
           /\ DrawnId[n + 1] \in Ids \cup {NoId}
<1>1. n + 1 \in NCloned + 1 .. MaxFid
  BY CloneAssumption
<1> QED
  BY <1>1, DrawnAssumption

\* The rows a user's save leaves, one case per edit.
LEMMA SavedRowsType ==
    ASSUME FileTypeOK, User
    PROVE  /\ lastFid' \in NCloned .. MaxFid
           /\ DOMAIN local' \subseteq 1 .. lastFid'
           /\ local' \in [DOMAIN local' -> Row]
<1>0. /\ lastFid \in Nat /\ NCloned <= lastFid /\ lastFid <= MaxFid
      /\ DOMAIN local \subseteq 1 .. lastFid
      /\ \A f \in DOMAIN local : local[f] \in Row
  BY CloneAssumption DEF FileTypeOK
<1>1. ASSUME NEW f \in Fids, NEW c \in Content, EditRow(f, c)
      PROVE  /\ lastFid' = lastFid /\ DOMAIN local' = DOMAIN local
             /\ local' \in [DOMAIN local -> Row]
  <2>1. /\ local' = [local EXCEPT ![f] = OfContent(local[f].gid, c)] /\ lastFid' = lastFid
        /\ f \in DOMAIN local
    BY <1>1 DEF EditRow, SaveRows
  <2>2. OfContent(local[f].gid, c) \in Row
    BY <1>0, <2>1 DEF OfContent, Content, Row
  <2>3. local \in [DOMAIN local -> Row]
    BY DEF FileTypeOK
  <2> QED
    BY <2>1, <2>2, <2>3
<1>2. ASSUME NEW c \in Content, AddRow(c)
      PROVE  /\ lastFid' = lastFid + 1 /\ lastFid < MaxFid
             /\ DOMAIN local' = DOMAIN local \cup {lastFid'}
             /\ local' \in [DOMAIN local' -> Row]
  <2>1. /\ lastFid' = lastFid + 1 /\ lastFid < MaxFid
        /\ local' = [f \in DOMAIN local \cup {lastFid'} |->
                        IF f = lastFid' THEN OfContent(DrawnId[lastFid'], c) ELSE local[f]]
    BY <1>2 DEF AddRow, SaveRows
  <2>2. OfContent(DrawnId[lastFid'], c) \in Row
    BY <1>0, <2>1, DrawnIdType DEF OfContent, Content, Row
  <2> QED
    BY <1>0, <2>1, <2>2
<1>3. ASSUME NEW f \in Fids, SplitRow(f)
      PROVE  /\ lastFid' = lastFid + 1 /\ lastFid < MaxFid
             /\ DOMAIN local' = DOMAIN local \cup {lastFid'}
             /\ local' \in [DOMAIN local' -> Row]
  <2> DEFINE Part(i, g) == OfContent(i, [attr |-> local[f].attr, geom |-> g])
  <2>1. PICK g1, g2 \in Geoms :
           /\ lastFid' = lastFid + 1 /\ lastFid < MaxFid /\ f \in DOMAIN local
           /\ local' = [h \in DOMAIN local \cup {lastFid'} |->
                            IF h = f THEN Part(local[f].gid, g1)
                            ELSE IF h = lastFid' THEN Part(CopiedId(f), g2) ELSE local[h]]
    BY <1>3 DEF SplitRow, SaveRows
  <2>2. CopiedId(f) \in Ids \cup {NoId}
    BY <1>0, <2>1, DrawnIdType DEF CopiedId, Row
  <2>3. Part(local[f].gid, g1) \in Row /\ Part(CopiedId(f), g2) \in Row
    BY <1>0, <2>1, <2>2 DEF OfContent, Row
  <2> HIDE DEF Part
  <2> QED
    BY <1>0, <2>1, <2>3
<1>4. ASSUME NEW f \in Fids, DeleteRow(f)
      PROVE  /\ lastFid' = lastFid /\ DOMAIN local' \subseteq DOMAIN local
             /\ local' \in [DOMAIN local' -> Row]
  BY <1>0, <1>4 DEF DeleteRow, SaveRows
<1> QED
  <2>1. CASE \E f \in Fids, c \in Content : EditRow(f, c)
    BY <1>0, <1>1, <2>1, CloneAssumption
  <2>2. CASE \E c \in Content : AddRow(c)
    BY <1>0, <1>2, <2>2, CloneAssumption
  <2>3. CASE \E f \in Fids : SplitRow(f)
    BY <1>0, <1>3, <2>3, CloneAssumption
  <2>4. CASE \E f \in Fids : DeleteRow(f)
    BY <1>0, <1>4, <2>4, CloneAssumption
  <2> QED
    BY <2>1, <2>2, <2>3, <2>4 DEF User

LEMMA FileTypeStep == TypeOK /\ [Next]_vars => FileTypeOK'
<1> SUFFICES ASSUME TypeOK, [Next]_vars PROVE FileTypeOK'
  OBVIOUS
<1>0. FileTypeOK /\ RowsOK(local) /\ BaseOK(baseline) /\ plan \subseteq Op
  BY FileRowsOK DEF TypeOK, DialogTypeOK
<1>1. CASE User
  <2>1. UNCHANGED <<baseline, hasTable, issued>>
    BY <1>1, UserStep
  <2>2. /\ lastFid' \in NCloned .. MaxFid /\ DOMAIN local' \subseteq 1 .. lastFid'
        /\ local' \in [DOMAIN local' -> Row]
    BY <1>0, <1>1, SavedRowsType
  <2> QED
    BY <1>0, <2>1, <2>2 DEF FileTypeOK
<1>2. CASE StampMintedIds
  <2>1. local' = Stamped(local, plan) /\ UNCHANGED <<lastFid, baseline, hasTable>>
    BY <1>2 DEF StampMintedIds
  <2>2. issued' \subseteq Ids
    BY <1>0, <1>2 DEF StampMintedIds, FileTypeOK, Op
  <2>3. DOMAIN local' = DOMAIN local /\ RowsOK(local')
    BY <1>0, <2>1, StampedType
  <2> QED
    BY <1>0, <2>1, <2>2, <2>3 DEF FileTypeOK, RowsOK
<1>3. ASSUME NEW k \in Pushes, RefreshBaseline(k) PROVE FileTypeOK'
  <2>1. PICK seen \in Answers : baseline' = SnapshotBaseline(local, seen)
    BY <1>3 DEF RefreshBaseline
  <2>2. hasTable' = TRUE /\ UNCHANGED <<local, lastFid, issued>>
    BY <1>3 DEF RefreshBaseline, TaskOver
  <2>3. BaseOK(baseline')
    BY <1>0, <2>1, SnapshotType, AnswerType DEF TypeOK
  <2> QED
    BY <1>0, <2>2, <2>3 DEF FileTypeOK, BaseOK
<1>4. ASSUME NEW k \in Pushes, RefreshDropsTable(k) PROVE FileTypeOK'
  <2>1. /\ baseline' = << >> /\ hasTable' \in BOOLEAN
        /\ UNCHANGED <<local, lastFid, issued>>
    BY <1>4 DEF RefreshDropsTable, TaskOver
  <2>2. DOMAIN baseline' = {} /\ baseline' \in [{} -> Entry]
    BY <2>1
  <2> QED
    BY <1>0, <2>1, <2>2 DEF FileTypeOK
<1>5. CASE UNCHANGED fileVars
  BY <1>0, <1>5 DEF FileTypeOK, fileVars
<1>6. CASE Others \/ Crash \/ UNCHANGED vars
  <2>1. UNCHANGED fileVars
    BY <1>6 DEF Others, RemoteEdit, RemoteDelete, Crash, vars, fileVars
  <2> QED
    BY <1>5, <2>1
<1>7. CASE Dialog /\ ~StampMintedIds
  <2>1. UNCHANGED fileVars
    BY <1>7 DEF Dialog, OpenDialog, Check, CheckConflicts, CheckFails, SendUnchecked,
                OverwriteConflicts, SkipConflicts, AbandonPush, CloseDialog,
                DismissDuringPush, fileVars
  <2> QED
    BY <1>5, <2>1
<1>8. ASSUME NEW k \in Pushes, PushIncomplete(k) \/ RefreshFails(k) \/ Worker(k)
      PROVE  FileTypeOK'
  <2>1. UNCHANGED fileVars
    BY <1>8 DEF PushIncomplete, RefreshFails, TaskOver, Worker, WorkerTake, WorkerDone,
                WorkerReturn, fileVars
  <2> QED
    BY <1>5, <2>1
<1> QED
  BY <1>1, <1>2, <1>3, <1>4, <1>6, <1>7, <1>8 DEF Next, Callback

LEMMA DialogTypeStep == TypeOK /\ [Next]_vars => DialogTypeOK'
<1> SUFFICES ASSUME TypeOK, [Next]_vars PROVE DialogTypeOK'
  OBVIOUS
<1>0. DialogTypeOK
  BY DEF TypeOK
<1>1. CASE OpenDialog
  <2>1. PICK mint \in Mintings(local, issued) : plan' = PlanOps(local, baseline, mint)
    BY <1>1 DEF OpenDialog
  <2>2. MintOK(mint, local)
    BY DEF Mintings, MintOK
  <2>3. plan' \subseteq Op
    BY <2>1, <2>2, PlanType, FileRowsOK DEF TypeOK
  <2> QED
    BY <1>0, <1>1, <2>3 DEF OpenDialog, DialogTypeOK
<1>2. CASE Check
  <2>1. \A seen : FindConflicts(plan, baseline, seen) \subseteq Ids
    BY <1>0 DEF FindConflicts, DialogTypeOK, Op
  <2> QED
    BY <1>0, <1>2, <2>1 DEF Check, CheckConflicts, CheckFails, StartTask, DialogTypeOK
<1>3. CASE SendUnchecked \/ OverwriteConflicts \/ SkipConflicts \/ AbandonPush
  BY <1>0, <1>3 DEF SendUnchecked, OverwriteConflicts, SkipConflicts, AbandonPush, StartTask,
                    BackToOpen, DialogTypeOK
<1>4. CASE StampMintedIds \/ CloseDialog \/ DismissDuringPush \/ Crash
  BY <1>0, <1>4 DEF StampMintedIds, CloseDialog, DismissDuringPush, Crash, LeaveScreen,
                    DialogTypeOK
<1>5. ASSUME NEW k \in Pushes, Worker(k) PROVE DialogTypeOK'
  BY <1>0, <1>5 DEF Worker, WorkerTake, WorkerDone, WorkerReturn, dialogVars, DialogTypeOK
<1>6. ASSUME NEW k \in Pushes, Accept(k) PROVE DialogTypeOK'
  BY <1>0, <1>6 DEF Accept, LeaveScreen, DialogTypeOK
<1>7. ASSUME NEW k \in Pushes, PushIncomplete(k) PROVE DialogTypeOK'
  BY <1>0, <1>7 DEF PushIncomplete, DialogTypeOK
<1>8. CASE User
  BY <1>0, <1>8, UserStep DEF dialogVars, DialogTypeOK
<1>9. CASE Others \/ UNCHANGED vars
  BY <1>0, <1>9 DEF Others, RemoteEdit, RemoteDelete, vars, dialogVars, DialogTypeOK
<1> QED
  BY <1>1, <1>2, <1>3, <1>4, <1>5, <1>6, <1>7, <1>8, <1>9
     DEF Next, Dialog, Callback, RefreshBaseline, RefreshFails, RefreshDropsTable

LEMMA TasksTypeStep == TypeOK /\ [Next]_vars => TasksTypeOK'
<1> SUFFICES ASSUME TypeOK, [Next]_vars PROVE TasksTypeOK'
  OBVIOUS
<1>0. TasksTypeOK /\ plan \subseteq Op /\ conflicts \subseteq Ids
  BY DEF TypeOK, DialogTypeOK
<1>1. ASSUME NEW work \in SUBSET plan, NEW agreed \in SUBSET Ids, NEW skipped \in SUBSET Ids,
             StartTask(work, agreed, skipped), blind' \in [Pushes -> SUBSET Ids]
      PROVE  TasksTypeOK'
  <2>1. at' \in [Pushes -> {"idle", "sending", "complete", "cancelled"}]
    BY <1>0, <1>1 DEF StartTask, TasksTypeOK
  <2>2. ops' \in [Pushes -> SUBSET Op] /\ todo' \in [Pushes -> SUBSET Op]
    BY <1>0, <1>1 DEF StartTask, TasksTypeOK
  <2>3. consented' \in [Pushes -> SUBSET Ids] /\ declined' \in [Pushes -> SUBSET Ids]
    BY <1>0, <1>1 DEF StartTask, TasksTypeOK
  <2> QED
    BY <1>0, <1>1, <2>1, <2>2, <2>3 DEF StartTask, TasksTypeOK
<1>2. CASE UNCHANGED taskVars
  BY <1>0, <1>2 DEF TasksTypeOK, taskVars
<1>3. CASE BackToOpen /\ UNCHANGED blind
  BY <1>2, <1>3 DEF BackToOpen, taskVars
<1>4. CASE CheckConflicts
  <2>1. PICK seen \in Answers :
           /\ blind' = [blind EXCEPT ![pushes] = Uncompared(plan, baseline, seen)]
           /\ \/ StartTask(plan, {}, {})
              \/ UNCHANGED <<at, ops, todo, inflight, failed, cancelled, consented, declined>>
    BY <1>4 DEF CheckConflicts
  <2>2. Uncompared(plan, baseline, seen) \subseteq Ids
    BY <1>0 DEF Uncompared, Op
  <2>3. blind' \in [Pushes -> SUBSET Ids]
    BY <1>0, <2>1, <2>2 DEF TasksTypeOK
  <2>4. CASE StartTask(plan, {}, {})
    BY <1>1, <2>3, <2>4
  <2> QED
    BY <1>0, <2>1, <2>3, <2>4 DEF TasksTypeOK
<1>5. CASE SendUnchecked \/ OverwriteConflicts
  <2>1. blind' \in [Pushes -> SUBSET Ids]
    BY <1>0, <1>5 DEF SendUnchecked, OverwriteConflicts, TasksTypeOK
  <2> QED
    BY <1>0, <1>1, <1>5, <2>1 DEF SendUnchecked, OverwriteConflicts
<1>6. CASE SkipConflicts
  <2>1. WithoutConflicts(plan, conflicts) \subseteq plan /\ blind' \in [Pushes -> SUBSET Ids]
    BY <1>0, <1>6 DEF WithoutConflicts, SkipConflicts, TasksTypeOK
  <2> QED
    BY <1>0, <1>1, <1>3, <1>6, <2>1 DEF SkipConflicts
<1>7. CASE OpenDialog \/ StampMintedIds \/ CheckFails \/ AbandonPush \/ CloseDialog
  BY <1>2, <1>3, <1>7 DEF OpenDialog, StampMintedIds, CheckFails, AbandonPush, CloseDialog
<1>8. CASE DismissDuringPush
  <2>1. cancelled' \in [Pushes -> BOOLEAN]
    BY <1>0, <1>8 DEF DismissDuringPush, TasksTypeOK
  <2> QED
    BY <1>0, <1>8, <2>1 DEF DismissDuringPush, TasksTypeOK
<1>9. ASSUME NEW k \in Pushes, Worker(k) PROVE TasksTypeOK'
  <2>1. /\ at' \in [Pushes -> {"idle", "sending", "complete", "cancelled"}]
        /\ todo' \in [Pushes -> SUBSET Op]
    BY <1>0, <1>9 DEF Worker, WorkerTake, WorkerDone, WorkerReturn, TasksTypeOK
  <2>2. inflight' \in [Pushes -> SUBSET Op]
    BY <1>0, <1>9 DEF Worker, WorkerTake, WorkerDone, WorkerReturn, TasksTypeOK
  <2>3. failed' \in [Pushes -> SUBSET Op]
    BY <1>0, <1>9 DEF Worker, WorkerTake, WorkerDone, WorkerReturn, TasksTypeOK
  <2>4. UNCHANGED <<ops, cancelled, blind, consented, declined>>
    BY <1>9 DEF Worker, WorkerTake, WorkerDone, WorkerReturn
  <2> QED
    BY <1>0, <2>1, <2>2, <2>3, <2>4 DEF TasksTypeOK
<1>10. ASSUME NEW k \in Pushes, TaskOver(k) PROVE TasksTypeOK'
  <2>1. /\ at' \in [Pushes -> {"idle", "sending", "complete", "cancelled"}]
        /\ ops' \in [Pushes -> SUBSET Op] /\ todo' \in [Pushes -> SUBSET Op]
        /\ inflight' = inflight
    BY <1>0, <1>10 DEF TaskOver, TasksTypeOK
  <2>2. /\ failed' \in [Pushes -> SUBSET Op] /\ cancelled' \in [Pushes -> BOOLEAN]
        /\ blind' \in [Pushes -> SUBSET Ids]
    BY <1>0, <1>10 DEF TaskOver, TasksTypeOK
  <2>3. consented' \in [Pushes -> SUBSET Ids] /\ declined' \in [Pushes -> SUBSET Ids]
    BY <1>0, <1>10 DEF TaskOver, TasksTypeOK
  <2> QED
    BY <1>0, <2>1, <2>2, <2>3 DEF TasksTypeOK
<1>11. CASE Crash
  BY <1>11 DEF Crash, TasksTypeOK
<1>12. CASE User
  BY <1>2, <1>12, UserStep
<1>13. CASE Others \/ UNCHANGED vars
  BY <1>2, <1>13 DEF Others, RemoteEdit, RemoteDelete, vars
<1> QED
  BY <1>4, <1>5, <1>6, <1>7, <1>8, <1>9, <1>10, <1>11, <1>12, <1>13
     DEF Next, Dialog, Check, Callback, PushIncomplete, RefreshBaseline, RefreshFails,
         RefreshDropsTable

LEMMA BoundTypeStep == TypeOK /\ [Next]_vars => BoundTypeOK'
<1> SUFFICES ASSUME TypeOK, [Next]_vars PROVE BoundTypeOK'
  OBVIOUS
<1> USE BoundAssumption DEF TypeOK, BoundTypeOK, boundVars
<1>1. CASE User
  BY <1>1, UserStep DEF CanEdit
<1>2. CASE Others
  BY <1>2 DEF Others, RemoteEdit, RemoteDelete
<1>3. CASE StampMintedIds
  BY <1>3 DEF StampMintedIds
<1>4. CASE Dialog /\ ~StampMintedIds
  BY <1>4 DEF Dialog, OpenDialog, Check, CheckConflicts, CheckFails, SendUnchecked,
              OverwriteConflicts, SkipConflicts, AbandonPush, CloseDialog, DismissDuringPush
<1>5. ASSUME NEW k \in Pushes, Worker(k) PROVE BoundTypeOK'
  BY <1>5 DEF Worker, WorkerTake, WorkerDone, WorkerReturn
<1>6. ASSUME NEW k \in Pushes, Callback(k) PROVE BoundTypeOK'
  BY <1>6 DEF Callback, PushIncomplete, RefreshBaseline, RefreshFails, RefreshDropsTable,
              TaskOver
<1>7. CASE Crash \/ UNCHANGED vars
  BY <1>7 DEF Crash, vars
<1> QED
  BY <1>1, <1>2, <1>3, <1>4, <1>5, <1>6, <1>7 DEF Next

\* Type correctness, for every layer, every number of rows and ids, and every
\* environment.
THEOREM TypeCorrect == Spec => []TypeOK
<1>1. TypeOK /\ [Next]_vars => TypeOK'
  BY PortalTypeStep, FileTypeStep, DialogTypeStep, TasksTypeStep, BoundTypeStep DEF TypeOK
<1> QED
  BY <1>1, TypeInit, PTL DEF Spec
=============================================================================
