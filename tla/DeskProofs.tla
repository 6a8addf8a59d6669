----------------------------- MODULE DeskProofs -----------------------------
(***************************************************************************)
(* Proofs about what shares the desk with the clones.  The watchdog, for   *)
(* any number of freezes, loads and seconds: none is dumped twice, and     *)
(* nothing else is dumped.  The connection, for any number of sign-ins,    *)
(* sign-outs, deletions and edits, and any failures: while no two of them  *)
(* overlap, the profile, the auth database and the portal agree.  Then the *)
(* search dock, and, with the clones, the types of the whole desk.         *)
(***************************************************************************)
EXTENDS CloneWriteProofs

-----------------------------------------------------------------------------
(* The watchdog                                                            *)

\* The plugin: only its own watcher is not told to stop; what the GUI thread is
\* doing presupposes it.
PluginInv ==
    /\ load \in Loads
    /\ gui # "running" => loaded
    /\ gui = "ticking" => ticked[load] = clock
    /\ \A w \in Loads : ~stopped[w] /\ watcher[w].at # "none" => loaded /\ w = load
    /\ \A w \in Loads : stopped[w] => w < load \/ (w = load /\ ~loaded)

Busy(w) == watcher[w].at \in {"looks", "decided", "dumps"}

\* It has seen a stall, or is about to.
MayDump(w) ==
    \/ watcher[w].at \in {"decided", "dumps"}
    \/ watcher[w].at = "looks" /\ watcher[w].now > ticked[w] + 1

\* A watcher that has seen a stall saw a freeze, one not dumped yet; one that
\* looks during a freeze that is dumped finds the flag set.
WatcherInv(w) ==
    /\ ticked[w] <= clock /\ watcher[w].now <= clock /\ watcher[w].of <= freezes
    /\ MayDump(w) => watcher[w].of > 0
    /\ watcher[w].at \in {"decided", "dumps"} => dumps[watcher[w].of] = 0
    /\ watcher[w].at = "looks" /\ dumps[watcher[w].of] > 0 => stalled[w] \/ ~MayDump(w)

\* No two watchers, of loads apart, see one freeze as a stall.
WatchersApart ==
    \A w, x \in Loads : MayDump(w) /\ MayDump(x) /\ watcher[w].of = watcher[x].of => w = x

DumpInv == \A z \in 0 .. MaxFreezes : dumps[z] <= 1 /\ (z = 0 \/ z > freezes => dumps[z] = 0)

\* Ticks are late only in a freeze, or after it and before the next tick.  No
\* watcher of an earlier load has seen that freeze, and the flag says if this
\* one has dumped it.
StallInv ==
    loaded /\ (gui = "frozen" \/ clock > ticked[load] + 1) =>
        /\ freezes > 0
        /\ \A w \in Loads : w # load /\ Busy(w) => watcher[w].of < freezes
        /\ dumps[freezes] > 0 => stalled[load]
        /\ watcher[load].at = "dumps" /\ watcher[load].of = freezes => stalled[load]

FreezeInv ==
    /\ WatchTypeOK /\ PluginInv /\ (\A w \in Loads : WatcherInv(w))
    /\ WatchersApart /\ DumpInv /\ StallInv

-----------------------------------------------------------------------------

Thread == [at : {"none", "waits", "looks", "decided", "dumps", "ended"},
           now : 0 .. MaxClock, of : 0 .. MaxFreezes]

\* What a watcher's moves make of its record.
LEMMA ThreadMoves ==
    ASSUME NEW t \in Thread
    PROVE  /\ \A s \in {"decided", "dumps"} :
                  /\ [t EXCEPT !.at = s] \in Thread
                  /\ [t EXCEPT !.at = s].at = s
                  /\ [t EXCEPT !.at = s].now = t.now /\ [t EXCEPT !.at = s].of = t.of
           /\ Waits(t) \in Thread /\ Waits(t).at = "waits" /\ Waits(t).of = 0
           /\ Waits(t).now = t.now
<1>1. 0 \in 0 .. MaxFreezes
  BY DeskAssumption
<1> QED
  BY <1>1 DEF Thread, Waits

\* The numbers the invariant speaks of.
LEMMA WatchNumbers ==
    ASSUME WatchTypeOK
    PROVE  /\ clock \in Nat /\ freezes \in Nat /\ MaxFreezes \in Nat
           /\ \A w \in Loads : /\ ticked[w] \in Nat /\ watcher[w].now \in Nat
                                /\ watcher[w].of \in 0 .. MaxFreezes /\ watcher[w].of \in Nat
                                /\ stalled[w] \in BOOLEAN
           /\ \A z \in 0 .. MaxFreezes : dumps[z] \in Nat
BY DeskAssumption DEF WatchTypeOK

\* The watchdog is in the state the plugin's first load leaves.
LEMMA FreezeInit == DeskInit => FreezeInv
<1> SUFFICES ASSUME WatchInit PROVE FreezeInv
  BY DEF DeskInit
<1> USE DEF WatchInit
<1>0. 1 \in Loads /\ MaxClock \in Nat /\ MaxFreezes \in Nat /\ MaxLoads \in Nat
  BY DeskAssumption DEF Loads
<1>1. WatchTypeOK
  BY <1>0 DEF WatchTypeOK, Loads
<1>2. PluginInv
  BY <1>0 DEF PluginInv
<1>3. \A w \in Loads : WatcherInv(w) /\ ~MayDump(w)
  BY <1>0 DEF WatcherInv, MayDump
<1>4. WatchersApart /\ DumpInv
  BY <1>3 DEF WatchersApart, DumpInv
<1>5. StallInv
  BY <1>0 DEF StallInv
<1> QED
  BY <1>1, <1>2, <1>3, <1>4, <1>5 DEF FreezeInv

\* Every step of the watchdog and of the GUI thread keeps the types.
LEMMA WatchTypeStep ==
    ASSUME FreezeInv, Gui \/ \E w \in Loads : WatchStep(w)
    PROVE  WatchTypeOK'
<1> USE DEF FreezeInv, PluginInv, WatchTypeOK, guiVars, Waits
<1>0. MaxClock \in Nat /\ MaxFreezes \in Nat /\ MaxLoads \in Nat /\ load \in Loads
  BY DeskAssumption
<1>1. CASE TickStamps
  BY <1>0, <1>1 DEF TickStamps
<1>2. CASE TickClears
  BY <1>0, <1>2 DEF TickClears
<1>3. CASE LoadPlugin
  <2>1. load + 1 \in Loads /\ load + 1 \in 0 .. MaxLoads /\ 0 \in 0 .. MaxFreezes
    BY <1>0, <1>3 DEF LoadPlugin, Loads
  <2> QED
    BY <1>0, <1>3, <2>1 DEF LoadPlugin
<1>4. CASE UnloadPlugin
  BY <1>0, <1>4 DEF UnloadPlugin
<1>5. CASE Freeze
  BY <1>0, <1>5 DEF Freeze
<1>6. CASE Thaw
  BY <1>0, <1>6 DEF Thaw
<1>7. CASE Second
  BY <1>0, <1>7 DEF Second
<1>8. ASSUME NEW w \in Loads, WatchStep(w) PROVE WatchTypeOK'
  <2>0. /\ 0 \in 0 .. MaxClock /\ 0 \in 0 .. MaxFreezes /\ watcher \in [Loads -> Thread]
        /\ watcher[w] \in Thread
    BY <1>0 DEF Thread
  <2>1. ASSUME NEW t \in Thread, watcher' = [watcher EXCEPT ![w] = t]
        PROVE  watcher' \in [Loads -> Thread]
    BY <2>0, <2>1
  <2>2. CASE Wake(w)
    <3>1. /\ [at |-> "ended", now |-> 0, of |-> 0] \in Thread
          /\ [at |-> "looks", now |-> clock, of |-> freezes] \in Thread
      BY <2>0 DEF Thread
    <3>2. watcher' \in [Loads -> Thread]
      <4>1. CASE stopped[w]
        BY <2>1, <2>2, <3>1, <4>1 DEF Wake
      <4>2. CASE ~stopped[w]
        BY <2>1, <2>2, <3>1, <4>2 DEF Wake
      <4> QED
        BY <4>1, <4>2
    <3>3. (ticked \in [Loads -> 0 .. MaxClock] /\ stalled \in [Loads -> BOOLEAN])'
      BY <2>0, <2>2 DEF Wake
    <3> QED
      BY <2>2, <3>2, <3>3 DEF Wake, Thread
  <2>3. CASE Look(w)
    <3>1. watcher' \in [Loads -> Thread]
      <4> HIDE DEF Waits
      <4> QED
        BY <2>0, <2>1, <2>3, ThreadMoves DEF Look
    <3> QED
      BY <2>3, <3>1 DEF Look, Thread
  <2>4. CASE Decide(w)
    <3>1. watcher' \in [Loads -> Thread]
      <4>1. [watcher[w] EXCEPT !.at = "dumps"] \in Thread
        BY <2>0, ThreadMoves
      <4>2. watcher' = [watcher EXCEPT ![w] = [watcher[w] EXCEPT !.at = "dumps"]]
        BY <2>4 DEF Decide
      <4> QED
        BY <2>0, <4>1, <4>2, Zenon
    <3> QED
      BY <2>4, <3>1 DEF Decide, Thread
  <2>5. CASE WriteDump(w)
    <3>1. watcher' \in [Loads -> Thread]
      <4> HIDE DEF Waits
      <4> QED
        BY <2>0, <2>1, <2>5, ThreadMoves DEF WriteDump
    <3>2. (dumps \in [0 .. MaxFreezes -> Nat])'
      <4>1. watcher[w].of \in 0 .. MaxFreezes /\ dumps[watcher[w].of] + 1 \in Nat
        BY <2>0 DEF Thread
      <4> QED
        BY <2>5, <4>1 DEF WriteDump
    <3> QED
      BY <2>5, <3>1, <3>2 DEF WriteDump, Thread
  <2> QED
    BY <1>8, <2>2, <2>3, <2>4, <2>5 DEF WatchStep
<1> QED
  BY <1>1, <1>2, <1>3, <1>4, <1>5, <1>6, <1>7, <1>8 DEF Gui

\* A step of the GUI thread keeps the invariant: a tick clears the flag of a
\* freeze that is over, and a load's watcher begins with a fresh tick.
LEMMA GuiStep ==
    ASSUME FreezeInv, Gui
    PROVE  FreezeInv'
<1> USE DEF WatchTypeOK
<1>0. /\ WatchTypeOK /\ PluginInv /\ WatchersApart /\ DumpInv /\ StallInv
      /\ \A w \in Loads : WatcherInv(w)
      /\ WatchTypeOK' /\ load \in Loads
      /\ MaxClock \in Nat /\ MaxFreezes \in Nat /\ MaxLoads \in Nat
  BY WatchTypeStep, DeskAssumption DEF FreezeInv, PluginInv
<1> SUFFICES /\ PluginInv' /\ (\A w \in Loads : WatcherInv(w)')
             /\ WatchersApart' /\ DumpInv' /\ StallInv'
  BY <1>0 DEF FreezeInv
<1>1. CASE TickStamps
  <2> USE <1>0, <1>1 DEF TickStamps
  <2>1. \A w \in Loads : ticked'[w] = IF w = load THEN clock ELSE ticked[w]
    OBVIOUS
  <2>2. \A w \in Loads : MayDump(w)' => MayDump(w)
    BY <2>1 DEF MayDump, WatcherInv
  <2>3. PluginInv' /\ DumpInv' /\ WatchersApart'
    BY <2>1, <2>2 DEF PluginInv, DumpInv, WatchersApart
  <2>4. \A w \in Loads : WatcherInv(w)'
    BY <2>1, <2>2 DEF WatcherInv
  <2>5. StallInv'
    BY <2>1 DEF StallInv
  <2> QED
    BY <2>3, <2>4, <2>5
<1>2. CASE TickClears
  <2> USE <1>0, <1>2 DEF TickClears
  <2>1. ticked[load] = clock
    BY DEF PluginInv
  <2>2. \A w \in Loads : stalled'[w] = IF w = load THEN FALSE ELSE stalled[w]
    OBVIOUS
  <2>3. \A w \in Loads : MayDump(w)' = MayDump(w)
    BY DEF MayDump
  <2>4. PluginInv' /\ DumpInv' /\ WatchersApart'
    BY <2>3 DEF PluginInv, DumpInv, WatchersApart
  <2>5. ASSUME NEW w \in Loads PROVE WatcherInv(w)'
    <3>1. w = load /\ watcher[w].at = "looks" => ~MayDump(w)
      BY <2>1, WatchNumbers DEF MayDump, WatcherInv
    <3>2. w # load => stalled'[w] = stalled[w]
      BY <2>2
    <3> QED
      BY <2>3, <3>1, <3>2 DEF WatcherInv, MayDump
  <2>6. StallInv'
    BY <2>1 DEF StallInv
  <2> QED
    BY <2>4, <2>5, <2>6
<1>3. CASE LoadPlugin
  <2> USE <1>0, <1>3 DEF LoadPlugin
  <2>1. load + 1 \in Loads
    BY DEF Loads
  <2>2. /\ watcher'[load + 1] = [at |-> "waits", now |-> clock, of |-> 0]
        /\ ticked'[load + 1] = clock
        /\ \A w \in Loads : w # load + 1 => watcher'[w] = watcher[w] /\ ticked'[w] = ticked[w]
    BY <2>1
  <2>3. \A w \in Loads : MayDump(w)' => w # load + 1 /\ MayDump(w)
    BY <2>2 DEF MayDump
  <2>4. PluginInv'
    <3>1. ASSUME NEW w \in Loads PROVE stopped[w] => w < load + 1
      <4>1. stopped[w] => w <= load
        BY <1>0 DEF PluginInv, Loads
      <4> QED
        BY <1>0, <4>1 DEF Loads
    <3>2. ASSUME NEW w \in Loads, ~stopped[w], watcher'[w].at # "none" PROVE w = load + 1
      BY <1>0, <2>2, <3>2 DEF PluginInv
    <3> QED
      BY <2>1, <3>1, <3>2 DEF PluginInv
  <2>5. ASSUME NEW w \in Loads PROVE WatcherInv(w)'
    <3>1. CASE w = load + 1
      BY <2>1, <2>2, <2>3, <3>1, WatchNumbers DEF WatcherInv
    <3>2. CASE w # load + 1
      BY <2>2, <2>3, <3>2 DEF WatcherInv
    <3> QED
      BY <3>1, <3>2
  <2>6. WatchersApart' /\ DumpInv'
    BY <2>2, <2>3 DEF WatchersApart, DumpInv
  <2>7. StallInv'
    BY <2>1, <2>2 DEF StallInv
  <2> QED
    BY <2>4, <2>5, <2>6, <2>7
<1>4. CASE UnloadPlugin
  <2> USE <1>0, <1>4 DEF UnloadPlugin
  <2>1. \A w \in Loads : MayDump(w)' = MayDump(w)
    BY DEF MayDump
  <2>2. PluginInv'
    BY DEF PluginInv
  <2>3. WatchersApart' /\ DumpInv' /\ StallInv' /\ \A w \in Loads : WatcherInv(w)'
    BY <2>1 DEF WatchersApart, DumpInv, StallInv, WatcherInv
  <2> QED
    BY <2>2, <2>3
<1>5. CASE Freeze
  <2> USE <1>0, <1>5 DEF Freeze
  <2>1. \A w \in Loads : MayDump(w)' = MayDump(w)
    BY DEF MayDump
  <2>2. PluginInv' /\ WatchersApart' /\ DumpInv'
    BY <2>1 DEF PluginInv, WatchersApart, DumpInv
  <2>3. \A w \in Loads : WatcherInv(w)'
    BY <2>1 DEF WatcherInv
  <2>4. dumps[freezes + 1] = 0 /\ \A w \in Loads : watcher[w].of < freezes + 1
    <3>1. freezes + 1 \in 0 .. MaxFreezes /\ freezes + 1 > freezes /\ freezes + 1 # 0
      BY WatchNumbers
    <3>2. dumps[freezes + 1] = 0
      BY <3>1 DEF DumpInv
    <3>3. ASSUME NEW w \in Loads PROVE watcher[w].of < freezes + 1
      <4>1. watcher[w].of <= freezes /\ watcher[w].of \in Nat /\ freezes \in Nat
        BY WatchNumbers DEF WatcherInv
      <4> QED
        BY <4>1
    <3> QED
      BY <3>2, <3>3
  <2>5. StallInv'
    BY <2>4 DEF StallInv
  <2> QED
    BY <2>2, <2>3, <2>5
<1>6. CASE Thaw
  <2> USE <1>0, <1>6 DEF Thaw
  <2>1. \A w \in Loads : MayDump(w)' = MayDump(w) /\ Busy(w)' = Busy(w)
    BY DEF MayDump, Busy
  <2> QED
    BY <2>1 DEF PluginInv, WatchersApart, DumpInv, StallInv, WatcherInv
<1>7. CASE Second
  <2> USE <1>0, <1>7 DEF Second
  <2>1. \A w \in Loads : MayDump(w)' = MayDump(w) /\ Busy(w)' = Busy(w)
    BY DEF MayDump, Busy
  <2>2. PluginInv' /\ WatchersApart' /\ DumpInv'
    BY <2>1 DEF PluginInv, WatchersApart, DumpInv
  <2>3. \A w \in Loads : WatcherInv(w)'
    BY <2>1 DEF WatcherInv
  <2>4. StallInv'
    <3>1. CASE gui = "frozen"
      BY <2>1, <3>1 DEF StallInv
    <3>2. CASE gui = "running"
      BY <3>2 DEF StallInv
    <3> QED
      BY <3>1, <3>2
  <2> QED
    BY <2>2, <2>3, <2>4
<1> QED
  BY <1>1, <1>2, <1>3, <1>4, <1>5, <1>6, <1>7 DEF Gui

\* A step of a watcher keeps the invariant: only the watcher of the plugin's
\* own load wakes to look, and it sees a stall only of a freeze not dumped yet.
LEMMA WatcherStep ==
    ASSUME FreezeInv, NEW w \in Loads, WatchStep(w)
    PROVE  FreezeInv'
<1>0. /\ WatchTypeOK /\ PluginInv /\ WatchersApart /\ DumpInv /\ StallInv
      /\ \A x \in Loads : WatcherInv(x)
  BY DEF FreezeInv
<1>1. watcher \in [Loads -> Thread] /\ watcher[w] \in Thread /\ load \in Loads
  BY <1>0 DEF WatchTypeOK, Thread, PluginInv
<1>2. /\ clock \in Nat /\ freezes \in Nat /\ MaxFreezes \in Nat
      /\ \A x \in Loads : /\ ticked[x] \in Nat /\ watcher[x].now \in Nat
                          /\ watcher[x].of \in 0 .. MaxFreezes /\ watcher[x].of \in Nat
                          /\ stalled[x] \in BOOLEAN
      /\ \A z \in 0 .. MaxFreezes : dumps[z] \in Nat
  BY <1>0, WatchNumbers
<1>3. WatchTypeOK'
  BY WatchTypeStep
<1>4. \A x \in Loads : x # w => watcher'[x] = watcher[x]
  BY <1>1 DEF WatchStep, Wake, Look, Decide, WriteDump
<1>5. UNCHANGED <<clock, gui, freezes, load, loaded, stopped>>
  BY DEF WatchStep, Wake, Look, Decide, WriteDump, guiVars
<1> SUFFICES /\ PluginInv' /\ (\A x \in Loads : WatcherInv(x)')
             /\ WatchersApart' /\ DumpInv' /\ StallInv'
  BY <1>3 DEF FreezeInv
<1>6. CASE Wake(w)
  <2>1. /\ watcher[w].at = "waits" /\ UNCHANGED dumps
        /\ \A x \in Loads : x # w => ticked'[x] = ticked[x] /\ stalled'[x] = stalled[x]
    BY <1>0, <1>6 DEF Wake, WatchTypeOK
  <2>2. CASE stopped[w]
    <3>1. watcher'[w].at = "ended" /\ watcher'[w].now = 0 /\ watcher'[w].of = 0 /\ ticked'[w] = 0
      <4>1. /\ watcher' = [watcher EXCEPT ![w] = [at |-> "ended", now |-> 0, of |-> 0]]
            /\ ticked' = [ticked EXCEPT ![w] = 0]
        BY <1>6, <2>2 DEF Wake
      <4> QED
        BY <1>0, <1>1, <4>1 DEF WatchTypeOK
    <3>2. \A x \in Loads : MayDump(x)' => x # w /\ MayDump(x)
      BY <1>4, <2>1, <3>1 DEF MayDump
    <3>3. ~(loaded /\ w = load)
      BY <1>0, <1>1, <2>2, DeskAssumption DEF PluginInv, Loads
    <3>4. PluginInv'
      BY <1>0, <1>1, <1>4, <1>5, <2>1, <2>2, <3>1, <3>3 DEF PluginInv
    <3>5. \A x \in Loads : WatcherInv(x)'
      BY <1>0, <1>2, <1>4, <1>5, <2>1, <3>1, <3>2 DEF WatcherInv, MayDump
    <3>6. WatchersApart' /\ DumpInv'
      BY <1>0, <1>4, <1>5, <2>1, <3>2 DEF WatchersApart, DumpInv
    <3>7. StallInv'
      BY <1>0, <1>1, <1>2, <1>4, <1>5, <2>1, <3>1, <3>3 DEF StallInv, Busy
    <3> QED
      BY <3>4, <3>5, <3>6, <3>7
  <2>3. CASE ~stopped[w]
    <3>1. /\ watcher'[w].at = "looks" /\ watcher'[w].now = clock /\ watcher'[w].of = freezes
          /\ UNCHANGED <<ticked, stalled>>
      BY <1>1, <1>6, <2>3 DEF Wake
    <3>2. w = load /\ loaded
      BY <1>0, <2>1, <2>3 DEF PluginInv
    <3>3. MayDump(w)' <=> clock > ticked[load] + 1
      BY <3>1, <3>2 DEF MayDump
    <3>4. \A x \in Loads : x # w => (MayDump(x)' <=> MayDump(x)) /\ (MayDump(x) => Busy(x))
      BY <1>4, <3>1 DEF MayDump, Busy
    <3>5. PluginInv' /\ DumpInv'
      BY <1>0, <1>4, <1>5, <2>1, <3>1, <3>2 DEF PluginInv, DumpInv
    <3>6. ASSUME NEW x \in Loads PROVE WatcherInv(x)'
      <4>1. CASE x = w
        BY <1>0, <1>2, <1>5, <2>1, <3>1, <3>2, <3>3, <4>1 DEF WatcherInv, StallInv
      <4>2. CASE x # w
        BY <1>0, <1>4, <1>5, <2>1, <3>1, <3>4, <4>2 DEF WatcherInv
      <4> QED
        BY <4>1, <4>2
    <3>7. WatchersApart'
      <4>1. ASSUME NEW x \in Loads, x # w, MayDump(w)', MayDump(x)'
            PROVE  watcher'[x].of # watcher'[w].of
        BY <1>0, <1>2, <1>4, <3>1, <3>2, <3>3, <3>4, <4>1 DEF StallInv
      <4> QED
        BY <1>0, <1>4, <3>4, <4>1 DEF WatchersApart
    <3>8. StallInv'
      BY <1>0, <1>2, <1>4, <1>5, <2>1, <3>1, <3>2 DEF StallInv, Busy
    <3> QED
      BY <3>5, <3>6, <3>7, <3>8
  <2> QED
    BY <2>2, <2>3
<1>7. CASE Look(w)
  <2>1. watcher[w].at = "looks" /\ UNCHANGED <<ticked, stalled, dumps>>
    BY <1>7 DEF Look, guiVars
  <2>2. \/ /\ watcher'[w].at = "decided" /\ watcher'[w].now = watcher[w].now
           /\ watcher'[w].of = watcher[w].of
           /\ ~stalled[w] /\ watcher[w].now > ticked[w] + 1
        \/ watcher'[w].at = "waits" /\ watcher'[w].of = 0 /\ watcher'[w].now = watcher[w].now
    <3>1. /\ watcher'[w] = IF ~stalled[w] /\ watcher[w].now >= ticked[w] + StallTime
                           THEN [watcher[w] EXCEPT !.at = "decided"] ELSE Waits(watcher[w])
      BY <1>1, <1>7 DEF Look
    <3>2. watcher[w].now >= ticked[w] + StallTime => watcher[w].now > ticked[w] + 1
      BY <1>2, StallAssumption
    <3>3. /\ [watcher[w] EXCEPT !.at = "decided"].at = "decided"
          /\ [watcher[w] EXCEPT !.at = "decided"].now = watcher[w].now
          /\ [watcher[w] EXCEPT !.at = "decided"].of = watcher[w].of
          /\ Waits(watcher[w]).at = "waits" /\ Waits(watcher[w]).of = 0
          /\ Waits(watcher[w]).now = watcher[w].now
      BY <1>1, ThreadMoves
    <3>4. CASE ~stalled[w] /\ watcher[w].now >= ticked[w] + StallTime
      BY <3>1, <3>2, <3>3, <3>4
    <3>5. CASE ~(~stalled[w] /\ watcher[w].now >= ticked[w] + StallTime)
      BY <3>1, <3>3, <3>5
    <3> QED
      BY <3>4, <3>5
  <2>3. \A x \in Loads : MayDump(x)' => MayDump(x) /\ watcher'[x].of = watcher[x].of
    BY <1>4, <2>1, <2>2 DEF MayDump
  <2>4. PluginInv' /\ DumpInv'
    BY <1>0, <1>4, <1>5, <2>1, <2>2 DEF PluginInv, DumpInv
  <2>5. ASSUME NEW x \in Loads PROVE WatcherInv(x)'
    <3>1. CASE x = w
      BY <1>0, <1>2, <1>5, <2>1, <2>2, <3>1 DEF WatcherInv, MayDump
    <3>2. CASE x # w
      BY <1>0, <1>4, <1>5, <2>1, <2>3, <3>2 DEF WatcherInv, MayDump
    <3> QED
      BY <3>1, <3>2
  <2>6. WatchersApart'
    BY <1>0, <2>3 DEF WatchersApart
  <2>7. StallInv'
    BY <1>0, <1>1, <1>2, <1>4, <1>5, <2>1, <2>2 DEF StallInv, Busy
  <2> QED
    BY <2>4, <2>5, <2>6, <2>7
<1>8. CASE Decide(w)
  <2>1. /\ watcher[w].at = "decided" /\ watcher'[w].at = "dumps"
        /\ watcher'[w].now = watcher[w].now /\ watcher'[w].of = watcher[w].of
        /\ UNCHANGED <<ticked, dumps>>
    BY <1>1, <1>8, ThreadMoves DEF Decide, guiVars
  <2>2. stalled'[w] = TRUE /\ \A x \in Loads : x # w => stalled'[x] = stalled[x]
    BY <1>0, <1>8 DEF Decide, WatchTypeOK
  <2>3. \A x \in Loads : (MayDump(x)' <=> MayDump(x)) /\ watcher'[x].of = watcher[x].of
    BY <1>4, <2>1 DEF MayDump
  <2>4. PluginInv' /\ DumpInv' /\ WatchersApart'
    BY <1>0, <1>4, <1>5, <2>1, <2>3 DEF PluginInv, DumpInv, WatchersApart
  <2>5. ASSUME NEW x \in Loads PROVE WatcherInv(x)'
    <3>1. CASE x = w
      BY <1>0, <1>5, <2>1, <2>3, <3>1 DEF WatcherInv
    <3>2. CASE x # w
      BY <1>0, <1>4, <1>5, <2>1, <2>2, <2>3, <3>2 DEF WatcherInv
    <3> QED
      BY <3>1, <3>2
  <2>6. StallInv'
    BY <1>0, <1>1, <1>4, <1>5, <2>1, <2>2 DEF StallInv, Busy
  <2> QED
    BY <2>4, <2>5, <2>6
<1>9. CASE WriteDump(w)
  <2>1. /\ watcher[w].at = "dumps" /\ watcher'[w].at = "waits"
        /\ watcher'[w].now = watcher[w].now /\ watcher'[w].of = 0
        /\ UNCHANGED <<ticked, stalled>>
    BY <1>1, <1>9, ThreadMoves DEF WriteDump, guiVars
  <2>2. /\ MayDump(w) /\ Busy(w) /\ watcher[w].of > 0 /\ watcher[w].of <= freezes
        /\ dumps[watcher[w].of] = 0
    BY <1>0, <2>1 DEF MayDump, Busy, WatcherInv
  <2>3. \A z \in 0 .. MaxFreezes : dumps'[z] = IF z = watcher[w].of THEN 1 ELSE dumps[z]
    BY <1>0, <1>2, <1>9, <2>2 DEF WriteDump, WatchTypeOK
  <2>4. \A x \in Loads : MayDump(x)' => x # w /\ MayDump(x)
    BY <1>4, <2>1 DEF MayDump
  <2>5. PluginInv'
    BY <1>0, <1>4, <1>5, <2>1 DEF PluginInv
  <2>6. DumpInv'
    BY <1>0, <1>2, <1>5, <2>2, <2>3 DEF DumpInv
  <2>7. ASSUME NEW x \in Loads PROVE WatcherInv(x)'
    <3>1. CASE x = w
      BY <1>0, <1>2, <1>5, <2>1, <2>4, <3>1 DEF WatcherInv
    <3>2. CASE x # w
      <4>1. MayDump(x) => watcher[x].of # watcher[w].of
        BY <1>0, <2>2, <3>2 DEF WatchersApart
      <4>2. (MayDump(x)' <=> MayDump(x)) /\ (watcher[x].at \in {"decided", "dumps"} => MayDump(x))
        BY <1>4, <2>1, <3>2 DEF MayDump
      <4>3. watcher[x].of = watcher[w].of \/ dumps'[watcher[x].of] = dumps[watcher[x].of]
        BY <1>2, <2>3
      <4> QED
        BY <1>0, <1>4, <1>5, <2>1, <3>2, <4>1, <4>2, <4>3 DEF WatcherInv
    <3> QED
      BY <3>1, <3>2
  <2>8. WatchersApart'
    BY <1>0, <1>4, <2>4 DEF WatchersApart
  <2>9. StallInv'
    <3>1. SUFFICES ASSUME loaded, gui = "frozen" \/ clock > ticked[load] + 1 PROVE
                   /\ freezes > 0
                   /\ \A x \in Loads : x # load /\ Busy(x)' => watcher'[x].of < freezes
                   /\ dumps'[freezes] > 0 => stalled[load]
                   /\ watcher'[load].at = "dumps" /\ watcher'[load].of = freezes => stalled[load]
      BY <1>5, <2>1 DEF StallInv
    <3>2. /\ freezes > 0 /\ (dumps[freezes] > 0 => stalled[load])
          /\ \A x \in Loads : x # load /\ Busy(x) => watcher[x].of < freezes
          /\ watcher[load].at = "dumps" /\ watcher[load].of = freezes => stalled[load]
      BY <1>0, <3>1 DEF StallInv
    <3>3. \A x \in Loads : x # load /\ Busy(x)' => watcher'[x].of < freezes
      BY <1>4, <2>1, <3>2 DEF Busy
    <3>4. freezes \in 0 .. MaxFreezes
      BY <1>0 DEF WatchTypeOK
    <3>5. dumps'[freezes] > 0 => stalled[load]
      BY <1>2, <2>1, <2>2, <2>3, <3>2, <3>4
    <3> QED
      BY <1>1, <1>4, <2>1, <3>2, <3>3, <3>5
  <2> QED
    BY <2>5, <2>6, <2>7, <2>8, <2>9
<1> QED
  BY <1>6, <1>7, <1>8, <1>9 DEF WatchStep

\* The invariant is inductive for the whole session: nothing else in it touches
\* the watchdog.
LEMMA FreezeStep == FreezeInv /\ [DeskNext]_deskVars => FreezeInv'
<1> SUFFICES ASSUME FreezeInv, [DeskNext]_deskVars PROVE FreezeInv'
  OBVIOUS
<1>1. CASE UNCHANGED watchVars
  BY <1>1 DEF watchVars, FreezeInv, WatchTypeOK, PluginInv, WatcherInv, MayDump, Busy,
              WatchersApart, DumpInv, StallInv
<1>2. CASE Gui \/ WatchWorks
  BY <1>2, GuiStep, WatcherStep DEF WatchWorks
<1>3. \/ UNCHANGED watchVars \/ Gui \/ WatchWorks
  BY DEF DeskNext, deskVars, CloneWorks, KeysWork, DockWorks, ManagerClosed, ofClone, ofKeys, ofDock
<1> QED
  BY <1>1, <1>2, <1>3

\* A freeze is dumped at most once, and what is no freeze never: however the two
\* threads meet, and although an unloaded plugin's watcher may still be at work.
THEOREM WatchdogIsQuiet == DeskSpec => []OneDumpPerFreeze
<1>1. FreezeInv => OneDumpPerFreeze
  BY DeskAssumption DEF FreezeInv, DumpInv, OneDumpPerFreeze, WatchTypeOK
<1> QED
  BY <1>1, FreezeInit, FreezeStep, PTL DEF DeskSpec

-----------------------------------------------------------------------------
(* The connection                                                          *)

AtOneOf(f, places) == flow[f].at \in places

\* There is one flow out, on the profile as it is stored.
OneFlow ==
    /\ \A f, g \in Flows : Out(f) /\ Out(g) => f = g
    /\ \A f \in Flows : Out(f) => prof = flow[f].prof
    /\ \A f \in Flows : AtOneOf(f, {"discover"}) => flow[f].prior = (prof.session # 0)
    /\ \A f \in Flows :
           AtOneOf(f, {"login", "cancelled", "revokeold", "mint", "signedin"}) => prof.session # 0

\* Keys that are on their way into the profile, or out of the portal.
Pending == unusable \cup {f \in Flows : AtOneOf(f, {"signedin"}) /\ minted[f]}

\* The profile's key has been taken back, and the profile is about to forget it.
Revoked == \E f \in Flows : AtOneOf(f, {"mint", "signedin", "teardown"})

KeyInv ==
    /\ live \ lostKeys \subseteq Pending \cup {prof.key}
    /\ Revoked => live \ lostKeys \subseteq Pending

\* Signed out, or about to be signed in for the first time.
SignedOutNow ==
    prof.session = 0 \/ \E f \in Flows : AtOneOf(f, {"login", "cancelled"}) /\ ~flow[f].prior

\* The profile's entry holds its key; no tokens but those of its session, and
\* none when there is no session; no other entry with a key in it.
VaultInv ==
    /\ prof.key # 0 => prof.layer # 0 /\ entries[prof.layer] = prof.key
    /\ ~May("noclear") => tokens \subseteq {prof.session} /\ (SignedOutNow => tokens = {})
    /\ ~May("stuckentry") =>
          \A e \in Ids \ {0} :
              entries[e] \in {Absent, SignedOutHeader} \/ (e = prof.layer /\ ~SignedOutNow)

ConnInv == ~overlap => OneFlow /\ KeyInv /\ VaultInv

\* A flow that is signing in has a session to sign in to.
Reserved == \A f \in Flows : AtOneOf(f, {"login"}) => flow[f].prof.session # 0

KeysInv == KeysTypeOK /\ Reserved /\ ConnInv

FlowRecord == [kind : {"none", "signin", "new", "signout", "delete", "edit"}, at : FlowPlaces,
               prof : Profile, prior : BOOLEAN, mgr : 0 .. MaxManagers]

-----------------------------------------------------------------------------
(* Types                                                                   *)

LEMMA Numbers ==
    /\ MaxFlows \in Nat \ {0} /\ MaxManagers \in Nat \ {0}
    /\ 0 \in Ids /\ Flows \subseteq Ids \ {0}
    /\ Absent \notin Ids /\ SignedOutHeader \notin Ids /\ Absent # SignedOutHeader
    /\ NoProfile \in Profile
BY DeskAssumption DEF Ids, Flows, Absent, SignedOutHeader, NoProfile, Profile

\* An entry is removed, if it can be, and no other one changed.
LEMMA EntryRemoved ==
    ASSUME KeysTypeOK, NEW e \in Ids, RemoveEntry(e, entries)
    PROVE  /\ entries' \in [Ids \ {0} -> Ids \cup {Absent, SignedOutHeader}]
           /\ \A x \in Ids \ {0} : entries'[x] = entries[x] \/ (x = e /\ entries'[x] = Absent)
           /\ e # 0 /\ ~May("stuckentry") => entries'[e] = Absent
BY Numbers DEF KeysTypeOK, RemoveEntry

\* A key that was revoked is not live, or is known to be lost.
LEMMA KeyRevoked ==
    ASSUME KeysTypeOK, NEW k \in Ids, RevokeKey(k)
    PROVE  /\ live' \subseteq Ids \ {0} /\ lostKeys' \subseteq Ids \ {0}
           /\ live' \ lostKeys' \subseteq (live \ lostKeys) \ {k}
BY DEF KeysTypeOK, RevokeKey

\* What a flow's steps make of its record.
LEMMA FlowTypes ==
    ASSUME KeysTypeOK, NEW f \in Flows
    PROVE  /\ flow \in [Flows -> FlowRecord] /\ flow[f] \in FlowRecord
           /\ \A p \in FlowPlaces :
                  Step(f, p) => /\ flow' \in [Flows -> FlowRecord]
                                /\ flow'[f] = [flow[f] EXCEPT !.at = p]
                                /\ \A g \in Flows : g # f => flow'[g] = flow[g]
           /\ FlowOver(f) => /\ flow' \in [Flows -> FlowRecord] /\ mbusy' \in [Managers -> BOOLEAN]
                             /\ flow'[f].at = "over"
                             /\ \A g \in Flows : g # f => flow'[g] = flow[g]
<1>1. flow \in [Flows -> FlowRecord] /\ flow[f] \in FlowRecord
  BY DEF KeysTypeOK, FlowRecord
<1>2. ASSUME NEW r \in FlowRecord, flow' = [flow EXCEPT ![f] = r]
      PROVE  /\ flow' \in [Flows -> FlowRecord] /\ flow'[f] = r
             /\ \A g \in Flows : g # f => flow'[g] = flow[g]
  BY <1>1, <1>2
<1>3. ASSUME NEW p \in FlowPlaces, Step(f, p)
      PROVE  /\ flow' \in [Flows -> FlowRecord]
             /\ flow'[f] = [flow[f] EXCEPT !.at = p]
             /\ \A g \in Flows : g # f => flow'[g] = flow[g]
  <2>1. [flow[f] EXCEPT !.at = p] \in FlowRecord
    BY <1>1 DEF FlowRecord
  <2>2. flow' = [flow EXCEPT ![f] = [flow[f] EXCEPT !.at = p]]
    BY <1>3 DEF Step
  <2> QED
    BY <1>2, <2>1, <2>2
<1>4. ASSUME FlowOver(f)
      PROVE  /\ flow' \in [Flows -> FlowRecord] /\ mbusy' \in [Managers -> BOOLEAN]
             /\ flow'[f].at = "over"
             /\ \A g \in Flows : g # f => flow'[g] = flow[g]
  <2> DEFINE r == [kind |-> flow[f].kind, at |-> "over", prof |-> NoProfile,
                   prior |-> FALSE, mgr |-> 0]
  <2>1. r \in FlowRecord /\ r.at = "over"
    BY <1>1, Numbers DEF FlowRecord, FlowPlaces
  <2>2. flow' = [flow EXCEPT ![f] = r]
    BY <1>4 DEF FlowOver
  <2>3. mbusy' \in [Managers -> BOOLEAN]
    BY <1>4 DEF FlowOver, KeysTypeOK
  <2> HIDE DEF r
  <2> QED
    BY <1>2, <2>1, <2>2, <2>3
<1> QED
  BY <1>1, <1>3, <1>4

LEMMA Stepped ==
    ASSUME KeysTypeOK, NEW f \in Flows, NEW p \in FlowPlaces, Step(f, p)
    PROVE  /\ flow'[f].at = p /\ flow'[f].prof = flow[f].prof /\ flow'[f].prior = flow[f].prior
           /\ \A g \in Flows : g # f => flow'[g] = flow[g]
<1>1. flow'[f] = [flow[f] EXCEPT !.at = p] /\ \A g \in Flows : g # f => flow'[g] = flow[g]
  BY FlowTypes
<1>2. flow[f] \in FlowRecord
  BY FlowTypes
<1> QED
  BY <1>1, <1>2 DEF FlowRecord

\* A flow begins.
LEMMA BeginTypes ==
    ASSUME KeysTypeOK, NEW f \in Flows, NEW k \in {"signin", "new", "signout", "delete", "edit"},
           NEW p \in FlowPlaces, BeginFlow(f, k, p)
    PROVE  /\ KeysTypeOK'
           /\ flow'[f] = [kind |-> k, at |-> p, prof |-> prof, prior |-> prof.session # 0, mgr |-> mgr]
           /\ \A g \in Flows : g # f => flow'[g] = flow[g]
<1> DEFINE r == [kind |-> k, at |-> p, prof |-> prof, prior |-> prof.session # 0, mgr |-> mgr]
<1>1. flow \in [Flows -> FlowRecord]
  BY DEF KeysTypeOK, FlowRecord
<1>2. r \in FlowRecord
  BY DEF KeysTypeOK, FlowRecord
<1>3. flow' = [flow EXCEPT ![f] = r]
  BY DEF BeginFlow
<1>4. flow' \in [Flows -> FlowRecord] /\ flow'[f] = r /\ \A g \in Flows : g # f => flow'[g] = flow[g]
  <2> HIDE DEF r
  <2> QED
    BY <1>1, <1>2, <1>3
<1>5. mbusy' \in [Managers -> BOOLEAN] /\ overlap' \in BOOLEAN
  BY DEF BeginFlow, KeysTypeOK
<1> QED
  BY <1>4, <1>5 DEF KeysTypeOK, BeginFlow, FlowRecord

\* Every step keeps the types.
LEMMA KeysTypeStep ==
    ASSUME KeysTypeOK, Reserved, NEW f \in Flows, KeysStep(f)
    PROVE  KeysTypeOK'
<1> USE DEF managerVars
<1>0. /\ flow[f].prof \in Profile /\ flow[f].prof.key \in Ids /\ flow[f].prof.layer \in Ids
      /\ flow[f].prof.session \in Ids
      /\ flow \in [Flows -> FlowRecord] /\ f \in Ids \ {0}
  BY Numbers, FlowTypes DEF FlowRecord, Profile
<1>1. CASE DiscoveryFails(f)
  BY <1>1, FlowTypes DEF DiscoveryFails, KeysTypeOK, FlowRecord
<1>2. CASE Discovered(f)
  <2> DEFINE new == [flow[f].prof EXCEPT !.there = TRUE, !.session = IF @ = 0 THEN f ELSE @]
  <2>1. new \in Profile
    BY <1>0 DEF Profile
  <2>2. flow' = [flow EXCEPT ![f] = [[flow[f] EXCEPT !.prof = new] EXCEPT !.at = "login"]]
    BY <1>2 DEF Discovered
  <2>3. [[flow[f] EXCEPT !.prof = new] EXCEPT !.at = "login"] \in FlowRecord
    <3> HIDE DEF new
    <3> QED
      BY <1>0, <2>1 DEF FlowRecord, FlowPlaces
  <2>4. flow' \in [Flows -> FlowRecord]
    BY <1>0, <2>2, <2>3
  <2> QED
    BY <1>2, <2>1, <2>4 DEF Discovered, KeysTypeOK, FlowRecord
<1>3. CASE LoggedIn(f)
  <2>1. tokens' \subseteq Ids \ {0}
    BY <1>0, <1>3 DEF LoggedIn, KeysTypeOK, Reserved, AtOneOf
  <2>2. flow' \in [Flows -> FlowRecord]
    BY <1>3, FlowTypes DEF LoggedIn, FlowPlaces
  <2> QED
    BY <1>3, <2>1, <2>2 DEF LoggedIn, KeysTypeOK, FlowRecord
<1>4. CASE RevokeOldKey(f)
  BY <1>0, <1>4, FlowTypes, KeyRevoked DEF RevokeOldKey, KeysTypeOK, FlowRecord, FlowPlaces
<1>5. CASE Mint(f)
  <2>1. live' \subseteq Ids \ {0} /\ lostKeys' \subseteq Ids \ {0} /\ minted' \in [Flows -> BOOLEAN]
    BY <1>0, <1>5 DEF Mint, KeysTypeOK
  <2>2. flow' \in [Flows -> FlowRecord]
    BY <1>5, FlowTypes DEF Mint, FlowPlaces
  <2> QED
    BY <1>5, <2>1, <2>2 DEF Mint, KeysTypeOK, FlowRecord
<1>6. CASE SignedIn(f)
  <2> DEFINE p == flow[f].prof
             e == IF p.layer = 0 THEN f ELSE p.layer
  <2>0. e \in Ids \ {0}
    BY <1>0
  <2>1. [p EXCEPT !.key = 0, !.layer = 0] \in Profile /\ [p EXCEPT !.key = f, !.layer = e] \in Profile
    BY <1>0, <2>0, Numbers DEF Profile
  <2>2. prof' \in Profile /\ unusable' \subseteq Flows
    <3> HIDE DEF e
    <3> QED
      BY <1>6, <2>1 DEF SignedIn, ClearLayerKey, KeysTypeOK, e
  <2>3. entries' \in [Ids \ {0} -> Ids \cup {Absent, SignedOutHeader}]
    <3>1. CASE ClearLayerKey(p)
      BY <1>0, <3>1, EntryRemoved DEF ClearLayerKey
    <3>2. CASE entries' = [entries EXCEPT ![e] = f]
      <4> HIDE DEF e
      <4> QED
        BY <1>0, <2>0, <3>2 DEF KeysTypeOK
    <3> QED
      BY <1>6, <3>1, <3>2 DEF SignedIn
  <2> QED
    BY <1>6, <2>2, <2>3, FlowTypes DEF SignedIn, KeysTypeOK, FlowRecord
<1>7. CASE SignInFailed(f)
  BY <1>0, <1>7, FlowTypes, Numbers DEF SignInFailed, KeysTypeOK, FlowRecord, Profile
<1>8. CASE RevokeUnusable(f)
  BY <1>0, <1>8, KeyRevoked DEF RevokeUnusable, KeysTypeOK
<1>9. CASE RevokeThen(f)
  BY <1>0, <1>9, FlowTypes, KeyRevoked DEF RevokeThen, KeysTypeOK, FlowRecord, FlowPlaces
<1>10. CASE SignedOut(f)
  <2> DEFINE p == flow[f].prof
  <2>1. /\ [p EXCEPT !.session = 0, !.key = 0] \in Profile
        /\ [p EXCEPT !.session = 0, !.key = 0, !.layer = 0] \in Profile
    BY <1>0, Numbers DEF Profile
  <2>2. prof' \in Profile
    BY <1>10, <2>1 DEF SignedOut
  <2>3. entries' \in [Ids \ {0} -> Ids \cup {Absent, SignedOutHeader}]
    <3>1. CASE RemoveEntry(p.layer, entries)
      BY <1>0, <3>1, EntryRemoved
    <3>2. CASE entries' = [entries EXCEPT ![p.layer] = SignedOutHeader]
      BY <3>2 DEF KeysTypeOK
    <3> QED
      BY <1>10, <3>1, <3>2 DEF SignedOut
  <2> QED
    BY <1>10, <2>2, <2>3, FlowTypes DEF SignedOut, KeysTypeOK, FlowRecord
<1>11. CASE SignOutFails(f)
  BY <1>11, FlowTypes DEF SignOutFails, KeysTypeOK, FlowRecord
<1>12. CASE Deleted(f)
  BY <1>0, <1>12, FlowTypes, EntryRemoved, Numbers DEF Deleted, KeysTypeOK, FlowRecord
<1>13. CASE Edited(f)
  BY <1>0, <1>13, FlowTypes DEF Edited, KeysTypeOK, FlowRecord
<1> QED
  BY <1>1, <1>2, <1>3, <1>4, <1>5, <1>6, <1>7, <1>8, <1>9, <1>10, <1>11, <1>12, <1>13 DEF KeysStep

\* A flow that is signing in still has its session: none but Discovered moves a
\* flow there.
LEMMA ReservedStep ==
    ASSUME KeysTypeOK, Reserved, NEW f \in Flows, KeysStep(f)
    PROVE  Reserved'
<1>0. f # 0 /\ flow[f].prof \in Profile /\ flow[f] \in FlowRecord
  BY Numbers, FlowTypes DEF FlowRecord
<1>1. CASE Discovered(f)
  <2> DEFINE new == [flow[f].prof EXCEPT !.there = TRUE, !.session = IF @ = 0 THEN f ELSE @]
  <2>1. new.session # 0
    BY <1>0 DEF Profile
  <2>2. flow' = [flow EXCEPT ![f] = [[flow[f] EXCEPT !.prof = new] EXCEPT !.at = "login"]]
    BY <1>1 DEF Discovered
  <2>3. flow \in [Flows -> FlowRecord]
    BY FlowTypes
  <2>4. flow'[f].prof = new /\ \A g \in Flows : g # f => flow'[g] = flow[g]
    <3> HIDE DEF new
    <3> QED
      BY <1>0, <2>2, <2>3 DEF FlowRecord
  <2> QED
    BY <2>1, <2>4 DEF Reserved, AtOneOf
<1>2. CASE RevokeUnusable(f)
  BY <1>2 DEF RevokeUnusable, Reserved, AtOneOf
<1>3. CASE ~Discovered(f) /\ ~RevokeUnusable(f)
  <2>1. \E p \in FlowPlaces \ {"login"} : Step(f, p) \/ FlowOver(f)
    BY <1>3 DEF KeysStep, FlowPlaces, DiscoveryFails, LoggedIn, RevokeOldKey, Mint, SignedIn,
                SignInFailed, RevokeThen, SignedOut, SignOutFails, Deleted, Edited
  <2>2. flow'[f].at # "login" /\ \A g \in Flows : g # f => flow'[g] = flow[g]
    <3>1. CASE FlowOver(f)
      BY <3>1, FlowTypes
    <3>2. ASSUME NEW p \in FlowPlaces \ {"login"}, Step(f, p)
          PROVE  flow'[f].at # "login" /\ \A g \in Flows : g # f => flow'[g] = flow[g]
      BY <3>2, Stepped
    <3> QED
      BY <2>1, <3>1, <3>2
  <2> QED
    BY <2>2 DEF Reserved, AtOneOf
<1> QED
  BY <1>1, <1>2, <1>3

-----------------------------------------------------------------------------
(* The invariant, step by step                                             *)

\* While one flow is out, what the invariant says is said of that one.
LEMMA OnlyOne ==
    ASSUME KeysTypeOK, OneFlow, NEW f \in Flows, Out(f),
           \A g \in Flows : g # f => flow'[g] = flow[g]
    PROVE  /\ prof = flow[f].prof
           /\ Pending = unusable \cup {g \in {f} : AtOneOf(f, {"signedin"}) /\ minted[f]}
           /\ Pending' = unusable' \cup {g \in {f} : AtOneOf(f, {"signedin"})' /\ minted'[f]}
           /\ Revoked <=> AtOneOf(f, {"mint", "signedin", "teardown"})
           /\ Revoked' <=> AtOneOf(f, {"mint", "signedin", "teardown"})'
           /\ SignedOutNow <=> \/ prof.session = 0
                               \/ AtOneOf(f, {"login", "cancelled"}) /\ ~flow[f].prior
           /\ SignedOutNow' <=> \/ prof'.session = 0
                                \/ AtOneOf(f, {"login", "cancelled"})' /\ ~flow'[f].prior
           /\ /\ Out(f)' => prof' = flow'[f].prof
              /\ AtOneOf(f, {"discover"})' => flow'[f].prior = (prof'.session # 0)
              /\ AtOneOf(f, {"login", "cancelled", "revokeold", "mint", "signedin"})' =>
                     prof'.session # 0
              => OneFlow'
<1>1. prof = flow[f].prof /\ \A g \in Flows : g # f => flow[g].at \in {"idle", "over"}
  BY DEF OneFlow, Out
<1>2. \A g \in Flows : g # f => flow'[g].at \in {"idle", "over"}
  BY <1>1
<1>3. /\ Pending = unusable \cup {g \in {f} : AtOneOf(f, {"signedin"}) /\ minted[f]}
      /\ Pending' = unusable' \cup {g \in {f} : AtOneOf(f, {"signedin"})' /\ minted'[f]}
  BY <1>1, <1>2 DEF Pending, AtOneOf
<1>4. /\ Revoked <=> AtOneOf(f, {"mint", "signedin", "teardown"})
      /\ Revoked' <=> AtOneOf(f, {"mint", "signedin", "teardown"})'
  BY <1>1, <1>2 DEF Revoked, AtOneOf
<1>5. /\ SignedOutNow <=> \/ prof.session = 0
                          \/ AtOneOf(f, {"login", "cancelled"}) /\ ~flow[f].prior
      /\ SignedOutNow' <=> \/ prof'.session = 0
                           \/ AtOneOf(f, {"login", "cancelled"})' /\ ~flow'[f].prior
  BY <1>1, <1>2 DEF SignedOutNow, AtOneOf
<1>6. ASSUME Out(f)' => prof' = flow'[f].prof,
             AtOneOf(f, {"discover"})' => flow'[f].prior = (prof'.session # 0),
             AtOneOf(f, {"login", "cancelled", "revokeold", "mint", "signedin"})' =>
                 prof'.session # 0
      PROVE  OneFlow'
  BY <1>2, <1>6 DEF OneFlow, Out, AtOneOf
<1> QED
  BY <1>1, <1>3, <1>4, <1>5, <1>6

\* A flow's step, of one flow out: it stays the only one, and the profile, the
\* portal and the auth database are left as the invariant has them.
LEMMA FlowStep ==
    ASSUME KeysTypeOK, OneFlow, KeyInv, VaultInv, NEW f \in Flows, KeysStep(f),
           Out(f), ~RevokeUnusable(f), UNCHANGED env
    PROVE  OneFlow' /\ KeyInv' /\ VaultInv'
<1> USE DEF managerVars
<1>0. /\ prof = flow[f].prof /\ prof \in Profile /\ prof.key \in Ids /\ prof.layer \in Ids
      /\ prof.session \in Ids /\ flow[f] \in FlowRecord /\ flow \in [Flows -> FlowRecord]
      /\ f \in Ids \ {0}
  BY Numbers, FlowTypes DEF FlowRecord, Profile, OneFlow
<1>1. CASE DiscoveryFails(f)
  <2>1. flow'[f].at = "over" /\ \A g \in Flows : g # f => flow'[g] = flow[g]
    BY <1>1, FlowTypes DEF DiscoveryFails
  <2>2. UNCHANGED <<prof, tokens, entries, live, lostKeys, minted, unusable>>
    BY <1>1 DEF DiscoveryFails
  <2>3. flow[f].at \in {"discover", "rediscover"}
    BY <1>1 DEF DiscoveryFails
  <2>4. OneFlow'
    BY <2>1, OnlyOne DEF Out, AtOneOf
  <2>5. KeyInv'
    BY <2>1, <2>2, <2>3, OnlyOne DEF KeyInv, AtOneOf
  <2>6. VaultInv'
    BY <1>0, <2>1, <2>2, <2>3, OnlyOne DEF VaultInv, AtOneOf, May
  <2> QED
    BY <2>4, <2>5, <2>6
<1>2. CASE Discovered(f)
  <2> DEFINE new == [flow[f].prof EXCEPT !.there = TRUE, !.session = IF @ = 0 THEN f ELSE @]
             r == [[flow[f] EXCEPT !.prof = new] EXCEPT !.at = "login"]
  <2>1. /\ new.session = IF prof.session = 0 THEN f ELSE prof.session
        /\ new.key = prof.key /\ new.layer = prof.layer
    BY <1>0 DEF Profile
  <2>2. r.prof = new /\ r.at = "login" /\ r.prior = flow[f].prior
    <3> HIDE DEF new
    <3> QED
      BY <1>0 DEF FlowRecord
  <2>3. flow' = [flow EXCEPT ![f] = r] /\ prof' = new /\ flow[f].at = "discover"
    BY <1>2 DEF Discovered
  <2>4. flow'[f] = r /\ \A g \in Flows : g # f => flow'[g] = flow[g]
    <3> HIDE DEF r
    <3> QED
      BY <1>0, <2>3
  <2>5. UNCHANGED <<tokens, entries, live, lostKeys, minted, unusable>>
    BY <1>2 DEF Discovered
  <2>6. flow[f].prior = (prof.session # 0)
    BY <2>3 DEF OneFlow, AtOneOf
  <2> HIDE DEF new, r
  <2>7. OneFlow'
    BY <1>0, <2>1, <2>2, <2>3, <2>4, OnlyOne DEF Out, AtOneOf
  <2>8. KeyInv'
    BY <2>1, <2>2, <2>3, <2>4, <2>5, OnlyOne DEF KeyInv, AtOneOf
  <2>9. VaultInv'
    BY <1>0, <2>1, <2>2, <2>3, <2>4, <2>5, <2>6, OnlyOne DEF VaultInv, AtOneOf, May
  <2> QED
    BY <2>7, <2>8, <2>9
<1>3. CASE LoggedIn(f)
  <2>1. PICK p \in {"revokeold", "cancelled"} :
            /\ Step(f, p)
            /\ p = "revokeold" => tokens' = tokens \cup {prof.session}
            /\ p = "cancelled" => UNCHANGED tokens
    BY <1>0, <1>3 DEF LoggedIn
  <2>2. /\ flow'[f].at = p /\ flow'[f].prof = flow[f].prof /\ flow'[f].prior = flow[f].prior
        /\ \A g \in Flows : g # f => flow'[g] = flow[g]
    BY <2>1, Stepped DEF FlowPlaces
  <2>3. UNCHANGED <<prof, entries, live, lostKeys, minted, unusable>> /\ flow[f].at = "login"
    BY <1>3 DEF LoggedIn
  <2>4. prof.session # 0
    BY <2>3 DEF OneFlow, AtOneOf
  <2>5. OneFlow'
    BY <1>0, <2>1, <2>2, <2>3, <2>4, OnlyOne DEF Out, AtOneOf
  <2>6. KeyInv'
    BY <2>1, <2>2, <2>3, OnlyOne DEF KeyInv, AtOneOf
  <2>7. VaultInv'
    BY <1>0, <2>1, <2>2, <2>3, <2>4, OnlyOne DEF VaultInv, AtOneOf, May
  <2> QED
    BY <2>5, <2>6, <2>7
<1>4. CASE RevokeOldKey(f)
  <2>1. flow[f].at = "revokeold" /\ RevokeKey(prof.key) /\ Step(f, "mint")
        /\ UNCHANGED <<prof, tokens, entries, minted, unusable>>
    BY <1>0, <1>4 DEF RevokeOldKey
  <2>2. /\ flow'[f].at = "mint" /\ flow'[f].prof = flow[f].prof
        /\ \A g \in Flows : g # f => flow'[g] = flow[g]
    BY <2>1, Stepped DEF FlowPlaces
  <2>3. live' \ lostKeys' \subseteq (live \ lostKeys) \ {prof.key}
    BY <1>0, <2>1, KeyRevoked
  <2>4. prof.session # 0
    BY <2>1 DEF OneFlow, AtOneOf
  <2>5. OneFlow'
    BY <1>0, <2>1, <2>2, <2>4, OnlyOne DEF Out, AtOneOf
  <2>6. KeyInv'
    BY <2>1, <2>2, <2>3, OnlyOne DEF KeyInv, AtOneOf
  <2>7. VaultInv'
    BY <1>0, <2>1, <2>2, <2>4, OnlyOne DEF VaultInv, AtOneOf, May
  <2> QED
    BY <2>5, <2>6, <2>7
<1>5. CASE Mint(f)
  <2>1. flow[f].at = "mint" /\ Step(f, "signedin") /\ UNCHANGED <<prof, tokens, entries, unusable>>
    BY <1>5 DEF Mint
  <2>2. /\ flow'[f].at = "signedin" /\ flow'[f].prof = flow[f].prof
        /\ \A g \in Flows : g # f => flow'[g] = flow[g]
    BY <2>1, Stepped DEF FlowPlaces
  <2>3. \/ live' \ lostKeys' \subseteq live \ lostKeys
        \/ minted'[f] /\ live' \ lostKeys' \subseteq (live \ lostKeys) \cup {f}
    BY <1>5 DEF Mint, KeysTypeOK
  <2>4. prof.session # 0
    BY <2>1 DEF OneFlow, AtOneOf
  <2>5. OneFlow'
    BY <1>0, <2>1, <2>2, <2>4, OnlyOne DEF Out, AtOneOf
  <2>6. live' \ lostKeys' \subseteq Pending'
    BY <2>1, <2>2, <2>3, OnlyOne DEF KeyInv, AtOneOf
  <2>7. KeyInv'
    BY <2>6 DEF KeyInv
  <2>8. VaultInv'
    BY <1>0, <2>1, <2>2, <2>4, OnlyOne DEF VaultInv, AtOneOf, May
  <2> QED
    BY <2>5, <2>7, <2>8
<1>6. CASE SignedIn(f)
  <2>1. flow[f].at = "signedin" /\ FlowOver(f) /\ UNCHANGED <<tokens, live, lostKeys, minted>>
    BY <1>6 DEF SignedIn
  <2>2. flow'[f].at = "over" /\ \A g \in Flows : g # f => flow'[g] = flow[g]
    BY <2>1, FlowTypes
  <2>3. prof.session # 0 /\ ~SignedOutNow
    BY <2>1, OnlyOne, <2>2 DEF OneFlow, AtOneOf
  <2>4. live \ lostKeys \subseteq unusable \cup {g \in {f} : minted[f]}
    BY <2>1, <2>2, OnlyOne DEF KeyInv, AtOneOf
  <2>5. OneFlow'
    BY <2>2, OnlyOne DEF Out, AtOneOf
  <2>6. CASE ClearLayerKey(prof) /\ (minted[f] => unusable' = unusable \cup {f})
             /\ (~minted[f] => UNCHANGED unusable)
    <3>1. prof'.session = prof.session /\ prof'.key = 0 /\ prof'.layer = 0
      BY <1>0, <2>6 DEF ClearLayerKey, Profile
    <3>2. /\ \A x \in Ids \ {0} :
                 entries'[x] = entries[x] \/ (x = prof.layer /\ entries'[x] = Absent)
          /\ prof.layer # 0 /\ ~May("stuckentry") => entries'[prof.layer] = Absent
      BY <1>0, <2>6, EntryRemoved DEF ClearLayerKey
    <3>3. KeyInv'
      BY <2>1, <2>2, <2>4, <2>6, OnlyOne DEF KeyInv, AtOneOf
    <3>4. VaultInv'
      BY <1>0, <2>1, <2>2, <2>3, <3>1, <3>2, OnlyOne DEF VaultInv, AtOneOf, May
    <3> QED
      BY <2>5, <3>3, <3>4
  <2>7. ASSUME NEW e \in Ids \ {0}, e = IF prof.layer = 0 THEN f ELSE prof.layer,
               entries' = [entries EXCEPT ![e] = f], prof' = [prof EXCEPT !.key = f, !.layer = e],
               UNCHANGED unusable
        PROVE  OneFlow' /\ KeyInv' /\ VaultInv'
    <3>1. prof'.session = prof.session /\ prof'.key = f /\ prof'.layer = e
      BY <1>0, <2>7 DEF Profile
    <3>2. entries'[e] = f /\ \A x \in Ids \ {0} : x # e => entries'[x] = entries[x]
      BY <2>7 DEF KeysTypeOK
    <3>3. KeyInv'
      BY <2>1, <2>2, <2>4, <2>7, <3>1, OnlyOne DEF KeyInv, AtOneOf
    <3>4. VaultInv'
      BY <1>0, <2>1, <2>2, <2>3, <2>7, <3>1, <3>2, OnlyOne DEF VaultInv, AtOneOf, May
    <3> QED
      BY <2>5, <3>3, <3>4
  <2> QED
    BY <1>0, <1>6, <2>6, <2>7 DEF SignedIn
<1>7. CASE SignInFailed(f)
  <2>1. flow[f].at = "cancelled" /\ FlowOver(f)
        /\ UNCHANGED <<tokens, entries, live, lostKeys, minted, unusable>>
    BY <1>7 DEF SignInFailed
  <2>2. flow'[f].at = "over" /\ \A g \in Flows : g # f => flow'[g] = flow[g]
    BY <2>1, FlowTypes
  <2>3. prof'.key = prof.key /\ prof'.layer = prof.layer
        /\ prof'.session = IF flow[f].prior THEN prof.session ELSE 0
    BY <1>0, <1>7 DEF SignInFailed, Profile
  <2>4. prof.session # 0 /\ (SignedOutNow <=> ~flow[f].prior)
    BY <2>1, <2>2, OnlyOne DEF OneFlow, AtOneOf
  <2>5. OneFlow'
    BY <2>2, OnlyOne DEF Out, AtOneOf
  <2>6. KeyInv'
    BY <2>1, <2>2, <2>3, OnlyOne DEF KeyInv, AtOneOf
  <2>7. VaultInv'
    BY <1>0, <2>1, <2>2, <2>3, <2>4, OnlyOne DEF VaultInv, AtOneOf, May, FlowRecord
  <2> QED
    BY <2>5, <2>6, <2>7
<1>8. CASE RevokeThen(f)
  <2>1. flow[f].at = "revoke" /\ RevokeKey(prof.key) /\ Step(f, "teardown")
        /\ UNCHANGED <<prof, tokens, entries, minted, unusable>>
    BY <1>0, <1>8 DEF RevokeThen
  <2>2. /\ flow'[f].at = "teardown" /\ flow'[f].prof = flow[f].prof
        /\ \A g \in Flows : g # f => flow'[g] = flow[g]
    BY <2>1, Stepped DEF FlowPlaces
  <2>3. live' \ lostKeys' \subseteq (live \ lostKeys) \ {prof.key}
    BY <1>0, <2>1, KeyRevoked
  <2>4. OneFlow'
    BY <1>0, <2>1, <2>2, OnlyOne DEF Out, AtOneOf
  <2>5. KeyInv'
    BY <2>1, <2>2, <2>3, OnlyOne DEF KeyInv, AtOneOf
  <2>6. VaultInv'
    BY <1>0, <2>1, <2>2, OnlyOne DEF VaultInv, AtOneOf, May
  <2> QED
    BY <2>4, <2>5, <2>6
<1>9. CASE SignedOut(f)
  <2>1. flow[f].at = "teardown" /\ FlowOver(f) /\ tokens' = tokens \ {prof.session}
        /\ UNCHANGED <<live, lostKeys, minted, unusable>>
    BY <1>0, <1>9 DEF SignedOut
  <2>2. flow'[f].at = "over" /\ \A g \in Flows : g # f => flow'[g] = flow[g]
    BY <2>1, FlowTypes
  <2>3. prof'.session = 0 /\ prof'.key = 0
    BY <1>0, <1>9 DEF SignedOut, Profile
  <2>4. \A x \in Ids \ {0} : entries'[x] = entries[x] \/ entries'[x] \in {Absent, SignedOutHeader}
    <3>1. CASE RemoveEntry(prof.layer, entries)
      BY <1>0, <3>1, EntryRemoved
    <3>2. CASE entries' = [entries EXCEPT ![prof.layer] = SignedOutHeader]
      BY <3>2 DEF KeysTypeOK
    <3> QED
      BY <1>0, <1>9, <3>1, <3>2 DEF SignedOut
  <2>5. prof.layer # 0 /\ ~May("stuckentry") => entries'[prof.layer] \in {Absent, SignedOutHeader}
    <3>1. CASE RemoveEntry(prof.layer, entries)
      BY <1>0, <3>1, EntryRemoved
    <3>2. CASE prof.layer # 0 /\ entries' = [entries EXCEPT ![prof.layer] = SignedOutHeader]
      BY <1>0, <3>2 DEF KeysTypeOK
    <3> QED
      BY <1>0, <1>9, <3>1, <3>2 DEF SignedOut
  <2>6. OneFlow'
    BY <2>2, OnlyOne DEF Out, AtOneOf
  <2>7. KeyInv'
    BY <2>1, <2>2, <2>3, OnlyOne DEF KeyInv, AtOneOf
  <2>8. VaultInv'
    BY <1>0, <2>1, <2>2, <2>3, <2>4, <2>5, OnlyOne DEF VaultInv, AtOneOf, May
  <2> QED
    BY <2>6, <2>7, <2>8
<1>10. CASE SignOutFails(f)
  <2>1. flow[f].at = "teardown" /\ FlowOver(f)
        /\ UNCHANGED <<prof, tokens, entries, live, lostKeys, minted, unusable>>
    BY <1>10 DEF SignOutFails
  <2>2. flow'[f].at = "over" /\ \A g \in Flows : g # f => flow'[g] = flow[g]
    BY <2>1, FlowTypes
  <2>3. OneFlow'
    BY <2>2, OnlyOne DEF Out, AtOneOf
  <2>4. KeyInv'
    BY <2>1, <2>2, OnlyOne DEF KeyInv, AtOneOf
  <2>5. VaultInv'
    BY <1>0, <2>1, <2>2, OnlyOne DEF VaultInv, AtOneOf, May
  <2> QED
    BY <2>3, <2>4, <2>5
<1>11. CASE Deleted(f)
  <2>1. flow[f].at = "teardown" /\ FlowOver(f) /\ RemoveEntry(prof.layer, entries)
        /\ UNCHANGED <<live, lostKeys, minted, unusable>>
    BY <1>0, <1>11 DEF Deleted
  <2>2. flow'[f].at = "over" /\ \A g \in Flows : g # f => flow'[g] = flow[g]
    BY <2>1, FlowTypes
  <2>3. prof'.session = 0 /\ prof'.key = 0 /\ (~May("noclear") => tokens' = tokens \ {prof.session})
    BY <1>0, <1>11 DEF Deleted, NoProfile
  <2>4. /\ \A x \in Ids \ {0} :
               entries'[x] = entries[x] \/ (x = prof.layer /\ entries'[x] = Absent)
        /\ prof.layer # 0 /\ ~May("stuckentry") => entries'[prof.layer] = Absent
    BY <1>0, <2>1, EntryRemoved
  <2>5. OneFlow'
    BY <2>2, OnlyOne DEF Out, AtOneOf
  <2>6. KeyInv'
    BY <2>1, <2>2, <2>3, OnlyOne DEF KeyInv, AtOneOf
  <2>7. VaultInv'
    BY <1>0, <2>1, <2>2, <2>3, <2>4, OnlyOne DEF VaultInv, AtOneOf, May
  <2> QED
    BY <2>5, <2>6, <2>7
<1>12. CASE Edited(f)
  <2>1. flow[f].at = "rediscover" /\ FlowOver(f)
        /\ UNCHANGED <<prof, tokens, entries, live, lostKeys, minted, unusable>>
    BY <1>0, <1>12 DEF Edited
  <2>2. flow'[f].at = "over" /\ \A g \in Flows : g # f => flow'[g] = flow[g]
    BY <2>1, FlowTypes
  <2>3. OneFlow'
    BY <2>2, OnlyOne DEF Out, AtOneOf
  <2>4. KeyInv'
    BY <2>1, <2>2, OnlyOne DEF KeyInv, AtOneOf
  <2>5. VaultInv'
    BY <1>0, <2>1, <2>2, OnlyOne DEF VaultInv, AtOneOf, May
  <2> QED
    BY <2>3, <2>4, <2>5
<1> QED
  BY <1>1, <1>2, <1>3, <1>4, <1>5, <1>6, <1>7, <1>8, <1>9, <1>10, <1>11, <1>12 DEF KeysStep

\* A key is revoked in the background, whatever flow is out.
LEMMA BackgroundStep ==
    ASSUME KeysTypeOK, OneFlow, KeyInv, VaultInv, NEW f \in Flows, RevokeUnusable(f), UNCHANGED env
    PROVE  OneFlow' /\ KeyInv' /\ VaultInv'
<1>1. UNCHANGED <<prof, tokens, entries, flow, minted>> /\ unusable' = unusable \ {f}
  BY DEF RevokeUnusable
<1>2. live' \ lostKeys' \subseteq (live \ lostKeys) \ {f}
  BY Numbers, KeyRevoked DEF RevokeUnusable
<1>3. OneFlow'
  BY <1>1 DEF OneFlow, AtOneOf, Out
<1>4. (Pending \ {f}) \subseteq Pending' /\ (Revoked' <=> Revoked)
  BY <1>1 DEF Pending, Revoked, AtOneOf
<1>5. KeyInv'
  BY <1>1, <1>2, <1>4 DEF KeyInv
<1>6. VaultInv'
  BY <1>1 DEF VaultInv, SignedOutNow, AtOneOf, May
<1> QED
  BY <1>3, <1>5, <1>6

\* A flow begins, and no other one is out: then nothing of the connection has
\* changed but that, and a teardown begins only where there is no key.
LEMMA BeginStep ==
    ASSUME KeysInv, NEW f \in Flows, NEW k \in {"signin", "new", "signout", "delete", "edit"},
           NEW p \in {"discover", "revoke", "teardown", "rediscover"}, BeginFlow(f, k, p),
           p = "teardown" => prof.key = 0, UNCHANGED env
    PROVE  KeysInv'
<1>1. /\ flow'[f].at = p /\ flow'[f].prof = prof /\ flow'[f].prior = (prof.session # 0)
      /\ \A g \in Flows : g # f => flow'[g] = flow[g]
  BY BeginTypes DEF KeysInv, FlowPlaces
<1>2. UNCHANGED <<prof, tokens, entries, live, lostKeys, minted, unusable>>
      /\ overlap' = (overlap \/ \E g \in Flows : Out(g))
  BY DEF BeginFlow
<1>3. KeysTypeOK'
  BY BeginTypes DEF KeysInv, FlowPlaces
<1>4. Reserved'
  BY <1>1 DEF KeysInv, Reserved, AtOneOf
<1>5. ASSUME ~overlap'
      PROVE  OneFlow' /\ KeyInv' /\ VaultInv'
  <2>1. ~overlap /\ \A g \in Flows : flow[g].at \in {"idle", "over"}
    BY <1>2, <1>5 DEF Out
  <2>2. OneFlow /\ KeyInv /\ VaultInv
    BY <2>1 DEF KeysInv, ConnInv
  <2>3. \A g \in Flows : g # f => flow'[g].at \in {"idle", "over"}
    BY <1>1, <2>1
  <2>4. OneFlow'
    BY <1>1, <1>2, <2>3 DEF OneFlow, Out, AtOneOf
  <2>5. Pending = unusable /\ Pending' = unusable
    BY <1>1, <1>2, <2>1, <2>3 DEF Pending, AtOneOf
  <2>6. Revoked' => prof.key = 0
    BY <1>1, <2>3 DEF Revoked, AtOneOf
  <2>7. KeyInv'
    BY <1>2, <2>2, <2>5, <2>6 DEF KeyInv, KeysInv, KeysTypeOK
  <2>8. (SignedOutNow <=> prof.session = 0) /\ (SignedOutNow' <=> prof.session = 0)
    BY <1>1, <1>2, <2>1, <2>3 DEF SignedOutNow, AtOneOf
  <2>9. VaultInv'
    BY <1>2, <2>2, <2>8 DEF VaultInv, May
  <2> QED
    BY <2>4, <2>7, <2>9
<1> QED
  BY <1>3, <1>4, <1>5 DEF KeysInv, ConnInv

\* Nothing of the connection changes but the manager that is open.
LEMMA ManagerStep ==
    ASSUME KeysInv, KeysTypeOK', UNCHANGED <<env, prof, tokens, entries, live, lostKeys, flow,
                                             minted, unusable, overlap>>
    PROVE  KeysInv'
BY DEF KeysInv, ConnInv, Reserved, OneFlow, KeyInv, VaultInv, Pending, Revoked, SignedOutNow,
       AtOneOf, Out, May

LEMMA KeysInvInit == DeskInit => KeysInv
<1> SUFFICES ASSUME DeskInit
             PROVE  KeysInv
  OBVIOUS
<1>1. KeysTypeOK
  <2> DEFINE r == [kind |-> "none", at |-> "idle", prof |-> NoProfile, prior |-> FALSE, mgr |-> 0]
  <2>1. r \in FlowRecord
    BY Numbers DEF FlowRecord, FlowPlaces
  <2>2. flow = [f \in Flows |-> r]
    BY DEF DeskInit, KeysInit
  <2>3. flow \in [Flows -> FlowRecord]
    <3> HIDE DEF r
    <3> QED
      BY <2>1, <2>2
  <2> HIDE DEF r
  <2>4. /\ prof \in Profile /\ entries \in [Ids \ {0} -> Ids \cup {Absent, SignedOutHeader}]
        /\ tokens \subseteq Ids \ {0} /\ live \subseteq Ids \ {0} /\ lostKeys \subseteq Ids \ {0}
        /\ unusable \subseteq Flows
    BY Numbers DEF DeskInit, KeysInit
  <2>5. minted \in [Flows -> BOOLEAN] /\ mbusy \in [Managers -> BOOLEAN] /\ overlap \in BOOLEAN
    BY DEF DeskInit, KeysInit
  <2>6. mgr \in 0 .. MaxManagers /\ opened \in 0 .. MaxManagers
    BY Numbers DEF DeskInit, KeysInit
  <2> QED
    BY <2>3, <2>4, <2>5, <2>6 DEF KeysTypeOK, FlowRecord
<1>2. \A f \in Flows : flow[f].at = "idle"
  BY DEF DeskInit, KeysInit
<1>3. prof.session = 0 /\ prof.key = 0 /\ tokens = {} /\ live = {}
      /\ \A e \in Ids \ {0} : entries[e] = Absent
  BY DEF DeskInit, KeysInit, NoProfile
<1>4. Reserved /\ OneFlow
  BY <1>2 DEF Reserved, OneFlow, AtOneOf, Out
<1>5. KeyInv /\ VaultInv
  BY <1>3 DEF KeyInv, VaultInv
<1> QED
  BY <1>1, <1>4, <1>5 DEF KeysInv, ConnInv

LEMMA KeysInvStep == KeysInv /\ [DeskNext]_deskVars => KeysInv'
<1> SUFFICES ASSUME KeysInv, [DeskNext]_deskVars
             PROVE  KeysInv'
  OBVIOUS
<1>1. CASE UNCHANGED <<env, keyVars>>
  <2>1. KeysTypeOK'
    BY <1>1 DEF KeysInv, KeysTypeOK, keyVars
  <2> QED
    BY <1>1, <2>1, ManagerStep DEF keyVars
<1>2. CASE OpenManager /\ ofKeys
  <2>1. KeysTypeOK'
    BY <1>2, Numbers DEF OpenManager, KeysInv, KeysTypeOK
  <2> QED
    BY <1>2, <2>1, ManagerStep DEF OpenManager, ofKeys
<1>3. CASE ManagerClosed
  <2>1. KeysTypeOK'
    BY <1>3, Numbers DEF ManagerClosed, CloseManager, KeysInv, KeysTypeOK
  <2> QED
    BY <1>3, <2>1, ManagerStep DEF ManagerClosed, CloseManager
<1>4. ASSUME NEW f \in Flows, PressSignIn(f) \/ PressSignOut(f) \/ PressDelete(f) \/ PressEdit(f),
             UNCHANGED env
      PROVE  KeysInv'
  <2>1. CASE PressSignIn(f)
    BY <1>4, <2>1, BeginStep DEF PressSignIn
  <2>2. CASE PressSignOut(f)
    BY <1>4, <2>2, BeginStep DEF PressSignOut
  <2>3. CASE PressDelete(f)
    BY <1>4, <2>3, BeginStep DEF PressDelete
  <2>4. CASE PressEdit(f)
    BY <1>4, <2>4, BeginStep DEF PressEdit
  <2> QED
    BY <1>4, <2>1, <2>2, <2>3, <2>4
<1>5. ASSUME NEW f \in Flows, KeysStep(f), UNCHANGED env
      PROVE  KeysInv'
  <2>1. KeysTypeOK' /\ Reserved'
    BY <1>5, KeysTypeStep, ReservedStep DEF KeysInv
  <2>2. overlap' = overlap
    BY <1>5 DEF KeysStep, managerVars, DiscoveryFails, Discovered, LoggedIn, RevokeOldKey, Mint,
                SignedIn, SignInFailed, RevokeUnusable, RevokeThen, SignedOut, SignOutFails,
                Deleted, Edited
  <2>3. Out(f) \/ RevokeUnusable(f)
    BY <1>5 DEF KeysStep, Out, DiscoveryFails, Discovered, LoggedIn, RevokeOldKey, Mint, SignedIn,
                SignInFailed, RevokeThen, SignedOut, SignOutFails, Deleted, Edited
  <2>4. ConnInv'
    BY <1>5, <2>2, <2>3, FlowStep, BackgroundStep DEF KeysInv, ConnInv
  <2> QED
    BY <2>1, <2>4 DEF KeysInv
<1> QED
  BY <1>1, <1>2, <1>3, <1>4, <1>5
     DEF DeskNext, deskVars, CloneWorks, KeysWork, DockWorks, WatchWorks, PressButton,
         ofClone, ofKeys, ofDock, ofWatch

LEMMA KeysInvHolds == DeskSpec => []KeysInv
BY KeysInvInit, KeysInvStep, PTL DEF DeskSpec

-----------------------------------------------------------------------------
(* The theorems                                                            *)

\* At rest the portal honours no layer key that the profile has forgotten,
\* unless a revoke failed or a mint's answer was lost, for any number of
\* sign-ins, sign-outs, deletions and edits that do not overlap.  (sign_in,
\* _revoke_layer_key_then, _apply_layer_key, _revoke_key_in_background.)
THEOREM KeysAreRemembered == DeskSpec => []KeyIsRemembered
<1>1. KeysInv => KeyIsRemembered
  BY DEF KeysInv, ConnInv, KeyInv, Pending, KeyIsRemembered, AtRest, AtOneOf, Out
<1> QED
  BY <1>1, KeysInvHolds, PTL

\* The auth database follows the profile: its layer entry holds the key that
\* signing out would revoke, and at rest a connection that is signed out or
\* deleted has left nothing behind that could sign in.  (_apply_layer_key,
\* _signed_out, the teardowns of _on_sign_out and _on_delete.)
THEOREM VaultFollows == DeskSpec => []VaultFollowsProfile
<1>1. KeysInv => VaultFollowsProfile
  <2> SUFFICES ASSUME KeysInv, ~overlap
               PROVE  /\ prof.key # 0 => prof.layer # 0 /\ entries[prof.layer] = prof.key
                      /\ AtRest /\ prof.session = 0 =>
                            /\ tokens = {} \/ May("noclear")
                            /\ \A e \in DOMAIN entries :
                                   entries[e] \in {Absent, SignedOutHeader} \/ May("stuckentry")
    BY DEF VaultFollowsProfile
  <2>1. VaultInv /\ DOMAIN entries = Ids \ {0}
    BY DEF KeysInv, ConnInv, KeysTypeOK
  <2>2. prof.session = 0 => SignedOutNow
    BY DEF SignedOutNow
  <2> QED
    BY <2>1, <2>2 DEF VaultInv
<1> QED
  BY <1>1, KeysInvHolds, PTL

-----------------------------------------------------------------------------
(* The search dock                                                         *)

ShownInv == shown \in {0, seq} /\ seq \in Nat

\* The dock lists the results of the newest search or none, for any number of
\* searches, answered in any order and after any change of the connection.
\* (_on_search, done, failed: the _search_seq each answer is compared with.)
THEOREM NewestShown == DeskSpec => []NewestSearchShown
<1>1. DeskInit => ShownInv
  BY DEF DeskInit, DockInit, ShownInv
<1>2. ShownInv /\ [DeskNext]_deskVars => ShownInv'
  <2> SUFFICES ASSUME ShownInv, [DeskNext]_deskVars
               PROVE  ShownInv'
    OBVIOUS
  <2>1. CASE UNCHANGED <<seq, shown>>
    BY <2>1 DEF ShownInv
  <2>2. CASE Search
    BY <2>2 DEF Search, ShownInv
  <2>3. ASSUME NEW s \in Searches, SearchDone(s)
        PROVE  ShownInv'
    BY <2>3 DEF SearchDone, ShownInv
  <2>4. CASE RefreshConnections \/ DoubleClick \/ Resolved \/ UNCHANGED dockVars
    BY <2>1, <2>4 DEF RefreshConnections, DoubleClick, Resolved, dockVars
  <2>5. CASE (\E n \in {Mine, Other} : PickConnection(n)) \/ \E s \in Searches : Fetch(s)
    BY <2>1, <2>5 DEF PickConnection, Fetch
  <2> QED
    BY <2>2, <2>3, <2>4, <2>5
       DEF DeskNext, deskVars, CloneWorks, KeysWork, DockWorks, WatchWorks, ManagerClosed,
           DockUser, DockStep, ofClone, ofKeys, ofDock, ofWatch
<1> QED
  BY <1>1, <1>2, PTL DEF DeskSpec, ShownInv, NewestSearchShown

-----------------------------------------------------------------------------
(* The types of the desk                                                   *)

Asking == [of : {Mine, Other}, answer : {"none", "out", "items", "error", "over"}]

LEMMA DockTypeInit == DeskInit => DockTypeOK
<1> SUFFICES ASSUME DeskInit PROVE DockTypeOK
  OBVIOUS
<1>1. [of |-> Other, answer |-> "none"] \in Asking
  BY DEF Asking
<1>2. asked \in [Searches -> Asking]
  BY <1>1 DEF DeskInit, DockInit
<1>3. 0 \in 0 .. MaxSearch
  BY DeskAssumption
<1> QED
  BY <1>2, <1>3 DEF DeskInit, DockInit, DockTypeOK, Asking

LEMMA DockTypeStep == DockTypeOK /\ [DeskNext]_deskVars => DockTypeOK'
<1> SUFFICES ASSUME DockTypeOK, [DeskNext]_deskVars PROVE DockTypeOK'
  OBVIOUS
<1>0. asked \in [Searches -> Asking] /\ shown \in 0 .. MaxSearch /\ seq \in 0 .. MaxSearch
      /\ MaxSearch \in Nat
  BY DeskAssumption DEF DockTypeOK, Asking
<1>1. CASE UNCHANGED dockVars
  BY <1>1 DEF dockVars, DockTypeOK
<1>2. CASE RefreshConnections
  BY <1>2 DEF RefreshConnections, DockTypeOK, Stored, FirstOf
<1>3. ASSUME NEW n \in {Mine, Other}, PickConnection(n) PROVE DockTypeOK'
  BY <1>3 DEF PickConnection, DockTypeOK
<1>4. CASE Search
  <2>1. seq + 1 \in Searches /\ seq + 1 \in 0 .. MaxSearch /\ 0 \in 0 .. MaxSearch
    BY <1>0, <1>4 DEF Search, Searches
  <2>2. [of |-> picked, answer |-> "out"] \in Asking
    BY DEF DockTypeOK, Asking
  <2>3. asked' \in [Searches -> Asking]
    BY <1>0, <1>4, <2>1, <2>2 DEF Search
  <2> QED
    BY <1>4, <2>1, <2>3 DEF Search, DockTypeOK, Asking
<1>5. ASSUME NEW s \in Searches, NEW a \in {"items", "error", "over"},
             asked' = [asked EXCEPT ![s].answer = a]
      PROVE  asked' \in [Searches -> Asking]
  <2>1. [asked[s] EXCEPT !.answer = a] \in Asking
    BY <1>0 DEF Asking
  <2>2. asked' = [asked EXCEPT ![s] = [asked[s] EXCEPT !.answer = a]]
    BY <1>5
  <2> QED
    BY <1>0, <2>1, <2>2
<1>6. ASSUME NEW s \in Searches, Fetch(s) PROVE DockTypeOK'
  <2>1. asked' \in [Searches -> Asking]
    BY <1>5, <1>6 DEF Fetch
  <2> QED
    BY <1>6, <2>1 DEF Fetch, DockTypeOK, Asking
<1>7. ASSUME NEW s \in Searches, SearchDone(s) PROVE DockTypeOK'
  <2>1. asked' \in [Searches -> Asking]
    BY <1>5, <1>7 DEF SearchDone
  <2>2. s \in 0 .. MaxSearch
    BY <1>0 DEF Searches
  <2> QED
    BY <1>7, <2>1, <2>2 DEF SearchDone, DockTypeOK, Asking
<1>8. CASE DoubleClick
  <2>1. shown \in Searches
    BY <1>0, <1>8 DEF DoubleClick, Searches
  <2>2. asked[shown].of \in {Mine, Other}
    BY <1>0, <2>1 DEF Asking
  <2> QED
    BY <1>8, <2>2 DEF DoubleClick, DockTypeOK
<1>9. CASE Resolved
  BY <1>9 DEF Resolved, DockTypeOK
<1> QED
  BY <1>1, <1>2, <1>3, <1>4, <1>6, <1>7, <1>8, <1>9
     DEF DeskNext, deskVars, CloneWorks, KeysWork, DockWorks, WatchWorks, ManagerClosed,
         DockUser, DockStep, ofClone, ofKeys, ofDock, ofWatch

\* Type correctness, for every session and every environment.
THEOREM DeskTypes == DeskSpec => []DeskTypeOK
<1>1. DeskInit => env \in Envs
  BY DEF DeskInit
<1>2. env \in Envs /\ [DeskNext]_deskVars => (env \in Envs)'
  BY DEF DeskNext, deskVars, CloneWorks, KeysWork, DockWorks, WatchWorks, ManagerClosed,
         ofClone, ofKeys, ofDock, ofWatch
<1>3. DeskSpec => [](env \in Envs)
  BY <1>1, <1>2, PTL DEF DeskSpec
<1>4. DeskSpec => []DeskCloneInv
  BY DeskCloneInit, DeskCloneStep, PTL DEF DeskSpec
<1>5. DeskSpec => []FreezeInv
  BY FreezeInit, FreezeStep, PTL DEF DeskSpec
<1>6. DeskSpec => []DockTypeOK
  BY DockTypeInit, DockTypeStep, PTL DEF DeskSpec
<1>7. env \in Envs /\ DeskCloneInv /\ KeysInv /\ FreezeInv /\ DockTypeOK => DeskTypeOK
  BY DEF DeskTypeOK, DeskCloneInv, KeysInv, FreezeInv
<1> QED
  BY <1>3, <1>4, <1>5, <1>6, <1>7, KeysInvHolds, PTL
=============================================================================
