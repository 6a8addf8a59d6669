----------------------------- MODULE FreezeWatch -----------------------------
(***************************************************************************)
(* The freeze watchdog: a timer of the GUI thread ticks, and a thread that *)
(* looks once a second dumps every stack when the ticks have stopped.  The *)
(* plugin starts one when it is loaded and stops it when it is unloaded.   *)
(*                                                                         *)
(* Code: gratisgis_qgis/freeze_watch.py, plugin.py (initGui and unload).   *)
(*                                                                         *)
(* tick and poll share two fields and no lock, so each access is a step.   *)
(***************************************************************************)
EXTENDS Happenings, Naturals

CONSTANTS
    StallTime,    \* STALL_SECONDS
    MaxClock,     \* bound: seconds
    MaxFreezes,   \* bound: freezes of the GUI thread
    MaxLoads      \* bound: loads of the plugin

\* A stall is longer than two ticks: STALL_SECONDS is ten, TICK_SECONDS one.
ASSUME StallAssumption == StallTime \in Nat /\ StallTime > 1

VARIABLES
    clock,      \* the monotonic clock
    gui,        \* "running", "frozen", or inside a tick: "ticking"
    freezes,    \* freezes so far
    load,       \* the plugin's loads so far, and whether it is loaded
    loaded,
    ticked,     \* [Loads -> _last_tick of its detector]
    stalled,    \* [Loads -> _stalled]
    watcher,    \* [Loads -> its thread, and what it has computed]
    stopped,    \* [Loads -> _stop is set]
    dumps       \* [freeze -> dumps written of it], 0 for no freeze at all

watchVars == <<clock, gui, freezes, load, loaded, ticked, stalled, watcher, stopped, dumps>>

Loads == 1 .. MaxLoads

WatchTypeOK ==
    /\ clock \in 0 .. MaxClock
    /\ gui \in {"running", "ticking", "frozen"}
    /\ freezes \in 0 .. MaxFreezes
    /\ load \in 0 .. MaxLoads /\ loaded \in BOOLEAN
    /\ ticked \in [Loads -> 0 .. MaxClock] /\ stalled \in [Loads -> BOOLEAN]
    /\ watcher \in [Loads -> [at : {"none", "waits", "looks", "decided", "dumps", "ended"},
                              now : 0 .. MaxClock, of : 0 .. MaxFreezes]]
    /\ stopped \in [Loads -> BOOLEAN]
    /\ dumps \in [0 .. MaxFreezes -> Nat]

WatchInit ==
    /\ clock = 0 /\ gui = "running" /\ freezes = 0
    /\ load = 1 /\ loaded = TRUE
    /\ ticked = [w \in Loads |-> 0] /\ stalled = [w \in Loads |-> FALSE]
    /\ watcher = [w \in Loads |-> [at |-> IF w = 1 THEN "waits" ELSE "none", now |-> 0, of |-> 0]]
    /\ stopped = [w \in Loads |-> FALSE]
    /\ dumps = [z \in 0 .. MaxFreezes |-> 0]

-----------------------------------------------------------------------------
(* The GUI thread                                                          *)

\* initGui's last act: the detector is ticked, the timer and the thread start.
LoadPlugin ==
    /\ gui = "running" /\ ~loaded /\ load < MaxLoads
    /\ load' = load + 1 /\ loaded' = TRUE
    /\ ticked' = [ticked EXCEPT ![load + 1] = clock]
    /\ watcher' = [watcher EXCEPT ![load + 1] = [at |-> "waits", now |-> clock, of |-> 0]]
    /\ UNCHANGED <<clock, gui, freezes, stalled, stopped, dumps>>

\* unload: stop() sets the event and the timer goes; the thread is not joined.
UnloadPlugin ==
    /\ May("reload") /\ gui = "running" /\ loaded
    /\ stopped' = [stopped EXCEPT ![load] = TRUE] /\ loaded' = FALSE
    /\ UNCHANGED <<clock, gui, freezes, load, ticked, stalled, watcher, dumps>>

\* The timer: a thread that runs its events lets no second pass without a tick.
Second ==
    /\ May("watchdog") /\ clock < MaxClock
    /\ gui = "running" => (loaded => ticked[load] = clock)
    /\ gui # "ticking"
    /\ clock' = clock + 1
    /\ UNCHANGED <<gui, freezes, load, loaded, ticked, stalled, watcher, stopped, dumps>>

\* _on_tick, StallDetector.tick: the stamp,
TickStamps ==
    /\ gui = "running" /\ loaded
    /\ ticked[load] < clock \/ stalled[load]
    /\ gui' = "ticking" /\ ticked' = [ticked EXCEPT ![load] = clock]
    /\ UNCHANGED <<clock, freezes, load, loaded, stalled, watcher, stopped, dumps>>

\* then the flag.
TickClears ==
    /\ gui = "ticking"
    /\ gui' = "running" /\ stalled' = [stalled EXCEPT ![load] = FALSE]
    /\ UNCHANGED <<clock, freezes, load, loaded, ticked, watcher, stopped, dumps>>

Freeze ==
    /\ May("watchdog") /\ gui = "running" /\ loaded /\ freezes < MaxFreezes
    /\ gui' = "frozen" /\ freezes' = freezes + 1
    /\ UNCHANGED <<clock, load, loaded, ticked, stalled, watcher, stopped, dumps>>

Thaw ==
    /\ gui = "frozen" /\ gui' = "running"
    /\ UNCHANGED <<clock, freezes, load, loaded, ticked, stalled, watcher, stopped, dumps>>

-----------------------------------------------------------------------------
(* The watching thread                                                     *)

guiVars == <<clock, gui, freezes, load, loaded, ticked, stopped>>

Waits(thread) == [thread EXCEPT !.at = "waits", !.of = 0]

\* _watch: the wait ends, with the event, and with it the thread and what only
\* it still held, or with the second.
Wake(w) ==
    /\ watcher[w].at = "waits" /\ (stopped[w] \/ clock > watcher[w].now)
    /\ May("watchdog")
    /\ IF stopped[w]
       THEN /\ watcher' = [watcher EXCEPT ![w] = [at |-> "ended", now |-> 0, of |-> 0]]
            /\ ticked' = [ticked EXCEPT ![w] = 0] /\ stalled' = [stalled EXCEPT ![w] = FALSE]
       ELSE /\ watcher' = [watcher EXCEPT ![w] = [at |-> "looks", now |-> clock, of |-> freezes]]
            /\ UNCHANGED <<ticked, stalled>>
    /\ UNCHANGED <<clock, gui, freezes, load, loaded, stopped, dumps>>

\* (A stall reported at every look.)
LookAgain(w) ==
    /\ watcher[w].at = "looks"
    /\ watcher' = [watcher EXCEPT ![w] = IF watcher[w].now >= ticked[w] + StallTime
                                         THEN [@ EXCEPT !.at = "decided"] ELSE Waits(@)]
    /\ UNCHANGED <<guiVars, stalled, dumps>>

\* poll, up to the comparison,
Look(w) ==
    /\ watcher[w].at = "looks"
    /\ watcher' = [watcher EXCEPT ![w] =
                       IF ~stalled[w] /\ watcher[w].now >= ticked[w] + StallTime
                       THEN [@ EXCEPT !.at = "decided"] ELSE Waits(@)]
    /\ UNCHANGED <<guiVars, stalled, dumps>>

\* and its flag, which a tick may have been clearing meanwhile.
Decide(w) ==
    /\ watcher[w].at = "decided"
    /\ stalled' = [stalled EXCEPT ![w] = TRUE]
    /\ watcher' = [watcher EXCEPT ![w].at = "dumps"]
    /\ UNCHANGED <<guiVars, dumps>>

\* write_dump
WriteDump(w) ==
    /\ watcher[w].at = "dumps"
    /\ dumps' = [dumps EXCEPT ![watcher[w].of] = @ + 1]
    /\ watcher' = [watcher EXCEPT ![w] = Waits(@)]
    /\ UNCHANGED <<guiVars, stalled>>

WatchStep(w) == Wake(w) \/ Look(w) \/ Decide(w) \/ WriteDump(w)

Gui == TickStamps \/ TickClears \/ LoadPlugin \/ UnloadPlugin \/ Freeze \/ Thaw \/ Second
=============================================================================
