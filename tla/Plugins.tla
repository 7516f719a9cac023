------------------------------ MODULE Plugins ------------------------------
(***************************************************************************)
(* One instance of each plugin that keeps state for processes, checked     *)
(* next to each other: plugins share nothing but the processes, so each    *)
(* behaviour drives one of them, which `part` names, and the others stay   *)
(* as they were at the start.                                              *)
(***************************************************************************)
EXTENDS Naturals, FiniteSets, Sequences

CONSTANTS Procs, Tids, First, Sems, MaxPasses, Addrs, Hids, Size, Laps,
          Win, Rows, Cols, EqCap, Nodes, Root, Names, MaxSize, Sharing

ASSUME PluginsAssumption ==
    /\ First \in Procs /\ 0 \in Tids
    /\ MaxPasses \in Nat
    /\ Size \in Nat /\ Size >= 2 /\ Laps \in Nat \ {0}

(* The process table has FC_CORE_MAX_PROCS entries, the handle table of a  *)
(* process FC_CORE_MAX_HANDLES_PER_PROC.                                   *)
ASSUME TablesAreFinite == IsFiniteSet(Procs) /\ IsFiniteSet(Hids)

VARIABLES part, pst, tst, main,
    max, passes, refs, semQ, dangling, lent, broken,
    hasMap, futs, futQ, lost, futFatal,
    pos, sc_buf, sc_buf_pos, typed, kbQ, readyQ, kbWaitsOn, stale, kbMisused, dest,
    desk, hs, gfxWaitsOn, gfxMisused, gfxFatal,
    tree, nodeRefs, bwq, cwds, handles, ctx, down

S == INSTANCE Semaphores WITH waitQ <- semQ
F == INSTANCE FutexMaps  WITH waitQ <- futQ, fatal <- futFatal
K == INSTANCE Keyboard   WITH waitQ <- kbQ, waitsOn <- kbWaitsOn, misused <- kbMisused
W == INSTANCE Windows    WITH waitsOn <- gfxWaitsOn, misused <- gfxMisused, fatal <- gfxFatal
FS == INSTANCE FilePlugin WITH refs <- nodeRefs

(* The grid has a tile, an event queue has room, and an empty tile is told *)
(* from any window.                                                        *)
ASSUME WindowsAssumption ==
    Rows \in Nat \ {0} /\ Cols \in Nat \ {0} /\ EqCap \in Nat \ {0} /\ W!Nobody \notin Win

semVars == <<max, passes, refs, semQ, dangling, lent, broken>>
futVars == <<hasMap, futs, futQ, lost, futFatal>>
kbVars  == <<pos, sc_buf, sc_buf_pos, typed, kbQ, readyQ, kbWaitsOn, stale, kbMisused, dest>>
gfxVars == <<desk, hs, gfxWaitsOn, gfxMisused, gfxFatal>>
fsVars  == <<tree, nodeRefs, bwq, cwds, handles, ctx, down>>
vars == <<part, pst, tst, main, semVars, futVars, kbVars, gfxVars, fsVars>>

Init ==
    /\ part \in {"semaphores", "futexes", "keyboard", "windows", "files"}
    /\ S!Init /\ F!Init /\ K!Init /\ W!Init /\ FS!FileInit

Next ==
    /\ UNCHANGED part
    /\ \/ part = "semaphores" /\ S!Next /\ UNCHANGED <<futVars, kbVars, gfxVars, fsVars>>
       \/ part = "futexes"    /\ F!Next /\ UNCHANGED <<semVars, kbVars, gfxVars, fsVars>>
       \/ part = "keyboard"   /\ K!Next /\ UNCHANGED <<semVars, futVars, gfxVars, fsVars>>
       \/ part = "windows"    /\ W!Next /\ UNCHANGED <<semVars, futVars, kbVars, fsVars>>
       \/ part = "files"      /\ FS!FileNext /\ UNCHANGED <<semVars, futVars, kbVars, gfxVars>>

Spec == Init /\ [][Next]_vars

-----------------------------------------------------------------------------
(* The properties are those of the components' modules.                   *)

(* The passes a semaphore was made with are lent or left, whoever was      *)
(* woken, closed it or died.                                               *)
PassesConserved == S!PassesConserved

(* Whoever waits for a semaphore waits for a reason, and a semaphore lives *)
(* as long as it is referenced.                                            *)
WaitersAreRight == S!WaitersAreRight /\ S!RefsKeepAlive /\ S!OthersUndisturbed

(* A process has its futex map while it has its pid, and whoever waits     *)
(* waits in the queue of a registered futex of its own process.            *)
FutexWaitersAreRight ==
    part = "futexes" => F!MapsFollowProcesses /\ F!FutexWaitersAreRight

(* A keyboard handle sees the newest keys in order, and waits only when    *)
(* it has seen all.                                                        *)
KeysAreReadInOrder ==
    /\ K!ReadableIsNewest /\ K!ReadsAreConsecutive
    /\ part = "keyboard" => K!WaitersHaveCaughtUp

(* Windows know their place and live as long as they are needed; and       *)
(* whoever waits for a window's events has it open, and will get one.      *)
WindowsAreRight ==
    /\ W!WindowsKnowTheirPlace /\ W!WindowsLiveAsNeeded
    /\ part = "windows" => W!EventWaitersAreRight

(* A file or directory that is used is referenced and stays.               *)
UsedNodesStay == part = "files" => FS!ReferencesAreHolders /\ FS!HeldNodesExist

(* Whoever waits for a file to grow has read it all.                       *)
WaitersAreAtTheEnd == part = "files" => FS!WaitersAreAtTheEnd
=============================================================================
