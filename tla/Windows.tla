------------------------------ MODULE Windows ------------------------------
(***************************************************************************)
(* The graphics plugin (k_startup/src/plugin_gfx.c): terminal and graphics *)
(* windows, which live as long as a handle or the root window refers to    *)
(* them, their event queues and the threads that wait for events; and the  *)
(* root window (s_gfx/src/window_qgrid.c), which lays them out in a grid,  *)
(* or shows one of them alone, and tells them of focus, hiding and size.   *)
(* Drawing is left out, and so is what an event says beyond its effect.    *)
(***************************************************************************)
EXTENDS Processes, Naturals

CONSTANTS
    Win,        \* windows that can be made, one after the other
    Hids,       \* handle ids of a process
    Rows, Cols, \* the grid, 2 by 2 in the code
    EqCap       \* room in an event queue, 255 events in the code

VARIABLES
    desk,       \* the root window with the windows there are, see Init
    hs,         \* the window a handle is of
    waitsOn,    \* the window whose events a thread waits for
    misused,    \* history: a thread closed the handle another waited with
    fatal       \* the kernel followed a null pointer

gfxVars == <<desk, hs, waitsOn, misused, fatal>>
vars == <<processVars, gfxVars>>

Tile == (0 .. Rows - 1) \X (0 .. Cols - 1)
Handle == Procs \X Hids
Nobody == "nobody"
Gone == [active |-> FALSE, refs |-> 0, kind |-> "none",
         focused |-> FALSE, hidden |-> TRUE, size |-> "own", n |-> 0]
New(kind) == [Gone EXCEPT !.active = TRUE, !.refs = 1, !.kind = kind]

(* n counts the events in the queue; size is that of a tile, of the whole  *)
(* root window, or whatever the window had when a resize failed.           *)
Init ==
    /\ ProcessInit
    /\ desk = [grid |-> [t \in Tile |-> Nobody], focus |-> <<0, 0>>,
               single |-> FALSE, win |-> [w \in Win |-> Gone]]
    /\ hs = [h \in Handle |-> Nobody]
    /\ waitsOn = [th \in Thread |-> Nobody]
    /\ misused = FALSE /\ fatal = FALSE

-----------------------------------------------------------------------------
(* Window calls, as functions from a desk to the desk they leave.          *)

InGrid(d, w) == \E t \in Tile : d.grid[t] = w

(* fq_enqueue writes over the oldest event when there is no room. *)
Queued(r) == [r EXCEPT !.n = IF @ < EqCap THEN @ + 1 ELSE @]

(* win_fwd_event to a window, or to an empty tile; r is the window's       *)
(* record after the fields are set that the event is about.                *)
Forward(d, w, r) ==
    IF w = Nobody \/ ~InGrid(d, w) THEN d ELSE [d EXCEPT !.win[w] = Queued(r)]

Focused(d, w, b)  == Forward(d, w, [d.win[w] EXCEPT !.focused = b])
Hidden(d, w, b)   == Forward(d, w, [d.win[w] EXCEPT !.hidden = b])
KeyInput(d, w)    == Forward(d, w, d.win[w])

(* Variant for a mutant: the event of the deregistration is lost. *)
Deregister_Silent(d, w) ==
    LET r == [d.win[w] EXCEPT !.active = FALSE] IN
    [d EXCEPT !.grid = [t \in Tile |-> IF @[t] = w THEN Nobody ELSE @[t]],
              !.win[w] = IF @.refs = 0 THEN Gone ELSE r]

(* win_deregister, and the window's answer: without handles it deletes     *)
(* itself, otherwise it queues the event.                                  *)
Deregister(d, w) ==
    LET r == [d.win[w] EXCEPT !.active = FALSE] IN
    [d EXCEPT !.grid = [t \in Tile |-> IF @[t] = w THEN Nobody ELSE @[t]],
              !.win[w] = IF @.refs = 0 THEN Gone ELSE Queued(r)]

(* win_resize of the window in a tile, with its outcome: the buffer may    *)
(* not grow, which leaves the window as it is; or a terminal's cells may   *)
(* not, which makes it inactive, and the root window lets go of it.        *)
Resize(d, w, size, how) ==
    IF w = Nobody THEN d
    ELSE IF how = "no buffer" THEN [d EXCEPT !.win[w].size = "own"]
    ELSE IF how = "no cells" THEN Deregister(d, w)
    ELSE Forward(d, w, [d.win[w] EXCEPT !.size = size])

Outcomes(d, w) ==
    IF w # Nobody /\ d.win[w].kind = "term" THEN {"done", "no buffer", "no cells"} ELSE {"done"}

(* Variant for a mutant: the window that leaves the screen is not told. *)
SetFocus_NotHidden(d, t, how1, how2) ==
    LET a == d.grid[d.focus]
        b == d.grid[t]
        d1 == IF d.single THEN Resize(d, a, "tile", how1) ELSE d
        d2 == IF d.single THEN Hidden(Resize(d1, b, "whole", how2), b, FALSE) ELSE d1
    IN  IF t = d.focus THEN d
        ELSE [Focused(Focused(d2, a, FALSE), b, TRUE) EXCEPT !.focus = t]

(* win_qg_set_focus_position *)
SetFocus(d, t, how1, how2) ==
    LET a == d.grid[d.focus]
        b == d.grid[t]
        d1 == IF d.single THEN Hidden(Resize(d, a, "tile", how1), a, TRUE) ELSE d
        d2 == IF d.single THEN Hidden(Resize(d1, b, "whole", how2), b, FALSE) ELSE d1
    IN  IF t = d.focus THEN d
        ELSE [Focused(Focused(d2, a, FALSE), b, TRUE) EXCEPT !.focus = t]

(* win_qg_move_focused_pane *)
MovePane(d, t) ==
    [d EXCEPT !.grid = [@ EXCEPT ![t] = d.grid[d.focus], ![d.focus] = d.grid[t]],
              !.focus = t]

FocusSize(d) == IF d.single THEN "whole" ELSE "tile"

(* Alt and F: one window alone, or all of them again. *)
Toggle(d, how) ==
    LET e == [d EXCEPT !.single = ~@]
        r == Resize(e, e.grid[e.focus], FocusSize(e), how)
    IN  [r EXCEPT !.win = [w \in Win |->
            IF InGrid(r, w) /\ w # r.grid[r.focus]
            THEN Queued([r.win[w] EXCEPT !.hidden = r.single]) ELSE r.win[w]]]

FreeTiles(d) == {t \in Tile : d.grid[t] = Nobody}
FirstFree(d) ==
    CHOOSE t \in FreeTiles(d) : \A u \in FreeTiles(d) : t[1] * Cols + t[2] <= u[1] * Cols + u[2]

(* win_qg_register_child, when there is a free tile: it takes the focus,   *)
(* then the new window is resized, unhidden and focused.                   *)
Register(d, w, kind, how1, how2) ==
    LET t == FirstFree(d)
        e == [SetFocus(d, t, how1, "done") EXCEPT !.grid[t] = w, !.win[w] = New(kind)]
        r == Resize(e, w, FocusSize(e), how2)
    IN  Focused(Hidden(r, w, FALSE), w, TRUE)

-----------------------------------------------------------------------------
(* Who is waiting, and who wakes: the first event in an empty queue wakes  *)
(* every thread in the window's wait queue.                                *)

Waiters(w) == {th \in Thread : tst[th] = "waiting" /\ waitsOn[th] = w}

WakesFor(d) ==
    LET woken == {th \in Thread : tst[th] = "waiting" /\ d.win[waitsOn[th]].n > 0} IN
    /\ Wakes(woken)
    /\ waitsOn' = [th \in Thread |-> IF th \in woken THEN Nobody ELSE waitsOn[th]]

Enter(th) == ~fatal /\ Running(th)

(* An event of the user's: a key, or a command to the root window.         *)
Event(d) ==
    /\ ~fatal /\ desk' = d /\ WakesFor(d)
    /\ UNCHANGED <<pst, main, hs, misused, fatal>>

Key == Event(KeyInput(desk, desk.grid[desk.focus]))

CloseFocused ==
    /\ desk.grid[desk.focus] # Nobody
    /\ Event(Deregister(desk, desk.grid[desk.focus]))

Near(t) == {u \in Tile : \/ u[1] = t[1] /\ u[2] \in {t[2] - 1, t[2] + 1}
                         \/ u[2] = t[2] /\ u[1] \in {t[1] - 1, t[1] + 1}}

MoveFocus ==
    \E t \in Near(desk.focus) :
    \E how1 \in Outcomes(desk, desk.grid[desk.focus]), how2 \in Outcomes(desk, desk.grid[t]) :
        Event(SetFocus(desk, t, how1, how2))

MoveFocusedPane == \E t \in Near(desk.focus) : Event(MovePane(desk, t))

ToggleSingle ==
    \E how \in Outcomes(desk, desk.grid[desk.focus]) : Event(Toggle(desk, how))

(* PLG_GFX_PCID_NEW_TERM, PLG_GFX_PCID_NEW_GFX_WIN.  When something fails  *)
(* after the window has been registered, it is deregistered and deleted;   *)
(* the focus has moved.                                                    *)
NewWindow(th, h, w, kind) ==
    /\ Enter(th) /\ h[1] = th[1] /\ hs[h] = Nobody
    /\ desk.win[w] = Gone /\ Waiters(w) = {} /\ FreeTiles(desk) # {}
    /\ \E how1 \in Outcomes(desk, desk.grid[desk.focus]),
          how2 \in IF kind = "term" THEN {"done", "no buffer", "no cells"} ELSE {"done"},
          copied \in BOOLEAN :
        LET d == Register(desk, w, kind, how1, how2)
            made == copied /\ how2 # "no cells"
            e == IF made THEN d ELSE [Deregister(d, w) EXCEPT !.win[w] = Gone]
        IN  /\ desk' = e /\ WakesFor(e)
            /\ hs' = [hs EXCEPT ![h] = IF made THEN w ELSE Nobody]
    /\ UNCHANGED <<pst, main, misused, fatal>>

(* The same call when every tile is taken: a terminal is not made; for a   *)
(* graphics window the clean-up reads the banks of a manager it has not    *)
(* fetched yet.                                                            *)
NoTileLeft(th) ==
    /\ Enter(th) /\ FreeTiles(desk) = {}
    /\ fatal' = TRUE /\ UNCHANGED <<processVars, desk, hs, waitsOn, misused>>

-----------------------------------------------------------------------------
Uses(th, h) == Enter(th) /\ h[1] = th[1] /\ hs[h] # Nobody

(* window_gfx_base_wait_events *)
WaitEvents(th, h) ==
    LET w == hs[h] IN
    /\ Uses(th, h) /\ desk.win[w].n = 0 /\ desk.win[w].active
    /\ Sleeps(th) /\ waitsOn' = [waitsOn EXCEPT ![th] = w]
    /\ UNCHANGED <<pst, main, desk, hs, misused, fatal>>

(* window_gfx_base_read_events *)
ReadEvents(th, h) ==
    /\ Uses(th, h)
    /\ \E k \in 1 .. desk.win[hs[h]].n : desk' = [desk EXCEPT !.win[hs[h]].n = @ - k]
    /\ UNCHANGED <<processVars, hs, waitsOn, misused, fatal>>

(* delete_handle_terminal_state, delete_handle_gfx_state: k handles go. *)
Without(r, k) == IF r.refs = k /\ ~r.active THEN Gone ELSE [r EXCEPT !.refs = @ - k]
Released(d, w, k) == [d EXCEPT !.win[w] = Without(@, k)]

Close(th, h) ==
    /\ Uses(th, h)
    /\ desk' = Released(desk, hs[h], 1) /\ hs' = [hs EXCEPT ![h] = Nobody]
    /\ misused' = (misused \/ \E u \in Waiters(hs[h]) : u[1] = th[1])
    /\ UNCHANGED <<processVars, waitsOn, fatal>>

Spawn(th, u) == ~fatal /\ Spawns(th, u) /\ UNCHANGED gfxVars

Count(p, w) == Cardinality({h \in Handle : h[1] = p /\ hs[h] = w})

(* copy_handle_terminal_state, copy_handle_gfx_state *)
Fork(th, c) ==
    /\ ~fatal /\ Forks(th, c)
    /\ desk' = [desk EXCEPT !.win = [w \in Win |-> [desk.win[w] EXCEPT !.refs = @ + Count(th[1], w)]]]
    /\ hs' = [h \in Handle |-> IF h[1] = c THEN hs[<<th[1], h[2]>>] ELSE hs[h]]
    /\ UNCHANGED <<waitsOn, misused, fatal>>

Detach(p) ==
    waitsOn' = [th \in Thread |-> IF th[1] = p THEN Nobody ELSE waitsOn[th]]

Exit(th) ==
    ~fatal /\ Exits(th) /\ Detach(th[1]) /\ UNCHANGED <<desk, hs, misused, fatal>>

(* All handles of p are deleted. *)
ReleaseAll(p) ==
    /\ desk' = [desk EXCEPT !.win = [w \in Win |-> Released(desk, w, Count(p, w)).win[w]]]
    /\ hs' = [h \in Handle |-> IF h[1] = p THEN Nobody ELSE hs[h]]
    /\ UNCHANGED <<misused, fatal>>

(* An exec deletes the threads before the handles; none is a default one. *)
Reap(p)  == ~fatal /\ Reaps(p) /\ ReleaseAll(p) /\ UNCHANGED waitsOn
Exec(th) == ~fatal /\ Execs(th) /\ ReleaseAll(th[1]) /\ Detach(th[1])

Next ==
    \/ Key \/ CloseFocused \/ MoveFocus \/ MoveFocusedPane \/ ToggleSingle
    \/ \E th \in Thread :
        \/ \E h \in Handle :
            \/ \E w \in Win, kind \in {"term", "gfx"} : NewWindow(th, h, w, kind)
            \/ WaitEvents(th, h) \/ ReadEvents(th, h) \/ Close(th, h)
        \/ \E u \in Thread : Spawn(th, u)
        \/ \E c \in Procs : Fork(th, c)
        \/ NoTileLeft(th) \/ Exit(th) \/ Exec(th)
    \/ \E p \in Procs : Reap(p)

Spec == Init /\ [][Next]_vars

-----------------------------------------------------------------------------
(* What the windows were told is what the root window shows: the one in    *)
(* the focused tile, and no other, thinks it has the focus; the others are *)
(* hidden exactly while one is shown alone; and a window whose resizes     *)
(* succeeded has the size of its place.                                    *)
WindowsKnowTheirPlace ==
    \A t \in Tile : desk.grid[t] # Nobody =>
        LET r == desk.win[desk.grid[t]] IN
        /\ r.active
        /\ r.focused <=> t = desk.focus
        /\ r.hidden <=> (desk.single /\ t # desk.focus)
        /\ r.size \in {"own", IF t = desk.focus THEN FocusSize(desk) ELSE "tile"}
        /\ \A u \in Tile : desk.grid[u] = desk.grid[t] => u = t

(* A window's count is that of its handles; it is deleted when the last    *)
(* handle is gone and it is in no tile any more, and never before.         *)
WindowsLiveAsNeeded ==
    \A w \in Win :
        /\ desk.win[w].refs = Cardinality({h \in Handle : hs[h] = w})
        /\ desk.win[w] # Gone => desk.win[w].refs > 0 \/ InGrid(desk, w)
        /\ InGrid(desk, w) <=> desk.win[w].active

(* Unless a program closes a handle that another of its threads waits      *)
(* with, a thread waits only on a window that is there, active, without    *)
(* events, and open in its process.                                        *)
EventWaitersAreRight ==
    misused \/ \A w \in Win : \A th \in Waiters(w) :
        /\ desk.win[w].active /\ desk.win[w].n = 0
        /\ \E h \in Handle : h[1] = th[1] /\ hs[h] = w
=============================================================================
