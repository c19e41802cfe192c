------------------------------ MODULE Desktop ------------------------------
(***************************************************************************)
(* kernel/desktop.c: what a click, a drag, ESC and a key do to the windows *)
(* (handle_click_event and run_gui_loop), with the two things that happen  *)
(* to them from outside: load_program shows the window whose title matches *)
(* the program, and the scheduler hides it once the process is dead.       *)
(*                                                                         *)
(* A packet is one step here; MousePacket assembles it.  The pointer moves *)
(* between the points of an instance, in the coordinates of the screen.    *)
(* What is inside the windows has modules of its own; of the list of files *)
(* the kinds are kept, since some of them raise another window.            *)
(***************************************************************************)
EXTENDS WindowManager, Integers, FiniteSets

CONSTANTS
    Points,         \* where the pointer may be
    Files,          \* the kinds, "APP", "TXT" and others, in the list's order
    MaxMoves,       \* bounds: on the packets that move a window,
    MaxLeaves,      \* on how often the desktop is left,
    MaxLaunches     \* and on the programs that are loaded

\* A file of these kinds raises the window, which then is none that the
\* instance leaves out.
Opens == [APP |-> "terminal", TXT |-> "notes"]

ASSUME DesktopAssumption ==
    /\ Windows \subseteq {"files", "terminal", "settings", "taskmanager", "notes",
                          "calc", "snake", "browser", "welcome"}
    /\ Files \in Seq(STRING)
    /\ \A i \in 1 .. Len(Files) :
           Files[i] \in DOMAIN Opens => Opens[Files[i]] \in Windows
    /\ Points \subseteq (0 .. 319) \X (0 .. 199)
    /\ MaxMoves \in Nat /\ MaxLeaves \in Nat /\ MaxLaunches \in Nat

VARIABLES
    wm,             \* [order, visible, active]
    pos,            \* the upper left corners of the windows
    dragged_window, \* a window or NULL
    drag_offset,
    held,           \* bit 0 of last_mouse_buttons
    mouse,          \* where the pointer is
    linked,         \* the windows that have the pid of a process
    forsaken,       \* a dead process's window was active when it was hidden
    moves, leaves, launches

vars == <<wm, pos, dragged_window, drag_offset, held, mouse, linked, forsaken,
          moves, leaves, launches>>

NULL == "none"

Place == [files |-> <<20, 20>>, terminal |-> <<30, 45>>, settings |-> <<80, 35>>,
          taskmanager |-> <<30, 35>>, notes |-> <<70, 40>>, calc |-> <<90, 50>>,
          snake |-> <<100, 40>>, browser |-> <<30, 40>>, welcome |-> <<60, 30>>]

Size == [files |-> <<180, 100>>, terminal |-> <<260, 130>>, settings |-> <<160, 125>>,
         taskmanager |-> <<260, 130>>, notes |-> <<200, 125>>, calc |-> <<140, 120>>,
         snake |-> <<180, 120>>, browser |-> <<260, 145>>, welcome |-> <<190, 95>>]

\* The icons: the columns start at 5, 75 and 145, the rows at 20, 60, ...
Icons == {[app |-> "settings", x |-> 5, y |-> 20],   [app |-> "files", x |-> 5, y |-> 60],
          [app |-> "terminal", x |-> 5, y |-> 100],  [app |-> "snake", x |-> 5, y |-> 140],
          [app |-> "taskmanager", x |-> 75, y |-> 20], [app |-> "notes", x |-> 75, y |-> 60],
          [app |-> "calc", x |-> 75, y |-> 100],     [app |-> "browser", x |-> 75, y |-> 140]}
IconWidth(x) == IF x = 5 THEN 50 ELSE 40

\* Where the upper left corner of a window may be.
Corners == (-100 .. 280) \X (10 .. 180)

TypeOK ==
    /\ wm \in WindowStates
    /\ pos \in [Windows -> Corners]
    /\ dragged_window \in Windows \union {NULL}
    /\ drag_offset \in (0 .. 319) \X (0 .. 11)
    /\ held \in BOOLEAN
    /\ mouse \in (0 .. 319) \X (0 .. 199)
    /\ linked \in SUBSET Windows
    /\ forsaken \in BOOLEAN
    /\ moves \in Nat /\ leaves \in Nat /\ launches \in Nat

Init ==
    /\ wm = init_windows
    /\ pos = [w \in Windows |-> Place[w]]
    /\ dragged_window = NULL /\ drag_offset = <<0, 0>>
    /\ held = FALSE /\ mouse = <<160, 100>>
    /\ linked = {} /\ forsaken = FALSE
    /\ moves = 0 /\ leaves = 0 /\ launches = 0

-----------------------------------------------------------------------------
(* handle_click_event(cx, cy) *)

Within(v, low, size) == v >= low /\ v < low + size

Contains(w, p) == Within(p[1], pos[w][1], Size[w][1]) /\ Within(p[2], pos[w][2], Size[w][2])

\* The first window from the top that is visible and under the pointer.
Hits(w, p) ==
    /\ w \in wm.visible /\ Contains(w, p)
    /\ \A i, j \in 1 .. NUM_WINDOWS :
           wm.order[i] = w /\ j > i =>
               ~(wm.order[j] \in wm.visible /\ Contains(wm.order[j], p))

OnClose(w, p) == /\ Within(p[1], pos[w][1] + Size[w][1] - 13, 8)
                 /\ Within(p[2], pos[w][2] + 3, 8)
OnTitle(w, p) == /\ Within(p[1], pos[w][1], Size[w][1] - 14)
                 /\ Within(p[2], pos[w][2], 12)

\* The entry of the list a click is for, as C divides: the rows from 11 on,
\* above the list, round to entry 0.
Quotient(n, d) == IF n < 0 THEN -((-n) \div d) ELSE n \div d
FileClicked(p) ==
    LET x == p[1] - pos["files"][1]
        y == p[2] - pos["files"][2] - 22
        entry == Quotient(y, 12) + 1
    IN IF /\ x >= 10 /\ x < Size["files"][1] - 10
          /\ entry \in 1 .. Len(Files) /\ y - 12 * (entry - 1) < 10
       THEN Files[entry] ELSE "no file"

\* The contents of the window: of them only the list of files does something
\* to the windows.
Inside(s, w, p) ==
    IF w = "files" /\ FileClicked(p) \in DOMAIN Opens
    THEN LET app == Opens[FileClicked(p)] IN focus_window(Shown(s, app), app)
    ELSE s

Closed_Mut(s, w) == Hidden(s, w)

\* Hide the window and focus the next visible one from the top.
Closed(s, w) ==
    LET h == Hidden(s, w)
    IN IF h.visible = {} THEN h
       ELSE focus_window(h, CHOOSE v \in h.visible : IsTop(h, v))

ClickWindow_Mut(w, p) ==
    /\ Hits(w, p)
    /\ LET s == Inside(focus_window(wm, w), w, p)
       IN wm' = IF OnClose(w, p) THEN Closed(s, w) ELSE s
    /\ IF ~OnClose(w, p) /\ OnTitle(w, p)
       THEN dragged_window' = w /\ drag_offset' = p
       ELSE UNCHANGED <<dragged_window, drag_offset>>

ClickWindow(w, p) ==
    /\ Hits(w, p)
    /\ LET s == Inside(focus_window(wm, w), w, p)
       IN wm' = IF OnClose(w, p) THEN Closed(s, w) ELSE s
    /\ IF ~OnClose(w, p) /\ OnTitle(w, p)
       THEN /\ dragged_window' = w
            /\ drag_offset' = <<p[1] - pos[w][1], p[2] - pos[w][2]>>
       ELSE UNCHANGED <<dragged_window, drag_offset>>

\* The button of w in the taskbar: the buttons are 46 apart from 35 on, in
\* the order of the windows, and there are five at most.
TaskButton(w, p) ==
    LET below == {i \in 1 .. NUM_WINDOWS :
                     /\ wm.order[i] \in wm.visible \ {"welcome"}
                     /\ i < IndexOf(wm.order, w)}
        x == 35 + 46 * Cardinality(below)
    IN /\ p[2] \in 191 .. 199
       /\ w \in wm.visible \ {"welcome"}
       /\ x <= 220 /\ Within(p[1], x, 42)

NoWindow(p) == \A w \in Windows : ~Hits(w, p)

ClickTaskbar(w, p) ==
    /\ NoWindow(p) /\ TaskButton(w, p)
    /\ wm' = focus_window(wm, w)
    /\ UNCHANGED <<dragged_window, drag_offset>>

OnIcon(w, p) ==
    \E icon \in Icons :
        /\ icon.app = w
        /\ p[1] \in icon.x .. icon.x + IconWidth(icon.x)
        /\ p[2] \in icon.y .. icon.y + 30

ClickIcon(w, p) ==
    /\ NoWindow(p) /\ OnIcon(w, p)
    /\ wm' = focus_window(Shown(wm, w), w)
    /\ UNCHANGED <<dragged_window, drag_offset>>

ClickNothing(p) ==
    /\ NoWindow(p)
    /\ \A w \in Windows : ~TaskButton(w, p) /\ ~OnIcon(w, p)
    /\ UNCHANGED <<wm, dragged_window, drag_offset>>

-----------------------------------------------------------------------------
(* run_gui_loop *)

\* A packet with the button pressed that was not pressed before.
Press(p) ==
    /\ ~held
    /\ held' = TRUE /\ mouse' = p
    /\ \/ \E w \in Windows : ClickWindow(w, p) \/ ClickTaskbar(w, p) \/ ClickIcon(w, p)
       \/ ClickNothing(p)
    /\ forsaken' = (forsaken /\ wm' = wm)
    /\ UNCHANGED <<pos, linked, moves, leaves, launches>>

Limited(v, low, high) == IF v < low THEN low ELSE IF v > high THEN high ELSE v

Dropped(p) == <<Limited(p[1] - drag_offset[1], -100, 280),
                Limited(p[2] - drag_offset[2], 10, 180)>>

Hold(p) ==
    /\ held
    /\ mouse' = p
    /\ IF dragged_window = NULL THEN UNCHANGED <<pos, moves>>
       ELSE /\ moves < MaxMoves
            /\ moves' = moves + 1
            /\ pos' = [pos EXCEPT ![dragged_window] = Dropped(p)]
    /\ UNCHANGED <<wm, dragged_window, drag_offset, held, linked, forsaken,
                   leaves, launches>>

Release(p) ==
    /\ held' = FALSE /\ mouse' = p
    /\ dragged_window' = NULL
    /\ UNCHANGED <<wm, pos, drag_offset, linked, forsaken, moves, leaves, launches>>

\* ESC, the text shell, and run_gui_loop again: init_windows and init_mouse.
LeaveAndReturn ==
    /\ leaves < MaxLeaves
    /\ leaves' = leaves + 1
    /\ wm' = init_windows
    /\ pos' = [w \in Windows |-> Place[w]]
    /\ held' = FALSE /\ mouse' = <<160, 100>>
    /\ forsaken' = FALSE
    /\ UNCHANGED <<dragged_window, drag_offset, linked, moves, launches>>

\* load_program: the window of a program is shown and focused.
Launch(w) ==
    /\ launches < MaxLaunches
    /\ launches' = launches + 1
    /\ linked' = linked \union {w}
    /\ wm' = focus_window(Shown(wm, w), w)
    /\ forsaken' = FALSE
    /\ UNCHANGED <<pos, dragged_window, drag_offset, held, mouse, moves, leaves>>

\* scheduler_switch: the process of the window is dead.
Reap(w) ==
    /\ w \in linked
    /\ linked' = linked \ {w}
    /\ wm' = Hidden(wm, w)
    /\ forsaken' = (forsaken \/ w \in wm.active)
    /\ UNCHANGED <<pos, dragged_window, drag_offset, held, mouse, moves, leaves,
                   launches>>

Next ==
    \/ \E p \in Points : Press(p) \/ Hold(p) \/ Release(p)
    \/ LeaveAndReturn
    \/ \E w \in Windows : Launch(w) \/ Reap(w)

Spec == Init /\ [][Next]_vars

\* The windows that keys go to, of those the loop asks for.
KeyTargets == wm.active \intersect wm.visible
                 \intersect {"terminal", "notes", "calc", "snake", "browser"}

-----------------------------------------------------------------------------
(* Properties. *)

\* window_order always has every window exactly once, whatever is clicked,
\* closed, launched and reaped: a window that is missing could never be drawn
\* or clicked again.
EveryWindowListed ==
    \A w \in Windows : Cardinality({i \in 1 .. NUM_WINDOWS : wm.order[i] = w}) = 1

\* At most one window is active, and no visible window is above it: a key
\* never goes to a window that is covered, and never to two.
KeysGoToTheTop ==
    /\ Cardinality(KeyTargets) <= 1
    /\ \A w \in wm.active : IsTop(wm, w)

\* While there is a window on the screen one of them listens, unless the last
\* thing that happened to the focus is that a process died: closing a window
\* with its button passes the focus on, scheduler_switch does not.
FocusPassesOn == wm.visible # {} /\ wm.active = {} => forsaken

\* Wherever windows have been dragged to, the height of the title bar and 26
\* columns of where it can be held are on the screen, below the top bar.
TitleBarOnScreen ==
    \A w \in Windows :
        /\ pos[w][1] + Size[w][1] - 14 >= 26 /\ pos[w][1] + 26 <= 320
        /\ pos[w][2] >= 10 /\ pos[w][2] + 12 <= 200

\* While a window is dragged the pointer stays where it took hold of the
\* title bar, unless a limit stops the window.
GrabPointStays ==
    dragged_window # NULL /\ leaves = 0 => pos[dragged_window] = Dropped(mouse)

\* The focus is in order: every window can be raised, keys go to the window on
\* top, and one listens.
FocusSound == EveryWindowListed /\ KeysGoToTheTop /\ FocusPassesOn

\* Dragging moves a window with the pointer and never out of reach.
DragsSound == TypeOK /\ TitleBarOnScreen /\ GrabPointStays
=============================================================================
