--------------------------- MODULE DesktopProofs ---------------------------
(***************************************************************************)
(* Whatever is clicked, closed, launched and reaped, the windows stay in   *)
(* order: every one is listed once, the one that hears the keys is on top, *)
(* and there is one that hears them.  Then the parts of the desktop that   *)
(* share no state with it: the snake, the packets of the mouse, what is    *)
(* drawn, the terminal, the calculator, the browser's page, and the        *)
(* controls the mouse presses.                                             *)
(***************************************************************************)
EXTENDS Desktop, Snake, MousePacket, Graphics, Terminal, Calculator, BrowserPage, Buttons,
        Recursion, FiniteSetTheorems, WellFoundedInduction, SequenceTheorems, TLAPS

Places == 1 .. NUM_WINDOWS

\* window_order is a permutation of the windows.
Permutation(order) ==
    /\ order \in [Places -> Windows]
    /\ \A i, j \in Places : order[i] = order[j] => i = j
    /\ \A w \in Windows : \E i \in Places : order[i] = w

\* The windows are in order, and what is active is one window on top.
Good(s) ==
    /\ s \in WindowStates
    /\ Permutation(s.order)
    /\ \A v, w \in s.active : v = w
    /\ \A w \in s.active : IsTop(s, w)

\* The inductive invariant.
FocusInv == Good(wm) /\ FocusPassesOn

-----------------------------------------------------------------------------
(* The order of the windows. *)

LEMMA NumWindows == NUM_WINDOWS \in Nat
  BY OrderAssumption DEF NUM_WINDOWS

\* IndexOf finds the place of a window.
LEMMA IndexIsPlace ==
    ASSUME NEW order, Permutation(order), NEW w \in Windows
    PROVE  /\ IndexOf(order, w) \in Places
           /\ order[IndexOf(order, w)] = w
  BY DEF Permutation, IndexOf, Places

\* Raising a window permutes the windows and puts it in the last place.
LEMMA RaisedPermutes ==
    ASSUME NEW order, Permutation(order), NEW w \in Windows
    PROVE  /\ Permutation(Raised(order, w))
           /\ NUM_WINDOWS \in Places
           /\ Raised(order, w)[NUM_WINDOWS] = w
<1> DEFINE k == IndexOf(order, w)
           new == Raised(order, w)
<1>1. /\ NUM_WINDOWS \in Nat
      /\ k \in 1 .. NUM_WINDOWS
      /\ order[k] = w
  BY NumWindows, IndexIsPlace DEF Places
<1>2. /\ new = [i \in 1 .. NUM_WINDOWS |->
                   IF i = NUM_WINDOWS THEN w
                   ELSE IF i >= k THEN order[i + 1] ELSE order[i]]
      /\ order \in [1 .. NUM_WINDOWS -> Windows]
      /\ \A i, j \in 1 .. NUM_WINDOWS : order[i] = order[j] => i = j
      /\ \A v \in Windows : \E i \in 1 .. NUM_WINDOWS : order[i] = v
  BY DEF Raised, Permutation, Places
<1> HIDE DEF k, new
<1>3. new \in [1 .. NUM_WINDOWS -> Windows]
  BY <1>1, <1>2
<1>4. ASSUME NEW i \in 1 .. NUM_WINDOWS, NEW j \in 1 .. NUM_WINDOWS,
             new[i] = new[j]
      PROVE  i = j
  BY <1>1, <1>2, <1>4
<1>5. ASSUME NEW v \in Windows
      PROVE  \E i \in 1 .. NUM_WINDOWS : new[i] = v
  <2>1. CASE v = w
    BY <1>1, <1>2, <2>1
  <2>2. CASE v # w
    <3>1. PICK j \in 1 .. NUM_WINDOWS : order[j] = v
      BY <1>2
    <3>2. CASE j < k
      <4>1. new[j] = v
        BY <1>1, <1>2, <3>1, <3>2
      <4> QED
        BY <4>1
    <3>3. CASE j > k
      <4>1. j - 1 \in 1 .. NUM_WINDOWS /\ new[j - 1] = v
        BY <1>1, <1>2, <3>1, <3>3
      <4> QED
        BY <4>1
    <3>4. j # k
      BY <1>1, <2>2, <3>1
    <3> QED
      BY <1>1, <3>2, <3>3, <3>4
  <2> QED
    BY <2>1, <2>2
<1>6. NUM_WINDOWS \in 1 .. NUM_WINDOWS /\ new[NUM_WINDOWS] = w
  BY <1>1, <1>2
<1> QED
  BY <1>3, <1>4, <1>5, <1>6 DEF Permutation, Places, new

\* Among the visible windows one is on top.
LEMMA TopExists ==
    ASSUME NEW s \in WindowStates, Permutation(s.order), s.visible # {}
    PROVE  \E v \in s.visible : IsTop(s, v)
<1> DEFINE Depths == {d \in Nat : /\ NUM_WINDOWS - d \in Places
                                  /\ s.order[NUM_WINDOWS - d] \in s.visible}
<1>1. NUM_WINDOWS \in Nat
  BY NumWindows
<1>2. /\ s.visible \subseteq Windows
      /\ \A i, j \in Places : s.order[i] = s.order[j] => i = j
      /\ \A w \in Windows : \E i \in Places : s.order[i] = w
  BY DEF WindowStates, Permutation
<1>3. Depths # {}
  <2>1. PICK i \in Places : s.order[i] \in s.visible
    BY <1>2
  <2>2. NUM_WINDOWS - i \in Nat /\ NUM_WINDOWS - (NUM_WINDOWS - i) = i
    BY <1>1 DEF Places
  <2> QED
    BY <2>1, <2>2
<1>4. PICK d \in Depths : \A e \in Depths : ~(<<e, d>> \in OpToRel(<, Nat))
  BY <1>3, NatLessThanWellFounded, WFMin
<1>5. \A e \in Depths : ~(e < d)
  BY <1>4 DEF OpToRel
<1>6. ASSUME NEW j \in Places, j > NUM_WINDOWS - d
      PROVE  s.order[j] \notin s.visible
  <2>1. /\ NUM_WINDOWS - j \in Nat /\ NUM_WINDOWS - j < d
        /\ NUM_WINDOWS - (NUM_WINDOWS - j) = j
    BY <1>1, <1>6 DEF Places
  <2> QED
    BY <1>5, <2>1
<1>7. IsTop(s, s.order[NUM_WINDOWS - d])
  BY <1>2, <1>6 DEF IsTop, Places
<1> QED
  BY <1>7

-----------------------------------------------------------------------------
(* What the operations do to windows in order. *)

\* focus_window of a visible window: it is on top and the only active one.
LEMMA FocusIsGood ==
    ASSUME NEW s \in WindowStates, Permutation(s.order), NEW w \in s.visible
    PROVE  /\ Good(focus_window(s, w))
           /\ focus_window(s, w).active = {w}
           /\ focus_window(s, w).visible = s.visible
<1> DEFINE t == focus_window(s, w)
<1>1. w \in Windows
  BY DEF WindowStates
<1>2. /\ t.order = Raised(s.order, w)
      /\ t.visible = s.visible
      /\ t.active = {w}
  BY DEF focus_window, WindowStates
<1>3. /\ Permutation(Raised(s.order, w))
      /\ NUM_WINDOWS \in Places
      /\ Raised(s.order, w)[NUM_WINDOWS] = w
  BY <1>1, RaisedPermutes
<1>4. t \in WindowStates
  <2>1. Raised(s.order, w) \in [1 .. NUM_WINDOWS -> Windows]
    BY <1>3 DEF Permutation, Places
  <2> QED
    BY <1>1, <2>1 DEF focus_window, WindowStates
<1>5. ASSUME NEW i \in Places, NEW j \in Places, t.order[i] = w, j > i
      PROVE  t.order[j] \notin t.visible
  <2>1. i = NUM_WINDOWS
    BY <1>2, <1>3, <1>5 DEF Permutation
  <2> QED
    BY <1>5, <2>1, NumWindows DEF Places
<1>6. IsTop(t, w)
  BY <1>2, <1>5 DEF IsTop, Places
<1> HIDE DEF t
<1>7. Good(t)
  BY <1>2, <1>3, <1>4, <1>6 DEF Good
<1> QED
  BY <1>2, <1>7 DEF t

\* The window of a program or a file is shown and focused.
LEMMA ShowAndFocus ==
    ASSUME NEW s, Good(s), NEW w \in Windows
    PROVE  /\ Good(focus_window(Shown(s, w), w))
           /\ focus_window(Shown(s, w), w).active = {w}
           /\ s.visible \subseteq focus_window(Shown(s, w), w).visible
<1> DEFINE t == Shown(s, w)
<1>1. s \in WindowStates /\ Permutation(s.order)
  BY DEF Good
<1>2. /\ t \in WindowStates
      /\ t.order = s.order
      /\ t.visible = s.visible \union {w}
  BY <1>1 DEF Shown, WindowStates
<1> HIDE DEF t
<1>3. Good(focus_window(t, w)) /\ focus_window(t, w).active = {w}
         /\ focus_window(t, w).visible = t.visible
  BY <1>1, <1>2, FocusIsGood
<1> QED
  BY <1>2, <1>3 DEF t

\* A window that is hidden leaves the others as they were.
LEMMA HiddenIsGood ==
    ASSUME NEW s, Good(s), NEW w
    PROVE  /\ Good(Hidden(s, w))
           /\ Hidden(s, w).visible = s.visible \ {w}
           /\ Hidden(s, w).active = s.active \ {w}
<1> DEFINE t == Hidden(s, w)
<1>1. s \in WindowStates /\ Permutation(s.order)
  BY DEF Good
<1>2. /\ t \in WindowStates
      /\ t.order = s.order
      /\ t.visible = s.visible \ {w}
      /\ t.active = s.active \ {w}
  BY <1>1 DEF Hidden, WindowStates
<1> HIDE DEF t
<1>3. ASSUME NEW v \in t.active
      PROVE  IsTop(t, v)
  BY <1>2, <1>3 DEF Good, IsTop
<1>4. Good(t)
  BY <1>1, <1>2, <1>3 DEF Good
<1> QED
  BY <1>2, <1>4 DEF t

\* Closing a window focuses another one, if there is one.
LEMMA ClosedIsGood ==
    ASSUME NEW s, Good(s), NEW w
    PROVE  /\ Good(Closed(s, w))
           /\ Closed(s, w).visible # {} => Closed(s, w).active # {}
<1> DEFINE h == Hidden(s, w)
           v == CHOOSE u \in h.visible : IsTop(h, u)
<1>1. Good(h)
  BY HiddenIsGood
<1>2. Closed(s, w) = IF h.visible = {} THEN h ELSE focus_window(h, v)
  BY DEF Closed
<1> HIDE DEF h
<1>3. CASE h.visible = {}
  BY <1>1, <1>2, <1>3
<1>4. CASE h.visible # {}
  <2>1. h \in WindowStates /\ Permutation(h.order)
    BY <1>1 DEF Good
  <2>2. v \in h.visible
    BY <1>4, <2>1, TopExists
  <2> QED
    BY <1>2, <1>4, <2>1, <2>2, FocusIsGood
<1> QED
  BY <1>3, <1>4

\* A click inside a window may show and raise another one.
LEMMA InsideIsGood ==
    ASSUME NEW s, Good(s), s.active # {}, NEW w, NEW p
    PROVE  Good(Inside(s, w, p)) /\ Inside(s, w, p).active # {}
<1> DEFINE app == Opens[FileClicked(p)]
<1>1. CASE w = "files" /\ FileClicked(p) \in DOMAIN Opens
  <2>1. \E i \in 1 .. Len(Files) : FileClicked(p) = Files[i]
    BY <1>1 DEF FileClicked, Opens
  <2>2. app \in Windows
    BY <1>1, <2>1, DesktopAssumption
  <2>3. Inside(s, w, p) = focus_window(Shown(s, app), app)
    BY <1>1 DEF Inside
  <2> QED
    BY <2>2, <2>3, ShowAndFocus
<1>2. CASE ~(w = "files" /\ FileClicked(p) \in DOMAIN Opens)
  BY <1>2 DEF Inside
<1> QED
  BY <1>1, <1>2

-----------------------------------------------------------------------------
(* The invariant. *)

\* init_windows, at the start and after ESC.
LEMMA FirstIsGood ==
    /\ Good(init_windows)
    /\ init_windows.visible # {} => init_windows.active # {}
<1> DEFINE order == [i \in 1 .. NUM_WINDOWS |-> InitOrder[i]]
           welcome == {"welcome"} \intersect Windows
           s == init_windows
<1>1. s.order = order /\ s.visible = welcome /\ s.active = welcome
  BY DEF init_windows
<1>2. Permutation(order)
  BY OrderAssumption DEF Permutation, Places, Windows, NUM_WINDOWS
<1>3. s \in WindowStates
  BY <1>2 DEF init_windows, WindowStates, Permutation, Places
<1> HIDE DEF order, s
<1>4. ASSUME NEW w \in s.active
      PROVE  IsTop(s, w)
  <2> SUFFICES ASSUME NEW i \in Places, NEW j \in Places,
                      s.order[i] = w, j > i
               PROVE  s.order[j] \notin s.visible
    BY <1>1, <1>4 DEF IsTop, Places
  <2>1. s.order[j] # w
    BY <1>1, <1>2, NumWindows DEF Permutation, Places
  <2> QED
    BY <1>1, <1>4, <2>1
<1>5. Good(s)
  BY <1>1, <1>2, <1>3, <1>4 DEF Good
<1> QED
  BY <1>1, <1>5 DEF s

LEMMA InitFocus == Init => FocusInv
  BY FirstIsGood DEF Init, FocusInv, FocusPassesOn

\* A press leaves the windows in order and one of them active, or changes
\* nothing about them.
LEMMA PressIsGood ==
    ASSUME FocusInv, NEW p, Press(p)
    PROVE  FocusInv'
<1>1. Good(wm) /\ FocusPassesOn
  BY DEF FocusInv
<1>2. wm \in WindowStates /\ Permutation(wm.order)
  BY <1>1 DEF Good
<1>3. ASSUME NEW w \in Windows, ClickWindow(w, p)
      PROVE  Good(wm') /\ (wm'.visible # {} => wm'.active # {})
  <2> DEFINE f == focus_window(wm, w)
             s == Inside(f, w, p)
  <2>1. w \in wm.visible
    BY <1>3 DEF ClickWindow, Hits
  <2>2. Good(f) /\ f.active # {}
    BY <1>2, <2>1, FocusIsGood
  <2> HIDE DEF f
  <2>3. Good(s) /\ s.active # {}
    BY <2>2, InsideIsGood
  <2>4. wm' = IF OnClose(w, p) THEN Closed(s, w) ELSE s
    BY <1>3 DEF ClickWindow, f
  <2> HIDE DEF s
  <2> QED
    BY <2>3, <2>4, ClosedIsGood
<1>4. ASSUME NEW w \in Windows, ClickTaskbar(w, p)
      PROVE  Good(wm') /\ wm'.active # {}
  <2>1. w \in wm.visible /\ wm' = focus_window(wm, w)
    BY <1>4 DEF ClickTaskbar, TaskButton
  <2> QED
    BY <1>2, <2>1, FocusIsGood
<1>5. ASSUME NEW w \in Windows, ClickIcon(w, p)
      PROVE  Good(wm') /\ wm'.active # {}
  BY <1>1, <1>5, ShowAndFocus DEF ClickIcon
<1>6. CASE \E w \in Windows : ClickWindow(w, p) \/ ClickTaskbar(w, p) \/ ClickIcon(w, p)
  BY <1>3, <1>4, <1>5, <1>6 DEF FocusInv, FocusPassesOn
<1>7. CASE ClickNothing(p)
  BY <1>1, <1>7 DEF FocusInv, FocusPassesOn, ClickNothing, Press
<1> QED
  BY <1>6, <1>7 DEF Press

LEMMA FocusUnchanged ==
    ASSUME FocusInv, UNCHANGED <<wm, forsaken>>
    PROVE  FocusInv'
  BY DEF FocusInv, FocusPassesOn

LEMMA StepFocus == FocusInv /\ [Next]_vars => FocusInv'
<1> SUFFICES ASSUME FocusInv, [Next]_vars
             PROVE  FocusInv'
  OBVIOUS
<1>1. Good(wm)
  BY DEF FocusInv
<1>2. ASSUME NEW p \in Points, Press(p)
      PROVE  FocusInv'
  BY <1>2, PressIsGood
<1>3. ASSUME NEW p \in Points, Hold(p) \/ Release(p)
      PROVE  FocusInv'
  BY <1>3, FocusUnchanged DEF Hold, Release
<1>4. CASE LeaveAndReturn
  <2>1. wm' = init_windows
    BY <1>4 DEF LeaveAndReturn
  <2> QED
    BY <2>1, FirstIsGood DEF FocusInv, FocusPassesOn
<1>5. ASSUME NEW w \in Windows, Launch(w)
      PROVE  FocusInv'
  <2>1. Good(wm') /\ wm'.active # {}
    BY <1>1, <1>5, ShowAndFocus DEF Launch
  <2> QED
    BY <2>1 DEF FocusInv, FocusPassesOn
<1>6. ASSUME NEW w \in Windows, Reap(w)
      PROVE  FocusInv'
  <2>1. /\ Good(wm')
        /\ wm'.visible = wm.visible \ {w}
        /\ wm'.active = wm.active \ {w}
    BY <1>1, <1>6, HiddenIsGood DEF Reap
  <2>2. forsaken' = (forsaken \/ w \in wm.active)
    BY <1>6 DEF Reap
  <2> QED
    BY <2>1, <2>2 DEF FocusInv, FocusPassesOn
<1>7. CASE UNCHANGED vars
  BY <1>7, FocusUnchanged DEF vars
<1> QED
  BY <1>2, <1>3, <1>4, <1>5, <1>6, <1>7 DEF Next

-----------------------------------------------------------------------------
(* The theorems. *)

\* The inductive invariant holds.
THEOREM FocusInvariance == Spec => []FocusInv
  BY InitFocus, StepFocus, PTL DEF Spec

LEMMA InvIsSound == FocusInv => FocusSound
<1> SUFFICES ASSUME FocusInv
             PROVE  FocusSound
  OBVIOUS
<1>1. /\ wm \in WindowStates
      /\ Permutation(wm.order)
      /\ \A v, w \in wm.active : v = w
      /\ \A w \in wm.active : IsTop(wm, w)
      /\ FocusPassesOn
  BY DEF FocusInv, Good
<1>2. ASSUME NEW w \in Windows
      PROVE  Cardinality({i \in 1 .. NUM_WINDOWS : wm.order[i] = w}) = 1
  <2> DEFINE S == {i \in 1 .. NUM_WINDOWS : wm.order[i] = w}
  <2>1. PICK i \in 1 .. NUM_WINDOWS : wm.order[i] = w
    BY <1>1 DEF Permutation, Places
  <2>2. S = {i}
    BY <1>1, <2>1 DEF Permutation, Places
  <2> QED
    BY <2>2, FS_Singleton
<1>3. Cardinality(KeyTargets) <= 1
  <2>1. CASE KeyTargets = {}
    BY <2>1, FS_EmptySet
  <2>2. CASE KeyTargets # {}
    <3>1. PICK w : KeyTargets = {w}
      BY <1>1, <2>2 DEF KeyTargets
    <3>2. Cardinality({w}) = 1
      BY FS_Singleton
    <3> QED
      BY <3>1, <3>2
  <2> QED
    BY <2>1, <2>2
<1> QED
  BY <1>1, <1>2, <1>3 DEF FocusSound, EveryWindowListed, KeysGoToTheTop

\* Whatever is clicked, dragged, closed, launched and reaped, every window
\* stays listed once, keys go to one window, the topmost, and one hears them
\* unless the process of the one that did has died.
THEOREM FocusIsSound == Spec => []FocusSound
  BY FocusInvariance, InvIsSound, PTL

-----------------------------------------------------------------------------
(* Dragging. *)

\* The inductive invariant: what is dragged is held where it was taken hold
\* of, as long as the desktop is not left.
DragInv ==
    /\ TypeOK
    /\ dragged_window # NULL /\ leaves = 0 => held /\ pos[dragged_window] = Dropped(mouse)

LEMMA ScreenSizes ==
    ASSUME NEW w \in Windows
    PROVE  /\ Size[w][1] \in 140 .. 260
           /\ Size[w][2] \in 95 .. 145
           /\ Place[w] \in Corners
           /\ w # NULL
<1>1. w \in {"files", "terminal", "settings", "taskmanager", "notes",
             "calc", "snake", "browser", "welcome"}
  BY DesktopAssumption
<1>2. Size[w][1] \in 140 .. 260
  BY <1>1 DEF Size
<1>3. Size[w][2] \in 95 .. 145
  BY <1>1 DEF Size
<1>4. Place[w] \in Corners
  BY <1>1 DEF Place, Corners
<1>5. w # NULL
  BY <1>1 DEF NULL
<1> QED
  BY <1>2, <1>3, <1>4, <1>5

LEMMA PlacesTyped == [w \in Windows |-> Place[w]] \in [Windows -> Corners]
  BY ScreenSizes

LEMMA CornersTyped ==
    /\ \A c \in Corners : c[1] \in -100 .. 280
    /\ \A c \in Corners : c[2] \in 10 .. 180
    /\ \A c \in Corners : c = <<c[1], c[2]>>
    /\ \A x, y : x \in -100 .. 280 /\ y \in 10 .. 180 => <<x, y>> \in Corners
<1>1. \A c \in Corners : c[1] \in -100 .. 280
  BY DEF Corners
<1>2. \A c \in Corners : c[2] \in 10 .. 180
  BY DEF Corners
<1>3. \A c \in Corners : c = <<c[1], c[2]>>
  BY DEF Corners
<1>4. \A x, y : x \in -100 .. 280 /\ y \in 10 .. 180 => <<x, y>> \in Corners
  BY DEF Corners
<1> QED
  BY <1>1, <1>2, <1>3, <1>4

LEMMA PointsTyped ==
    ASSUME NEW p \in Points
    PROVE  p \in (0 .. 319) \X (0 .. 199) /\ p[1] \in 0 .. 319 /\ p[2] \in 0 .. 199
<1>1. p \in (0 .. 319) \X (0 .. 199)
  BY DesktopAssumption
<1> QED
  BY <1>1

LEMMA LimitedTyped ==
    ASSUME NEW v \in Int, NEW low \in Int, NEW high \in Int, low <= high
    PROVE  /\ Limited(v, low, high) \in low .. high
           /\ v \in low .. high => Limited(v, low, high) = v
  BY DEF Limited

LEMMA DroppedTyped ==
    ASSUME TypeOK, NEW p \in Points
    PROVE  Dropped(p) \in Corners
<1> DEFINE x == p[1] - drag_offset[1]
           y == p[2] - drag_offset[2]
<1>1. drag_offset[1] \in Int /\ drag_offset[2] \in Int
  BY DEF TypeOK
<1>2. x \in Int /\ y \in Int
  BY <1>1, PointsTyped
<1>3. Dropped(p) = <<Limited(x, -100, 280), Limited(y, 10, 180)>>
  BY DEF Dropped
<1> HIDE DEF x, y
<1>4. Limited(x, -100, 280) \in -100 .. 280
  BY <1>2 DEF Limited
<1>5. Limited(y, 10, 180) \in 10 .. 180
  BY <1>2 DEF Limited
<1> QED
  BY <1>3, <1>4, <1>5, CornersTyped

LEMMA InitDrag == Init => DragInv
<1> SUFFICES ASSUME Init
             PROVE  DragInv
  OBVIOUS
<1>1. wm \in WindowStates
  BY InitFocus DEF FocusInv, Good
<1>2. pos \in [Windows -> Corners]
  BY PlacesTyped DEF Init
<1>3. /\ drag_offset \in (0 .. 319) \X (0 .. 11)
      /\ mouse \in (0 .. 319) \X (0 .. 199)
  BY DEF Init
<1>4. moves \in Nat /\ leaves \in Nat /\ launches \in Nat
  BY DEF Init
<1>5. /\ dragged_window \in Windows \union {NULL} /\ held \in BOOLEAN
      /\ linked \in SUBSET Windows /\ forsaken \in BOOLEAN
  BY DEF Init
<1>6. TypeOK
  BY <1>1, <1>2, <1>3, <1>4, <1>5 DEF TypeOK
<1> QED
  BY <1>6 DEF DragInv, Init

\* A press on a title bar takes hold of the window where the pointer is.
LEMMA GrabHolds ==
    ASSUME TypeOK, NEW p \in Points, NEW w \in Windows, OnTitle(w, p)
    PROVE  /\ <<p[1] - pos[w][1], p[2] - pos[w][2]>> \in (0 .. 319) \X (0 .. 11)
           /\ pos[w] = <<Limited(p[1] - (p[1] - pos[w][1]), -100, 280),
                        Limited(p[2] - (p[2] - pos[w][2]), 10, 180)>>
<1> DEFINE x == pos[w][1]
           y == pos[w][2]
<1>1. pos[w] \in Corners
  BY DEF TypeOK
<1>2. x \in -100 .. 280 /\ y \in 10 .. 180
  BY <1>1, CornersTyped
<1>3. pos[w] = <<x, y>>
  BY <1>1, CornersTyped
<1>4. p[1] \in 0 .. 319 /\ p[2] \in 0 .. 199
  BY PointsTyped
<1>5. Size[w][1] \in 140 .. 260
  BY ScreenSizes
<1>6. p[1] >= x /\ p[1] < x + (Size[w][1] - 14)
  BY DEF OnTitle, Within
<1>7. p[2] >= y /\ p[2] < y + 12
  BY DEF OnTitle, Within
<1> HIDE DEF x, y
<1>8. /\ p[1] - (p[1] - x) = x
      /\ p[2] - (p[2] - y) = y
  BY <1>2, <1>4
<1>9. Limited(x, -100, 280) = x
  BY <1>2 DEF Limited
<1>10. Limited(y, 10, 180) = y
  BY <1>2 DEF Limited
<1>11. p[1] - x \in 0 .. 319
  <2> DEFINE a == p[1]
             width == Size[w][1]
  <2>1. /\ a \in 0 .. 319 /\ width \in 140 .. 260
        /\ a >= x /\ a < x + (width - 14)
    BY <1>4, <1>5, <1>6
  <2> HIDE DEF a, width
  <2>2. a - x \in 0 .. 319
    BY <1>2, <2>1
  <2> QED
    BY <2>2 DEF a
<1>12. p[2] - y \in 0 .. 11
  <2> DEFINE a == p[2]
  <2>1. a \in 0 .. 199 /\ a >= y /\ a < y + 12
    BY <1>4, <1>7
  <2> HIDE DEF a
  <2>2. a - y \in 0 .. 11
    BY <1>2, <2>1
  <2> QED
    BY <2>2 DEF a
<1> QED
  BY <1>3, <1>8, <1>9, <1>10, <1>11, <1>12 DEF x, y

LEMMA StepDrag == FocusInv' /\ DragInv /\ [Next]_vars => DragInv'
<1> SUFFICES ASSUME FocusInv', DragInv, [Next]_vars
             PROVE  DragInv'
  OBVIOUS
<1>1. wm' \in WindowStates
  BY DEF FocusInv, Good
<1>2. TypeOK
  BY DEF DragInv
<1>3. ASSUME NEW p \in Points
      PROVE  p \in (0 .. 319) \X (0 .. 199)
  BY PointsTyped
<1>4. ASSUME NEW p \in Points, Press(p)
      PROVE  DragInv'
  <2>1. /\ ~held /\ held' = TRUE /\ mouse' = p
        /\ forsaken' \in BOOLEAN
        /\ UNCHANGED <<pos, linked, moves, leaves, launches>>
    BY <1>4 DEF Press
  <2>2. CASE UNCHANGED <<dragged_window, drag_offset>>
    <3>1. TypeOK'
      BY <1>1, <1>2, <1>3, <2>1, <2>2 DEF TypeOK
    <3>2. UNCHANGED <<dragged_window, leaves>> /\ ~held
      BY <2>1, <2>2
    <3>3. dragged_window = NULL \/ leaves # 0
      BY <3>2 DEF DragInv
    <3> QED
      BY <3>1, <3>2, <3>3 DEF DragInv
  <2>3. CASE \E w \in Windows : /\ OnTitle(w, p)
                               /\ dragged_window' = w
                               /\ drag_offset' = <<p[1] - pos[w][1], p[2] - pos[w][2]>>
    <3>1. PICK w \in Windows : /\ OnTitle(w, p)
                               /\ dragged_window' = w
                               /\ drag_offset' = <<p[1] - pos[w][1], p[2] - pos[w][2]>>
      BY <2>3
    <3>2. TypeOK'
      <4>1. drag_offset' \in (0 .. 319) \X (0 .. 11)
        <5>1. OnTitle(w, p)
          BY <3>1
        <5>2. <<p[1] - pos[w][1], p[2] - pos[w][2]>> \in (0 .. 319) \X (0 .. 11)
          BY <1>2, <5>1, GrabHolds
        <5> QED
          BY <3>1, <5>2
      <4>2. held' \in BOOLEAN /\ mouse' \in (0 .. 319) \X (0 .. 199)
        BY <1>3, <2>1
      <4>3. dragged_window' \in Windows \union {NULL}
        BY <3>1
      <4>4. UNCHANGED <<pos, linked, moves, leaves, launches>> /\ forsaken' \in BOOLEAN
        BY <2>1
      <4> QED
        BY <1>1, <1>2, <4>1, <4>2, <4>3, <4>4 DEF TypeOK
    <3>3. Dropped(mouse)' = pos[w]
      BY <1>2, <2>1, <3>1, GrabHolds DEF Dropped
    <3> QED
      BY <2>1, <3>1, <3>2, <3>3 DEF DragInv
  <2> QED
    BY <1>4, <2>2, <2>3
       DEF Press, ClickWindow, ClickTaskbar, ClickIcon, ClickNothing
<1>5. ASSUME NEW p \in Points, Hold(p)
      PROVE  DragInv'
  <2>1. /\ held /\ mouse' = p
        /\ UNCHANGED <<dragged_window, drag_offset, held, linked, forsaken, leaves,
                       launches>>
    BY <1>5 DEF Hold
  <2>2. CASE dragged_window = NULL
    <3>1. UNCHANGED <<pos, moves>>
      BY <1>5, <2>2 DEF Hold
    <3>2. TypeOK'
      BY <1>1, <1>2, <1>3, <2>1, <3>1 DEF TypeOK
    <3> QED
      BY <2>1, <2>2, <3>2 DEF DragInv
  <2>3. CASE dragged_window # NULL
    <3>1. /\ dragged_window \in Windows
          /\ moves' \in Nat
          /\ pos' = [pos EXCEPT ![dragged_window] = Dropped(p)]
      BY <1>2, <1>5, <2>3 DEF TypeOK, Hold
    <3>2. Dropped(mouse)' = Dropped(p)
      BY <2>1 DEF Dropped
    <3>3. pos' \in [Windows -> Corners]
      BY <1>2, <3>1, DroppedTyped DEF TypeOK
    <3>4. TypeOK'
      BY <1>1, <1>2, <1>3, <2>1, <3>1, <3>3 DEF TypeOK
    <3>5. pos'[dragged_window] = Dropped(p)
      BY <1>2, <3>1 DEF TypeOK
    <3> QED
      BY <2>1, <3>2, <3>4, <3>5 DEF DragInv
  <2> QED
    BY <2>2, <2>3
<1>6. ASSUME NEW p \in Points, Release(p)
      PROVE  DragInv'
  <2>1. dragged_window' = NULL
    BY <1>6 DEF Release
  <2>2. mouse' \in (0 .. 319) \X (0 .. 199) /\ held' \in BOOLEAN
    BY <1>3, <1>6 DEF Release
  <2>3. UNCHANGED <<pos, drag_offset, linked, forsaken, moves, leaves, launches>>
    BY <1>6 DEF Release
  <2>4. TypeOK'
    BY <1>1, <1>2, <2>1, <2>2, <2>3 DEF TypeOK
  <2> QED
    BY <2>1, <2>4 DEF DragInv
<1>7. CASE LeaveAndReturn
  <2>1. pos' \in [Windows -> Corners]
    BY <1>7, PlacesTyped DEF LeaveAndReturn
  <2>2. leaves' \in Nat /\ leaves' # 0
    BY <1>2, <1>7 DEF LeaveAndReturn, TypeOK
  <2>3. mouse' = <<160, 100>> /\ held' \in BOOLEAN /\ forsaken' \in BOOLEAN
    BY <1>7 DEF LeaveAndReturn
  <2>4. <<160, 100>> \in (0 .. 319) \X (0 .. 199)
    OBVIOUS
  <2>5. mouse' \in (0 .. 319) \X (0 .. 199) /\ held' \in BOOLEAN /\ forsaken' \in BOOLEAN
    BY <2>3, <2>4
  <2>6. UNCHANGED <<dragged_window, drag_offset, linked, moves, launches>>
    BY <1>7 DEF LeaveAndReturn
  <2>7. TypeOK'
    BY <1>1, <1>2, <2>1, <2>2, <2>5, <2>6 DEF TypeOK
  <2> QED
    BY <2>2, <2>7 DEF DragInv
<1>8. ASSUME NEW w \in Windows, Launch(w) \/ Reap(w)
      PROVE  DragInv'
  <2>1. /\ UNCHANGED <<pos, dragged_window, drag_offset, held, mouse, moves, leaves>>
    BY <1>8 DEF Launch, Reap
  <2>2. linked' \in SUBSET Windows /\ forsaken' \in BOOLEAN
    BY <1>2, <1>8 DEF Launch, Reap, TypeOK
  <2>3. launches' \in Nat
    BY <1>2, <1>8 DEF Launch, Reap, TypeOK
  <2>4. TypeOK'
    BY <1>1, <1>2, <2>1, <2>2, <2>3 DEF TypeOK
  <2>5. Dropped(mouse)' = Dropped(mouse)
    BY <2>1 DEF Dropped
  <2> QED
    BY <2>1, <2>4, <2>5 DEF DragInv
<1>9. CASE UNCHANGED vars
  BY <1>1, <1>2, <1>9 DEF vars, DragInv, TypeOK, Dropped
<1> QED
  BY <1>4, <1>5, <1>6, <1>7, <1>8, <1>9 DEF Next

LEMMA DragInvIsSound == DragInv => DragsSound
<1> SUFFICES ASSUME DragInv
             PROVE  DragsSound
  OBVIOUS
<1>1. TypeOK
  BY DEF DragInv
<1>2. ASSUME NEW w \in Windows
      PROVE  /\ pos[w][1] + Size[w][1] - 14 >= 26 /\ pos[w][1] + 26 <= 320
             /\ pos[w][2] >= 10 /\ pos[w][2] + 12 <= 200
  <2>1. pos[w] \in Corners
    BY <1>1 DEF TypeOK
  <2>2. pos[w][1] \in -100 .. 280 /\ pos[w][2] \in 10 .. 180
    BY <2>1, CornersTyped
  <2>3. Size[w][1] \in 140 .. 260
    BY ScreenSizes
  <2> DEFINE x == pos[w][1]
             y == pos[w][2]
             width == Size[w][1]
  <2>4. x \in -100 .. 280 /\ width \in 140 .. 260
    BY <2>2, <2>3
  <2>5. y \in 10 .. 180
    BY <2>2
  <2> HIDE DEF x, y, width
  <2>6. x + width - 14 >= 26 /\ x + 26 <= 320
    BY <2>4
  <2>7. y >= 10 /\ y + 12 <= 200
    BY <2>5
  <2> QED
    BY <2>6, <2>7 DEF x, y, width
<1> QED
  BY <1>1, <1>2 DEF DragsSound, TitleBarOnScreen, GrabPointStays, DragInv

\* For any windows and any points a drag goes through, a dragged window
\* follows the pointer, and enough of its title bar stays on the screen to
\* take hold of it again.
THEOREM DraggingIsSound == Spec => []DragsSound
<1>1. Init => FocusInv /\ DragInv
  BY InitFocus, InitDrag
<1>2. (FocusInv /\ DragInv) /\ [Next]_vars => (FocusInv /\ DragInv)'
  BY StepFocus, StepDrag
<1> QED
  BY <1>1, <1>2, DragInvIsSound, PTL DEF Spec
-----------------------------------------------------------------------------
(* The snake. *)

\* The inductive invariant: the history of the head is a sequence of places as
\* long as three segments or longer.
SnakeInv ==
    /\ SnakeSound
    /\ trail \in Seq(Around) /\ Len(trail) >= 3

\* A move of the head leaves the board by one cell at most.
LEMMA AheadIsNear ==
    ASSUME NEW p \in Cells, snake_dir \in 0 .. 3
    PROVE  Ahead(p) \in Around
  BY SnakeAssumption DEF Ahead, Cells, Around

\* The history begins with the places of the three segments.
LEMMA TrailStarts == StartTrail \in Seq(Around) /\ Len(StartTrail) >= 3
<1>1. \A i \in 1 .. 3 : [x |-> StartX - (i - 1), y |-> StartY] \in Around
  BY SnakeAssumption DEF Around
<1>2. StartTrail \in [1 .. 3 -> Around]
  BY <1>1 DEF StartTrail
<1>3. StartTrail \in Seq(Around)
  <2>1. 3 \in Nat
    OBVIOUS
  <2> QED BY <1>2, <2>1, SeqDef
<1>4. Len(StartTrail) = 3
  BY <1>2, <1>3, LenProperties
<1> QED BY <1>3, <1>4

LEMMA SnakeStarts ==
    ASSUME SnakeInit
    PROVE  SnakeInv
<1> USE DEF Segments
<1>1. SnakeTypeOK
  <2>1. BOARD_W \in Nat /\ BOARD_H \in Nat /\ StartX \in Nat /\ StartY \in Nat
        /\ MaxLen \in Nat /\ MaxLen >= 3 /\ StartX >= 2
    BY SnakeAssumption
  <2>2. \A i \in 1 .. MaxLen : snake_body[i] \in Around
    BY <2>1, SnakeAssumption DEF SnakeInit, StartBody, Around
  <2>3. snake_body = [i \in 1 .. MaxLen |-> snake_body[i]]
    BY DEF SnakeInit, StartBody
  <2>4. snake_body \in [1 .. MaxLen -> Around]
    BY <2>2, <2>3
  <2>5. snake_len \in 3 .. MaxLen /\ snake_dir \in 0 .. 3
    BY <2>1 DEF SnakeInit
  <2>6. food \in Cells /\ game_over \in BOOLEAN /\ due \in BOOLEAN
    BY DEF SnakeInit
  <2> QED BY <2>4, <2>5, <2>6 DEF SnakeTypeOK, Cells
<1>2. BodyIsTrail
  BY SnakeAssumption DEF SnakeInit, BodyIsTrail, StartBody, StartTrail
<1>3. AliveMeansFree
  BY SnakeAssumption DEF SnakeInit, AliveMeansFree, StartBody, Cells
<1>4. trail \in Seq(Around) /\ Len(trail) >= 3
  BY TrailStarts DEF SnakeInit
<1> QED BY <1>1, <1>2, <1>3, <1>4 DEF SnakeInv, SnakeSound

\* A restart brings back the first three segments.
LEMMA SnakeRestarts ==
    ASSUME SnakeInv, Restart
    PROVE  SnakeInv'
<1> USE DEF Segments
<1>1. SnakeTypeOK'
  <2>1. BOARD_W \in Nat /\ BOARD_H \in Nat /\ StartX \in Nat /\ StartY \in Nat
        /\ MaxLen \in Nat /\ MaxLen >= 3 /\ StartX >= 2
        /\ StartX < BOARD_W /\ StartY < BOARD_H
    BY SnakeAssumption
  <2>2. ASSUME NEW i \in 1 .. MaxLen PROVE snake_body'[i] \in Around
    <3>1. snake_body[i] \in Around
      BY DEF SnakeInv, SnakeSound, SnakeTypeOK
    <3>2. snake_body'[i] = IF i <= 3 THEN [x |-> StartX - (i - 1), y |-> StartY]
                           ELSE snake_body[i]
      BY DEF Restart, StartBody
    <3>3. i <= 3 => StartX - (i - 1) \in -1 .. BOARD_W /\ StartY \in -1 .. BOARD_H
      BY <2>1
    <3> QED BY <3>1, <3>2, <3>3 DEF Around
  <2>3. snake_body' = [i \in 1 .. MaxLen |-> snake_body'[i]]
    BY DEF Restart, StartBody
  <2>4. snake_body' \in [1 .. MaxLen -> Around]
    BY <2>2, <2>3
  <2>5. snake_len' \in 3 .. MaxLen /\ snake_dir' \in 0 .. 3
    BY <2>1 DEF Restart
  <2>6. food' \in Cells /\ game_over' \in BOOLEAN /\ due' \in BOOLEAN
    BY DEF Restart
  <2> QED BY <2>4, <2>5, <2>6 DEF SnakeTypeOK, Cells
<1>2. BodyIsTrail'
  BY SnakeAssumption DEF Restart, BodyIsTrail, StartBody, StartTrail
<1>3. AliveMeansFree'
  BY SnakeAssumption DEF Restart, AliveMeansFree, StartBody, Cells
<1>4. trail' \in Seq(Around) /\ Len(trail') >= 3
  BY TrailStarts DEF Restart
<1> QED BY <1>1, <1>2, <1>3, <1>4 DEF SnakeInv, SnakeSound

\* What a move adds to the history: the head in front, the oldest place gone
\* when there is no segment that could stand on it.
LEMMA TrailGrows ==
    ASSUME NEW t \in Seq(Around), NEW p \in Around, Len(t) >= 3,
           NEW m \in Nat, m >= 3
    PROVE  LET kept == IF Len(t) < m THEN Len(t) ELSE m - 1
               new  == <<p>> \o SubSeq(t, 1, kept)
           IN  /\ new \in Seq(Around) /\ Len(new) = kept + 1 /\ Len(new) >= 3
               /\ new[1] = p
               /\ \A i \in 2 .. kept + 1 : new[i] = t[i - 1]
<1> DEFINE kept == IF Len(t) < m THEN Len(t) ELSE m - 1
           cut  == SubSeq(t, 1, kept)
           new  == <<p>> \o cut
<1>1. kept \in Nat /\ kept <= Len(t) /\ kept >= 2
  OBVIOUS
<1> HIDE DEF kept
<1>2. cut \in Seq(Around) /\ Len(cut) = kept /\ \A i \in 1 .. kept : cut[i] = t[i]
  BY <1>1
<1> HIDE DEF cut
<1>3. new \in Seq(Around) /\ Len(new) = kept + 1 /\ new[1] = p
  BY <1>1, <1>2
<1>4. \A i \in 2 .. kept + 1 : new[i] = cut[i - 1]
  BY <1>1, <1>2
<1>5. \A i \in 2 .. kept + 1 : new[i] = t[i - 1]
  BY <1>1, <1>2, <1>4
<1> QED BY <1>1, <1>3, <1>5 DEF kept, cut

\* The only step that may hit something ends the game when it does.
LEMMA SnakeMoves ==
    ASSUME SnakeInv, Move
    PROVE  SnakeInv'
<1> DEFINE head == Ahead(snake_body[1])
           body == Shifted(head)
           len  == IF Eats(body) THEN Grown ELSE snake_len
<1> USE DEF Segments
<1>1. /\ MaxLen \in Nat /\ MaxLen >= 3 /\ snake_len \in 3 .. MaxLen
      /\ snake_body \in [1 .. MaxLen -> Around] /\ snake_dir \in 0 .. 3
      /\ food \in Cells
  BY SnakeAssumption DEF SnakeInv, SnakeSound, SnakeTypeOK, Around
<1>2. snake_body[1] \in Cells
  BY DEF SnakeInv, SnakeSound, AliveMeansFree, Move
<1>3. head \in Around
  BY <1>1, <1>2, AheadIsNear DEF Around
<1> HIDE DEF head
<1>4. /\ body \in [1 .. MaxLen -> Around] /\ body[1] = head
      /\ \A i \in 2 .. snake_len : body[i] = snake_body[i - 1]
  <2>1. body = [i \in 1 .. MaxLen |-> body[i]]
    BY DEF Shifted
  <2>2. \A i \in 1 .. MaxLen : body[i] \in Around
    BY <1>1, <1>3 DEF Shifted
  <2>3. body[1] = head /\ \A i \in 2 .. snake_len : body[i] = snake_body[i - 1]
    BY <1>1 DEF Shifted
  <2> QED BY <2>1, <2>2, <2>3
<1>5. /\ snake_body' = body /\ game_over' = Collides(body)
      /\ snake_len' = len
      /\ food' \in Cells /\ due' = FALSE /\ snake_dir' = snake_dir
      /\ trail' = <<body[1]>> \o SubSeq(trail, 1, IF Len(trail) < MaxLen THEN Len(trail)
                                                  ELSE MaxLen - 1)
  BY <1>1 DEF Move, head
<1>6. len \in 3 .. MaxLen /\ len <= snake_len + 1
  BY <1>1 DEF Grown
<1> HIDE DEF body, len
<1> DEFINE kept == IF Len(trail) < MaxLen THEN Len(trail) ELSE MaxLen - 1
<1>7. trail \in Seq(Around) /\ Len(trail) >= 3 /\ head \in Around
  BY <1>3 DEF SnakeInv
<1>8. /\ trail' \in Seq(Around) /\ Len(trail') = kept + 1 /\ Len(trail') >= 3
      /\ trail'[1] = head
      /\ \A i \in 2 .. kept + 1 : trail'[i] = trail[i - 1]
  BY <1>1, <1>4, <1>5, <1>7, TrailGrows
<1>9. kept \in Nat /\ kept <= Len(trail)
  BY <1>1, <1>7
<1> HIDE DEF kept
<1>10. SnakeTypeOK'
  BY <1>1, <1>4, <1>5, <1>6 DEF SnakeTypeOK, Around, Collides
<1>11. BodyIsTrail'
  <2> SUFFICES ASSUME NEW i \in 1 .. len - 1, i <= Len(trail')
               PROVE  snake_body'[i] = trail'[i]
    BY <1>5 DEF BodyIsTrail
  <2>1. CASE i = 1
    BY <2>1, <1>4, <1>5, <1>8
  <2>2. CASE i # 1
    <3>1. snake_len \in Nat /\ len \in Nat /\ i \in Nat /\ Len(trail) \in Nat
      BY <1>1, <1>6, <1>7
    <3>2. i \in 2 .. snake_len /\ i - 1 \in 1 .. snake_len - 1
      BY <2>2, <3>1, <1>1, <1>6
    <3>3. i \in 2 .. kept + 1 /\ i - 1 <= Len(trail)
      BY <2>2, <3>1, <1>8, <1>9
    <3>4. snake_body[i - 1] = trail[i - 1]
      BY <3>2, <3>3 DEF SnakeInv, SnakeSound, BodyIsTrail
    <3> QED BY <3>2, <3>3, <3>4, <1>4, <1>5, <1>8
  <2> QED BY <2>1, <2>2
<1>12. AliveMeansFree'
  <2> SUFFICES ASSUME ~Collides(body)
               PROVE  /\ body[1] \in Cells
                      /\ \A i \in 2 .. len - 1 : body[i] # body[1]
    BY <1>5 DEF AliveMeansFree
  <2>1. \A i \in 2 .. len - 1 : i \in 2 .. snake_len
    BY <1>1, <1>6
  <2> QED BY <2>1 DEF Collides
<1> QED BY <1>8, <1>10, <1>11, <1>12 DEF SnakeInv, SnakeSound

\* apps/snake.c, on a board of every size: each segment stands where the head
\* stood that many moves ago, and as long as the game goes on the head is on
\* the board and on no other segment.
THEOREM SnakeFollowsItsHead == SnakeSpec => []SnakeSound
<1>1. SnakeInit => SnakeInv
  BY SnakeStarts
<1>2. SnakeInv /\ [SnakeNext]_snakeVars => SnakeInv'
  <2> SUFFICES ASSUME SnakeInv, [SnakeNext]_snakeVars
               PROVE  SnakeInv'
    OBVIOUS
  <2> USE DEF SnakeInv, SnakeSound, SnakeTypeOK, BodyIsTrail,
              AliveMeansFree
  <2>1. ASSUME NEW dir \in 0 .. 3, Turn(dir) PROVE SnakeInv'
    BY <2>1 DEF Turn
  <2>2. CASE Restart
    BY <2>2, SnakeRestarts
  <2>3. CASE Ticks
    BY <2>3 DEF Ticks
  <2>4. CASE Move
    BY <2>4, SnakeMoves
  <2>5. CASE UNCHANGED snakeVars
    BY <2>5 DEF snakeVars
  <2> QED BY <2>1, <2>2, <2>3, <2>4, <2>5 DEF SnakeNext
<1>3. SnakeInv => SnakeSound
  BY DEF SnakeInv
<1> QED BY <1>1, <1>2, <1>3, PTL DEF SnakeSpec

-----------------------------------------------------------------------------
(* The packets of the mouse. *)

\* While the desktop is not left the bytes on the wire are the rest of the
\* packet, and the assembly holds what it has read of it.
RestOfPacket ==
    LET b == Bytes(packet) IN
    \/ wire = <<>> /\ mouse_cycle = 0
    \/ wire = b /\ mouse_cycle = 0
    \/ wire = <<b[2], b[3]>> /\ mouse_cycle = 1 /\ mouse_byte0 = b[1]
    \/ wire = <<b[3]>> /\ mouse_cycle = 2 /\ mouse_byte0 = b[1] /\ mouse_byte1 = b[2]

\* The inductive invariant.
PacketInv ==
    /\ MouseTypeOK /\ wire \in Seq(0 .. 255)
    /\ mouse_leaves = 0 => RestOfPacket
    /\ ActsOnWhatWasSent

LEMMA MovesAreSmall == \A d \in Moves : d \in -255 .. 255
<1>1. \A d \in Steps : d \in 0 .. 255
  BY MouseAssumption
<1> QED BY <1>1 DEF Moves

\* A movement is its low byte and its sign.
LEMMA LowByte ==
    ASSUME NEW d \in -255 .. 255
    PROVE  /\ d % 256 \in 0 .. 255
           /\ (IF d < 0 THEN (d % 256) - 256 ELSE d % 256) = d
<1>1. d % 256 \in 0 .. 255
  OBVIOUS
<1>2. CASE d < 0
  <2>1. d % 256 = d + 256
    BY <1>2
  <2> QED
    BY <1>2, <2>1
<1>3. CASE ~(d < 0)
  <2>1. d % 256 = d
    BY <1>3
  <2> QED
    BY <1>3, <2>1
<1> QED
  BY <1>1, <1>2, <1>3

\* The three bytes of a packet: what they are, and what each of them says.
LEMMA BytesSay ==
    ASSUME NEW p \in Packets
    PROVE  LET b == Bytes(p) IN
           /\ b \in Seq(0 .. 255) /\ Len(b) = 3
           /\ Bit(b[1], 3)
           /\ Bit(b[1], 0) = p.left
           /\ Movement(b[2], Bit(b[1], 4)) = p.dx
           /\ Movement(b[3], Bit(b[1], 5)) = p.dy
<1> DEFINE l  == If(p.left, 1)
           sx == If(p.dx < 0, 16)
           sy == If(p.dy < 0, 32)
           b1 == 8 + l + sx + sy
           b  == <<b1, p.dx % 256, p.dy % 256>>
<1>1. p.dx \in -255 .. 255 /\ p.dy \in -255 .. 255 /\ p.left \in BOOLEAN
  BY MovesAreSmall DEF Packets
<1>2. l \in {0, 1} /\ sx \in {0, 16} /\ sy \in {0, 32}
  BY DEF If
<1>3. l = 1 <=> p.left
  BY <1>1 DEF If
<1>4. (sx = 16 <=> p.dx < 0) /\ (sy = 32 <=> p.dy < 0)
  BY DEF If
<1> HIDE DEF l, sx, sy
<1>5. b1 \in 0 .. 255 /\ b1 \in Nat
  BY <1>2
<1>6. 2 ^ 0 = 1 /\ 2 ^ 3 = 8 /\ 2 ^ 4 = 16 /\ 2 ^ 5 = 32
  OBVIOUS
<1>7. /\ (b1 \div 8) % 2 = 1
      /\ (b1 \div 1) % 2 = 1 <=> l = 1
      /\ (b1 \div 16) % 2 = 1 <=> sx = 16
      /\ (b1 \div 32) % 2 = 1 <=> sy = 32
  BY <1>2
<1> HIDE DEF b1
<1>8. /\ Bit(b1, 3)
      /\ Bit(b1, 0) = (l = 1)
      /\ Bit(b1, 4) = (sx = 16)
      /\ Bit(b1, 5) = (sy = 32)
  BY <1>6, <1>7 DEF Bit
<1>9. p.dx % 256 \in 0 .. 255 /\ p.dy % 256 \in 0 .. 255
  BY <1>1, LowByte
<1>10. /\ (IF p.dx < 0 THEN (p.dx % 256) - 256 ELSE p.dx % 256) = p.dx
       /\ (IF p.dy < 0 THEN (p.dy % 256) - 256 ELSE p.dy % 256) = p.dy
  BY <1>1, LowByte
<1>11. Bytes(p) = b
  BY DEF Bytes, b1, l, sx, sy
<1>12. b \in Seq(0 .. 255) /\ Len(b) = 3
       /\ b[1] = b1 /\ b[2] = p.dx % 256 /\ b[3] = p.dy % 256
  BY <1>5, <1>9
<1>13. Bit(b1, 0) = p.left
  BY <1>1, <1>3, <1>8
<1> HIDE DEF b
<1>14. /\ Movement(b[2], Bit(b[1], 4)) = p.dx
       /\ Movement(b[3], Bit(b[1], 5)) = p.dy
  <2>1. (Bit(b1, 4) <=> p.dx < 0) /\ (Bit(b1, 5) <=> p.dy < 0)
    BY <1>4, <1>8
  <2> QED BY <1>10, <1>12, <2>1 DEF Movement
<1> QED BY <1>8, <1>11, <1>12, <1>13, <1>14

\* Every speed moves the pointer by a number, and there and back again.
LEMMA SpeedsAreFair ==
    ASSUME settings_mouse_speed \in 0 .. 2
    PROVE  \A d \in Int : Scaled(d) \in Int /\ Scaled(d) + Scaled(-d) = 0
<1> SUFFICES ASSUME NEW d \in Int
             PROVE  Scaled(d) \in Int /\ Scaled(d) + Scaled(-d) = 0
  OBVIOUS
<1>1. Half(d) \in Int /\ Half(d) + Half(-d) = 0
  BY DEF Half
<1>2. settings_mouse_speed = 0 \/ settings_mouse_speed = 1 \/ settings_mouse_speed = 2
  OBVIOUS
<1> QED BY <1>1, <1>2 DEF Scaled

LEMMA MouseStarts ==
    ASSUME MouseInit
    PROVE  PacketInv
<1>1. MouseTypeOK
  <2>1. packet \in Packets /\ Len(wire) = 0
    BY DEF MouseInit
  <2> QED BY <2>1, MouseAssumption DEF MouseInit, MouseTypeOK
<1> QED BY <1>1 DEF MouseInit, PacketInv, RestOfPacket, ActsOnWhatWasSent

\* A byte is read: it is the next one of the packet, and the third of them
\* completes the packet the mouse sent.
LEMMA ByteIsRead ==
    ASSUME PacketInv, MouseByte
    PROVE  PacketInv'
<1> DEFINE b == Bytes(packet)
           data == Head(wire)
<1>1. /\ wire \in Seq(0 .. 255) /\ wire # <<>> /\ Len(wire) \in 0 .. 3
      /\ wire' = Tail(wire) /\ mouse_leaves' = mouse_leaves /\ packet' = packet
      /\ settings_mouse_speed' = settings_mouse_speed
      /\ packet \in Packets
  BY DEF PacketInv, MouseTypeOK, MouseByte
<1>2. /\ data \in 0 .. 255 /\ wire' \in Seq(0 .. 255) /\ Len(wire') \in 0 .. 3
  <2>1. /\ Tail(wire) \in Seq(0 .. 255) /\ Len(Tail(wire)) = Len(wire) - 1
        /\ Head(wire) \in 0 .. 255
    BY <1>1, HeadTailProperties
  <2> QED BY <1>1, <2>1
<1>3. /\ b \in Seq(0 .. 255) /\ Len(b) = 3
      /\ Bit(b[1], 3)
      /\ Bit(b[1], 0) = packet.left
      /\ Movement(b[2], Bit(b[1], 4)) = packet.dx
      /\ Movement(b[3], Bit(b[1], 5)) = packet.dy
  BY <1>1, BytesSay
<1> HIDE DEF b
<1>4. packet = [dx |-> packet.dx, dy |-> packet.dy, left |-> packet.left]
  BY <1>1 DEF Packets
<1>5. Head(b) = b[1] /\ Tail(b) = <<b[2], b[3]>>
  <2>1. b = <<b[1], b[2], b[3]>>
    BY DEF b, Bytes
  <2>2. \A x, y, z : Head(<<x, y, z>>) = x /\ Tail(<<x, y, z>>) = <<y, z>>
    OBVIOUS
  <2> QED BY <2>1, <2>2
<1>6. /\ Head(<<b[2], b[3]>>) = b[2] /\ Tail(<<b[2], b[3]>>) = <<b[3]>>
      /\ Head(<<b[3]>>) = b[3] /\ Tail(<<b[3]>>) = <<>>
  BY <1>3
<1>7. mouse_leaves = 0 => RestOfPacket
  BY DEF PacketInv
<1>8. /\ mouse_byte0 \in 0 .. 255 /\ mouse_byte1 \in 0 .. 255
       /\ mouse_x \in 0 .. MaxX /\ mouse_y \in 0 .. MaxY
       /\ MaxX \in Nat /\ MaxY \in Nat /\ MaxReturns \in Nat
       /\ last_mouse_buttons \in 0 .. 255 /\ settings_mouse_speed \in 0 .. 2
       /\ parsed \in {"none", "sent", "garbled"}
       /\ mouse_leaves \in 0 .. MaxReturns
  BY MouseAssumption DEF PacketInv, MouseTypeOK
<1> HIDE DEF data
<1>9. ASSUME mouse_cycle' \in 0 .. 2,
              mouse_byte0' \in 0 .. 255, mouse_byte1' \in 0 .. 255,
              mouse_x' \in 0 .. MaxX, mouse_y' \in 0 .. MaxY,
              last_mouse_buttons' \in 0 .. 255,
              parsed' \in {"none", "sent", "garbled"}
       PROVE  MouseTypeOK'
  BY <1>1, <1>2, <1>8, <1>9 DEF MouseTypeOK
<1>10. CASE FirstByte(data)
  <2>1. mouse_cycle = 0 /\ mouse_cycle' \in 0 .. 2 /\ mouse_byte0' \in 0 .. 255
    <3>1. CASE Bit(data, 3)
      BY <1>2, <1>10, <3>1 DEF FirstByte
    <3>2. CASE ~Bit(data, 3)
      BY <1>8, <1>10, <3>2 DEF FirstByte
    <3> QED BY <3>1, <3>2
  <2>2. UNCHANGED <<mouse_byte1, mouse_x, mouse_y, last_mouse_buttons, parsed>>
    BY <1>10 DEF FirstByte
  <2>3. ASSUME mouse_leaves = 0 PROVE RestOfPacket'
    <3>1. wire = b
      BY <1>1, <1>7, <2>1, <2>3 DEF RestOfPacket, b
    <3>2. data = b[1] /\ wire' = <<b[2], b[3]>>
      BY <1>1, <1>5, <3>1 DEF data
    <3>3. mouse_byte0' = b[1] /\ mouse_cycle' = 1
      BY <1>3, <1>10, <3>2 DEF FirstByte
    <3> QED BY <1>1, <3>2, <3>3 DEF RestOfPacket, b
  <2>4. MouseTypeOK'
    BY <1>8, <1>9, <2>1, <2>2
  <2> QED BY <1>1, <1>2, <2>2, <2>3, <2>4 DEF PacketInv, ActsOnWhatWasSent
<1>11. CASE SecondByte(data)
  <2>1. mouse_cycle = 1 /\ mouse_cycle' = 2 /\ mouse_byte1' = data
        /\ UNCHANGED <<mouse_byte0, mouse_x, mouse_y, last_mouse_buttons, parsed>>
    BY <1>11 DEF SecondByte
  <2>2. ASSUME mouse_leaves = 0 PROVE RestOfPacket'
    <3>1. wire = <<b[2], b[3]>> /\ mouse_byte0 = b[1]
      BY <1>7, <2>1, <2>2 DEF RestOfPacket, b
    <3>2. data = b[2] /\ wire' = <<b[3]>>
      BY <1>1, <1>6, <3>1 DEF data
    <3> QED BY <1>1, <2>1, <3>1, <3>2 DEF RestOfPacket, b
  <2>3. MouseTypeOK'
    BY <1>2, <1>8, <1>9, <2>1
  <2> QED BY <1>1, <1>2, <2>1, <2>2, <2>3 DEF PacketInv, ActsOnWhatWasSent
<1>12. CASE ThirdByte(data)
  <2> DEFINE dx == Movement(mouse_byte1, Bit(mouse_byte0, 4))
             dy == Movement(data, Bit(mouse_byte0, 5))
  <2>1. mouse_cycle = 2 /\ mouse_cycle' = 0 /\ last_mouse_buttons' = mouse_byte0
        /\ UNCHANGED <<mouse_byte0, mouse_byte1>>
    BY <1>12 DEF ThirdByte
  <2>2. /\ mouse_x' = Clamp(mouse_x + Scaled(dx), MaxX)
        /\ mouse_y' = Clamp(mouse_y - Scaled(dy), MaxY)
        /\ parsed' = IF [dx |-> dx, dy |-> dy, left |-> Bit(mouse_byte0, 0)] = packet
                     THEN "sent" ELSE "garbled"
    BY <1>12 DEF ThirdByte
  <2>3. ASSUME mouse_leaves = 0 PROVE RestOfPacket' /\ parsed' = "sent"
    <3>1. wire = <<b[3]>> /\ mouse_byte0 = b[1] /\ mouse_byte1 = b[2]
      BY <1>7, <2>1, <2>3 DEF RestOfPacket, b
    <3>2. data = b[3] /\ wire' = <<>>
      BY <1>1, <1>6, <3>1 DEF data
    <3>3. dx = packet.dx /\ dy = packet.dy /\ Bit(mouse_byte0, 0) = packet.left
      BY <1>3, <3>1, <3>2
    <3> HIDE DEF dx, dy
    <3>4. parsed' = "sent"
      BY <1>4, <2>2, <3>3
    <3> QED BY <2>1, <3>2, <3>4 DEF RestOfPacket
  <2>4. dx \in Int /\ dy \in Int
    <3>1. mouse_byte1 \in Int /\ data \in Int
      BY <1>2, <1>8
    <3> QED BY <3>1 DEF Movement
  <2> HIDE DEF dx, dy
  <2>5. Scaled(dx) \in Int /\ Scaled(dy) \in Int
    BY <1>8, <2>4, SpeedsAreFair
  <2>6. mouse_x' \in 0 .. MaxX /\ mouse_y' \in 0 .. MaxY
    <3>1. \A v \in Int : /\ Clamp(v, MaxX) \in 0 .. MaxX
                        /\ Clamp(v, MaxY) \in 0 .. MaxY
      BY <1>8 DEF Clamp
    <3>2. mouse_x + Scaled(dx) \in Int /\ mouse_y - Scaled(dy) \in Int
      BY <1>8, <2>5
    <3> QED BY <2>2, <3>1, <3>2
  <2>7. parsed' \in {"none", "sent", "garbled"}
    BY <2>2
  <2>8. MouseTypeOK'
    BY <1>8, <1>9, <2>1, <2>6, <2>7
  <2>9. mouse_leaves' = 0 => RestOfPacket' /\ parsed' # "garbled"
    BY <1>1, <2>3
  <2> QED BY <1>2, <2>8, <2>9 DEF PacketInv, ActsOnWhatWasSent
<1> QED BY <1>10, <1>11, <1>12 DEF MouseByte, data

\* kernel/desktop.c and drivers/mouse.c, for every screen and every movement of
\* up to 255: as long as the desktop is not left, the assembly stays in step
\* with the mouse, what it acts upon is what the mouse sent, and at every speed
\* a movement and its opposite cancel.
THEOREM PointerFollowsMouse == MouseSpec => []PacketsSound
<1>1. MouseInit => PacketInv
  BY MouseStarts
<1>2. PacketInv /\ [MouseNext]_mouseVars => PacketInv'
  <2> SUFFICES ASSUME PacketInv, [MouseNext]_mouseVars
               PROVE  PacketInv'
    OBVIOUS
  <2>1. ASSUME NEW p \in Packets, MouseSends(p) PROVE PacketInv'
    <3>1. Bytes(p) \in Seq(0 .. 255) /\ Len(Bytes(p)) = 3
      BY BytesSay
    <3>2. wire = <<>> /\ wire' = Bytes(p) /\ packet' = p
          /\ UNCHANGED <<mouse_cycle, mouse_byte0, mouse_byte1, mouse_x, mouse_y,
                         last_mouse_buttons, settings_mouse_speed, parsed, mouse_leaves>>
      BY <2>1 DEF MouseSends
    <3>3. MouseTypeOK'
      BY <3>1, <3>2 DEF PacketInv, MouseTypeOK
    <3>4. ASSUME mouse_leaves = 0 PROVE RestOfPacket'
      <4>1. \A m, n : <<m>> # <<>> /\ <<m, n>> # <<>>
        OBVIOUS
      <4>2. Bytes(packet) # <<>>
        BY BytesSay DEF PacketInv, MouseTypeOK
      <4>3. mouse_cycle = 0
        BY <3>2, <3>4, <4>1, <4>2 DEF PacketInv, RestOfPacket
      <4> QED BY <3>2, <4>3 DEF RestOfPacket
    <3> QED BY <3>1, <3>2, <3>3, <3>4 DEF PacketInv, ActsOnWhatWasSent
  <2>2. CASE MouseByte
    BY <2>2, ByteIsRead
  <2>3. ASSUME NEW s \in 0 .. 2, Apply(s) PROVE PacketInv'
    <3>1. MouseTypeOK'
      BY <2>3 DEF Apply, PacketInv, MouseTypeOK
    <3>2. RestOfPacket => RestOfPacket'
      BY <2>3 DEF Apply, RestOfPacket
    <3> QED BY <2>3, <3>1, <3>2 DEF Apply, PacketInv, ActsOnWhatWasSent
  <2>4. CASE StartAgain
    <3>1. /\ mouse_leaves' \in 0 .. MaxReturns /\ mouse_leaves' # 0
      BY <2>4, MouseAssumption DEF StartAgain, PacketInv, MouseTypeOK
    <3>2. MouseTypeOK'
      BY <2>4, <3>1, MouseAssumption DEF StartAgain, init_mouse, PacketInv, MouseTypeOK
    <3> QED BY <2>4, <3>1, <3>2 DEF StartAgain, PacketInv,
                                    ActsOnWhatWasSent
  <2>5. CASE UNCHANGED mouseVars
    <3>1. MouseTypeOK' /\ (RestOfPacket => RestOfPacket')
      BY <2>5 DEF mouseVars, PacketInv, MouseTypeOK, RestOfPacket
    <3> QED BY <2>5, <3>1 DEF mouseVars, PacketInv, ActsOnWhatWasSent
  <2> QED BY <2>1, <2>2, <2>3, <2>4, <2>5 DEF MouseNext
<1>3. PacketInv => PacketsSound
  <2> SUFFICES ASSUME PacketInv PROVE PacketsSound
    OBVIOUS
  <2>1. InStep
    <3>1. ASSUME mouse_leaves = 0 PROVE (mouse_cycle + Len(wire)) % 3 = 0
      <4> DEFINE b == Bytes(packet)
      <4>1. Len(b) = 3
        BY BytesSay DEF PacketInv, MouseTypeOK
      <4> HIDE DEF b
      <4>2. \A m, n : Len(<<m, n>>) = 2 /\ Len(<<m>>) = 1
        OBVIOUS
      <4>3. \/ Len(wire) = 0 /\ mouse_cycle = 0
            \/ Len(wire) = 3 /\ mouse_cycle = 0
            \/ Len(wire) = 2 /\ mouse_cycle = 1
            \/ Len(wire) = 1 /\ mouse_cycle = 2
        BY <3>1, <4>1, <4>2 DEF PacketInv, RestOfPacket, b
      <4> DEFINE len == Len(wire)
      <4>4. (len = 0 /\ mouse_cycle = 0) \/ (len = 3 /\ mouse_cycle = 0)
            \/ (len = 2 /\ mouse_cycle = 1) \/ (len = 1 /\ mouse_cycle = 2)
        BY <4>3
      <4> HIDE DEF len
      <4>5. (mouse_cycle + len) % 3 = 0
        BY <4>4
      <4> QED BY <4>5 DEF len
    <3> QED BY <3>1 DEF InStep
  <2>2. ThereAndBack
    <3>1. \A d \in Moves : d \in Int
      BY MovesAreSmall
    <3> QED BY <3>1, SpeedsAreFair DEF ThereAndBack, PacketInv, MouseTypeOK
  <2> QED BY <2>1, <2>2 DEF PacketInv, PacketsSound
<1> QED BY <1>1, <1>2, <1>3, PTL DEF MouseSpec
-----------------------------------------------------------------------------
(***************************************************************************)
(* Drawing.  A pixel has one place in the back buffer, so what is colored  *)
(* can be compared pixel by pixel with what should be.                     *)
(***************************************************************************)
Columns == 0 .. VGA_WIDTH - 1
Rows == 0 .. VGA_HEIGHT - 1

\* The inductive invariant.
FrameInv ==
    /\ FrameSound
    /\ DOMAIN screen = 0 .. VGA_LIMIT - 1
    /\ call.op \in {"none", "clear"} => \A o \in Offsets : memory[o] = Black

LEMMA FrameSizes ==
    /\ VGA_WIDTH \in Nat /\ VGA_WIDTH > 0 /\ VGA_HEIGHT \in Nat /\ VGA_HEIGHT > 0
    /\ CELL \in Nat /\ CELL > 0 /\ VGA_LIMIT \in Nat /\ VGA_LIMIT % 4 = 0
<1>1. \A m, n \in Nat : m * n \in Nat
  OBVIOUS
<1> QED
  BY <1>1, GraphicsAssumption DEF VGA_LIMIT

\* The rows of the screen lie within the buffer.
LEMMA RowPlace ==
    ASSUME NEW r \in Rows
    PROVE  /\ r * VGA_WIDTH \in Nat
           /\ r * VGA_WIDTH + VGA_WIDTH <= VGA_LIMIT
<1>1. PICK z \in Nat : VGA_HEIGHT = r + 1 + z
  BY FrameSizes DEF Rows
<1>2. \A w \in Nat : w * (r + 1 + z) = r * w + w + z * w /\ z * w >= 0 /\ r * w >= 0
  BY DEF Rows
<1>3. r * VGA_WIDTH \in Nat
  BY FrameSizes DEF Rows
<1> QED
  BY <1>1, <1>2, <1>3, FrameSizes DEF VGA_LIMIT

LEMMA PixelPlace ==
    ASSUME NEW px \in Columns, NEW py \in Rows
    PROVE  py * VGA_WIDTH + px \in 0 .. VGA_LIMIT - 1
<1> DEFINE b == py * VGA_WIDTH
<1>1. b \in Nat /\ b + VGA_WIDTH <= VGA_LIMIT
  BY RowPlace
<1> HIDE DEF b
<1>2. b + px \in 0 .. VGA_LIMIT - 1
  BY <1>1, FrameSizes DEF Columns
<1> QED
  BY <1>2 DEF b

\* Two pixels in one place are one.
LEMMA PixelsDiffer ==
    ASSUME NEW d \in Nat, NEW p \in 0 .. d - 1, NEW q \in 0 .. d - 1,
           NEW r \in Int, NEW s \in Int, r * d + p = s * d + q
    PROVE  r = s /\ p = q
<1>1. ASSUME NEW a \in Int, NEW b \in Int, NEW i \in 0 .. d - 1, NEW j \in 0 .. d - 1,
             a * d + i = b * d + j, a < b
      PROVE  FALSE
  <2>1. PICK z \in Nat : b = a + 1 + z
    BY <1>1
  <2>2. b * d = a * d + d + z * d /\ z * d >= 0
    BY <2>1
  <2>3. a * d \in Int /\ b * d \in Int /\ z * d \in Int
    OBVIOUS
  <2> QED
    BY <1>1, <2>2, <2>3
<1>2. r = s
  BY <1>1
<1>3. r * d \in Int
  OBVIOUS
<1> QED
  BY <1>2, <1>3

\* What Clipped leaves of a side is its part within the limit.
LEMMA ClippedIs ==
    ASSUME NEW start \in Int, NEW length \in Int, NEW limit \in Nat
    PROVE  LET c == Clipped(start, length, limit) IN
           /\ c.start \in Nat /\ c.length \in Int
           /\ c.start + c.length <= limit
           /\ \A i \in 0 .. limit - 1 :
                 i \in start .. start + length - 1 <=> i \in c.start .. c.start + c.length - 1
  BY DEF Clipped, Max2, Min2

\* A row of a rectangle, when it lies on the screen, is not cut at the end of
\* the buffer.
LEMMA RowIs ==
    ASSUME NEW r \in Rows, NEW s \in Columns, NEW n \in Nat, s + n <= VGA_WIDTH
    PROVE  /\ RowOffsets(r * VGA_WIDTH + s, n) \subseteq 0 .. VGA_LIMIT - 1
           /\ \A px \in Columns, py \in Rows :
                 py * VGA_WIDTH + px \in RowOffsets(r * VGA_WIDTH + s, n)
                     <=> py = r /\ px \in s .. s + n - 1
<1> DEFINE b == r * VGA_WIDTH
<1>1. b \in Nat /\ b + VGA_WIDTH <= VGA_LIMIT
  BY RowPlace
<1>2. RowOffsets(b + s, n) = b + s .. b + s + n - 1
  <2> HIDE DEF b
  <2> QED
    BY <1>1, FrameSizes DEF RowOffsets, Min2, Columns
<1>3. b + s .. b + s + n - 1 \subseteq 0 .. VGA_LIMIT - 1
  <2> HIDE DEF b
  <2> QED
    BY <1>1, FrameSizes DEF Columns
<1>4. ASSUME NEW px \in Columns, NEW py \in Rows
      PROVE  py * VGA_WIDTH + px \in b + s .. b + s + n - 1 <=> py = r /\ px \in s .. s + n - 1
  <2> DEFINE o == py * VGA_WIDTH + px
  <2>1. o \in Nat
    BY PixelPlace, FrameSizes
  <2>2. ASSUME o \in b + s .. b + s + n - 1  PROVE py = r /\ px \in s .. s + n - 1
    <3> DEFINE q == o - b
    <3>1. q \in s .. s + n - 1 /\ q \in 0 .. VGA_WIDTH - 1 /\ o = b + q
      <4> HIDE DEF b, o
      <4> QED BY <1>1, <2>1, <2>2, FrameSizes DEF Columns
    <3> HIDE DEF q
    <3>2. py * VGA_WIDTH + px = r * VGA_WIDTH + q
      BY <3>1
    <3>3. py = r /\ px = q
      BY <3>1, <3>2, PixelsDiffer, FrameSizes DEF Rows, Columns
    <3> QED BY <3>1, <3>3
  <2>3. ASSUME py = r, px \in s .. s + n - 1  PROVE o \in b + s .. b + s + n - 1
    <3>1. o = b + px
      BY <2>3
    <3> HIDE DEF b, o
    <3> QED BY <1>1, <2>3, <3>1 DEF Columns
  <2> QED
    BY <2>2, <2>3
<1> QED
  BY <1>2, <1>3, <1>4

(* draw_rect writes the pixels of the rectangle that are on the screen. *)
LEMMA RectCovers ==
    ASSUME NEW x \in Int, NEW y \in Int, NEW width \in Int, NEW height \in Int
    PROVE  /\ RectOffsets(x, y, width, height) \subseteq 0 .. VGA_LIMIT - 1
           /\ \A px \in Columns, py \in Rows :
                 py * VGA_WIDTH + px \in RectOffsets(x, y, width, height)
                     <=> px \in x .. x + width - 1 /\ py \in y .. y + height - 1
<1> DEFINE h == Clipped(x, width, VGA_WIDTH)
           v == Clipped(y, height, VGA_HEIGHT)
           None == h.start >= VGA_WIDTH \/ v.start >= VGA_HEIGHT \/ h.length <= 0 \/ v.length <= 0
<1>1. /\ h.start \in Nat /\ h.length \in Int /\ h.start + h.length <= VGA_WIDTH
      /\ \A px \in Columns : px \in x .. x + width - 1 <=> px \in h.start .. h.start + h.length - 1
  BY ClippedIs, FrameSizes DEF Columns
<1>2. /\ v.start \in Nat /\ v.length \in Int /\ v.start + v.length <= VGA_HEIGHT
      /\ \A py \in Rows : py \in y .. y + height - 1 <=> py \in v.start .. v.start + v.length - 1
  BY ClippedIs, FrameSizes DEF Rows
<1>3. RectOffsets(x, y, width, height) =
        IF None THEN {}
        ELSE UNION {RowOffsets((v.start + r) * VGA_WIDTH + h.start, h.length) : r \in 0 .. v.length - 1}
  BY DEF RectOffsets
<1> HIDE DEF h, v
<1>4. CASE None
  <2>1. \A px \in Columns, py \in Rows :
          ~(px \in h.start .. h.start + h.length - 1 /\ py \in v.start .. v.start + v.length - 1)
    BY <1>1, <1>2, <1>4, FrameSizes DEF Columns, Rows
  <2> QED
    BY <1>1, <1>2, <1>3, <1>4, <2>1
<1>5. CASE ~None
  <2>1. \A r \in 0 .. v.length - 1 : v.start + r \in Rows
    BY <1>2, <1>5, FrameSizes DEF Rows
  <2>2. h.start \in Columns /\ h.length \in Nat
    BY <1>1, <1>5, FrameSizes DEF Columns
  <2>3. \A r \in 0 .. v.length - 1 :
          LET R == RowOffsets((v.start + r) * VGA_WIDTH + h.start, h.length) IN
          /\ R \subseteq 0 .. VGA_LIMIT - 1
          /\ \A px \in Columns, py \in Rows :
                py * VGA_WIDTH + px \in R
                    <=> py = v.start + r /\ px \in h.start .. h.start + h.length - 1
    BY <1>1, <2>1, <2>2, RowIs
  <2>4. ASSUME NEW px \in Columns, NEW py \in Rows
        PROVE  py * VGA_WIDTH + px \in RectOffsets(x, y, width, height)
                 <=> px \in h.start .. h.start + h.length - 1 /\ py \in v.start .. v.start + v.length - 1
    <3> DEFINE o == py * VGA_WIDTH + px
    <3>1. o \in RectOffsets(x, y, width, height)
            <=> \E r \in 0 .. v.length - 1 :
                   o \in RowOffsets((v.start + r) * VGA_WIDTH + h.start, h.length)
      BY <1>3, <1>5
    <3>2. o \in RectOffsets(x, y, width, height)
            <=> \E r \in 0 .. v.length - 1 :
                   py = v.start + r /\ px \in h.start .. h.start + h.length - 1
      BY <2>3, <3>1
    <3>3. (\E r \in 0 .. v.length - 1 : py = v.start + r) <=> py \in v.start .. v.start + v.length - 1
      <4>1. ASSUME py \in v.start .. v.start + v.length - 1
            PROVE  py - v.start \in 0 .. v.length - 1 /\ py = v.start + (py - v.start)
        BY <1>2, <4>1 DEF Rows
      <4>2. \A r \in 0 .. v.length - 1 : v.start + r \in v.start .. v.start + v.length - 1
        BY <1>2
      <4> QED BY <4>1, <4>2
    <3> QED BY <3>2, <3>3
  <2>5. RectOffsets(x, y, width, height) \subseteq 0 .. VGA_LIMIT - 1
    BY <1>3, <1>5, <2>3
  <2> QED
    BY <1>1, <1>2, <2>4, <2>5
<1> QED
  BY <1>4, <1>5

(* A character lights the pixels of its cell that are on the screen and within
   the clip. *)
LEMMA CharCovers ==
    ASSUME NEW x \in Int, NEW y \in Int, NEW c, NEW clip
    PROVE  /\ CharOffsets(x, y, c, clip) \subseteq 0 .. VGA_LIMIT - 1
           /\ \A px \in Columns, py \in Rows :
                 py * VGA_WIDTH + px \in CharOffsets(x, y, c, clip)
                     <=> /\ Lit(c)
                         /\ px \in x .. x + CELL - 1 /\ py \in y .. y + CELL - 1
                         /\ px >= clip.min_x /\ px < clip.max_x
                         /\ py >= clip.min_y /\ py < clip.max_y
<1> DEFINE cell == (x .. x + CELL - 1) \X (y .. y + CELL - 1)
           lit == {p \in cell : Kept(p, clip)}
           place(p) == p[2] * VGA_WIDTH + p[1]
<1>1. Lit(c) => HasGlyph(c)
  BY DEF Lit, HasGlyph
<1>2. CharOffsets(x, y, c, clip) =
        IF ~Lit(c) THEN {} ELSE {o \in {place(p) : p \in lit} : Safe(o)}
  BY <1>1, Zenon DEF CharOffsets
<1>3. \A p \in cell : p[1] \in Int /\ p[2] \in Int /\ p = <<p[1], p[2]>>
  BY FrameSizes
<1>4. \A p \in cell : place(p) \in Int
  <2>1. \A a, b \in Int : a * VGA_WIDTH + b \in Int
    BY FrameSizes
  <2> QED BY <1>3, <2>1
<1>5. \A p \in lit : p[1] \in Columns /\ p[2] \in Rows
  BY <1>3, FrameSizes DEF Kept, Columns, Rows
<1>6. CharOffsets(x, y, c, clip) \subseteq 0 .. VGA_LIMIT - 1
  <2>1. \A o \in Int : Safe(o) => o \in 0 .. VGA_LIMIT - 1
    BY FrameSizes DEF Safe
  <2> HIDE DEF place, cell
  <2> QED BY <1>2, <1>4, <2>1
<1>7. ASSUME NEW px \in Columns, NEW py \in Rows
      PROVE  py * VGA_WIDTH + px \in CharOffsets(x, y, c, clip)
               <=> Lit(c) /\ <<px, py>> \in lit
  <2>1. place(<<px, py>>) = py * VGA_WIDTH + px
    OBVIOUS
  <2>2. Safe(py * VGA_WIDTH + px)
    BY PixelPlace, FrameSizes DEF Safe
  <2>3. ASSUME NEW p \in lit, place(p) = py * VGA_WIDTH + px
        PROVE  p = <<px, py>>
    <3>1. p[1] = px /\ p[2] = py
      BY <1>3, <1>5, <2>3, PixelsDiffer, FrameSizes DEF Columns, Rows
    <3> QED BY <1>3, <3>1
  <2> HIDE DEF place, lit
  <2> QED BY <1>2, <2>1, <2>2, <2>3
<1>8. ASSUME NEW px \in Columns, NEW py \in Rows
      PROVE  <<px, py>> \in lit
               <=> /\ px \in x .. x + CELL - 1 /\ py \in y .. y + CELL - 1
                   /\ px >= clip.min_x /\ px < clip.max_x
                   /\ py >= clip.min_y /\ py < clip.max_y
  BY FrameSizes DEF Kept, Columns, Rows
<1> HIDE DEF lit
<1> QED
  BY <1>6, <1>7, <1>8

\* What text is to light: the pixels of the glyphs within the clip.
LitByText(px, py, x, y, str, clip) ==
    /\ px >= clip.min_x /\ px < clip.max_x
    /\ py >= clip.min_y /\ py < clip.max_y
    /\ py \in y .. y + CELL - 1
    /\ \E i \in DOMAIN str : /\ px \in x + CELL * (i - 1) .. x + CELL * i - 1
                             /\ Lit(str[i])

\* The cells of a text lie side by side.
LEMMA CellsOfText ==
    ASSUME NEW x \in Int, NEW i \in Int
    PROVE  /\ x + CELL * (i - 1) \in Int
           /\ (x + CELL * (i - 1)) + CELL - 1 = x + CELL * i - 1
<1>1. CELL * i \in Int /\ CELL * (i - 1) = CELL * i - CELL
  BY FrameSizes
<1> QED
  BY <1>1, FrameSizes

(* Text lights exactly that, whichever of its characters are looked at, as long
   as those left out lie beside the clip. *)
LEMMA TextCovers ==
    ASSUME NEW x \in Int, NEW y \in Int, NEW str \in Seq(STRING), NEW clip,
           NEW Looked \in SUBSET DOMAIN str,
           \A i \in DOMAIN str \ Looked :
               \A px \in x + CELL * (i - 1) .. x + CELL * i - 1 :
                   ~(px >= clip.min_x /\ px < clip.max_x)
    PROVE  LET text == UNION {CharOffsets(x + CELL * (i - 1), y, str[i], clip) : i \in Looked} IN
           /\ text \subseteq 0 .. VGA_LIMIT - 1
           /\ \A px \in Columns, py \in Rows :
                 py * VGA_WIDTH + px \in text <=> LitByText(px, py, x, y, str, clip)
<1> DEFINE chars(i) == CharOffsets(x + CELL * (i - 1), y, str[i], clip)
           text == UNION {chars(i) : i \in Looked}
<1>1. \A i \in DOMAIN str : i \in Int
  <2>1. DOMAIN str = 1 .. Len(str) /\ Len(str) \in Nat
    BY LenProperties
  <2> QED BY <2>1
<1>2. ASSUME NEW i \in DOMAIN str
      PROVE  /\ chars(i) \subseteq 0 .. VGA_LIMIT - 1
             /\ \A px \in Columns, py \in Rows :
                   py * VGA_WIDTH + px \in chars(i)
                     <=> /\ Lit(str[i])
                         /\ px \in x + CELL * (i - 1) .. x + CELL * i - 1
                         /\ py \in y .. y + CELL - 1
                         /\ px >= clip.min_x /\ px < clip.max_x
                         /\ py >= clip.min_y /\ py < clip.max_y
  <2> DEFINE start == x + CELL * (i - 1)
  <2>1. start \in Int /\ start + CELL - 1 = x + CELL * i - 1
    BY <1>1, CellsOfText
  <2>2. start .. start + CELL - 1 = x + CELL * (i - 1) .. x + CELL * i - 1
    BY <2>1
  <2> HIDE DEF start
  <2>3. /\ CharOffsets(start, y, str[i], clip) \subseteq 0 .. VGA_LIMIT - 1
        /\ \A px \in Columns, py \in Rows :
              py * VGA_WIDTH + px \in CharOffsets(start, y, str[i], clip)
                <=> /\ Lit(str[i])
                    /\ px \in start .. start + CELL - 1
                    /\ py \in y .. y + CELL - 1
                    /\ px >= clip.min_x /\ px < clip.max_x
                    /\ py >= clip.min_y /\ py < clip.max_y
    BY <2>1, CharCovers
  <2>4. chars(i) = CharOffsets(start, y, str[i], clip)
    BY DEF start
  <2> QED BY <2>2, <2>3, <2>4
<1> HIDE DEF chars
<1>3. text \subseteq 0 .. VGA_LIMIT - 1
  BY <1>2
<1>4. ASSUME NEW px \in Columns, NEW py \in Rows
      PROVE  py * VGA_WIDTH + px \in text <=> LitByText(px, py, x, y, str, clip)
  <2>1. py * VGA_WIDTH + px \in text <=> \E i \in Looked : py * VGA_WIDTH + px \in chars(i)
    OBVIOUS
  <2>2. ASSUME NEW i \in Looked, py * VGA_WIDTH + px \in chars(i)
        PROVE  LitByText(px, py, x, y, str, clip)
    BY <1>2, <2>2 DEF LitByText
  <2>3. ASSUME LitByText(px, py, x, y, str, clip)
        PROVE  \E i \in Looked : py * VGA_WIDTH + px \in chars(i)
    <3>1. PICK i \in DOMAIN str : /\ px \in x + CELL * (i - 1) .. x + CELL * i - 1
                                  /\ Lit(str[i])
      BY <2>3 DEF LitByText
    <3>2. i \in Looked
      BY <2>3, <3>1 DEF LitByText
    <3> QED BY <1>2, <2>3, <3>1, <3>2 DEF LitByText
  <2> QED BY <2>1, <2>2, <2>3
<1> QED
  BY <1>3, <1>4 DEF chars

\* Every byte of the buffer belongs to a double word of the loops.
LEMMA WholeBuffer == BytesOf(Dwords) = 0 .. VGA_LIMIT - 1
<1>1. \A o \in 0 .. VGA_LIMIT - 1 : o \div 4 \in 0 .. VGA_LIMIT \div 4 - 1
  BY FrameSizes
<1> QED
  BY <1>1 DEF BytesOf, Dwords

LEMMA BufferIsInMemory ==
    /\ 0 .. VGA_LIMIT - 1 \subseteq Offsets
    /\ \A px \in Columns, py \in Rows : py * VGA_WIDTH + px \in 0 .. VGA_LIMIT - 1
<1>1. Margin \in Nat
  BY FrameSizes DEF Margin
<1> QED
  BY <1>1, PixelPlace, FrameSizes DEF Offsets

LEMMA InitFrame == FrameInit => FrameInv
<1> SUFFICES ASSUME FrameInit PROVE FrameInv
  OBVIOUS
<1>1. call.op = "none" /\ \A o \in Offsets : memory[o] = Black
  BY DEF FrameInit
<1> QED
  BY <1>1 DEF FrameInv, FrameSound, NoStrayWrites, RectIsItsPart, TextIsItsPart,
              ScreenIsTheFrame, FrameInit

LEMMA ClearKeepsFrame == FrameInv /\ clear_backbuffer => FrameInv'
<1> SUFFICES ASSUME FrameInv, clear_backbuffer PROVE FrameInv'
  OBVIOUS
<1>1. call'.op = "clear" /\ screen' = screen
  BY DEF clear_backbuffer
<1>2. \A o \in Offsets : memory'[o] = Black
  BY WholeBuffer DEF clear_backbuffer, Written, FrameInv, FrameSound, NoStrayWrites
<1> QED
  BY <1>1, <1>2 DEF FrameInv, FrameSound, NoStrayWrites, RectIsItsPart, TextIsItsPart,
                    ScreenIsTheFrame

\* What is drawn on a cleared buffer is all there is in it.
LEMMA DrawnIs ==
    ASSUME FrameInv, call.op = "clear", NEW color, NEW offsets,
           offsets \subseteq 0 .. VGA_LIMIT - 1, memory' = Written(offsets, color)
    PROVE  /\ NoStrayWrites'
           /\ \A px \in Columns, py \in Rows :
                 memory'[py * VGA_WIDTH + px]
                   = IF py * VGA_WIDTH + px \in offsets THEN color ELSE Black
<1>1. \A o \in Offsets : memory'[o] = IF o \in offsets THEN color ELSE Black
  BY DEF Written, FrameInv
<1> QED
  BY <1>1, BufferIsInMemory DEF NoStrayWrites

LEMMA RectKeepsFrame ==
    ASSUME FrameInv, call.op = "clear", NEW x \in Int, NEW y \in Int,
           NEW width \in Int, NEW height \in Int, NEW color,
           draw_rect(x, y, width, height, color)
    PROVE  FrameInv'
<1>1. /\ memory' = Written(RectOffsets(x, y, width, height), color) /\ screen' = screen
      /\ call' = [op |-> "rect", x |-> x, y |-> y, width |-> width, height |-> height,
                  color |-> color]
  BY DEF draw_rect
<1>2. /\ call'.op = "rect" /\ call'.x = x /\ call'.y = y /\ call'.width = width
      /\ call'.height = height /\ call'.color = color
  BY <1>1
<1>3. /\ NoStrayWrites'
      /\ \A px \in Columns, py \in Rows :
            memory'[py * VGA_WIDTH + px]
              = IF py * VGA_WIDTH + px \in RectOffsets(x, y, width, height) THEN color ELSE Black
  BY <1>1, RectCovers, DrawnIs
<1>5. \A px \in Columns, py \in Rows :
         memory'[py * VGA_WIDTH + px]
           = IF px \in x .. x + width - 1 /\ py \in y .. y + height - 1 THEN color ELSE Black
  BY <1>3, RectCovers
<1>4. RectIsItsPart'
  BY <1>2, <1>5, Zenon DEF RectIsItsPart, At, Columns, Rows
<1> QED
  BY <1>1, <1>2, <1>3, <1>4
     DEF FrameInv, FrameSound, TextIsItsPart, ScreenIsTheFrame

LEMMA TextKeepsFrame ==
    ASSUME FrameInv, call.op = "clear", NEW x \in Int, NEW y \in Int,
           NEW str \in Seq(STRING), NEW color, NEW clip,
           \/ draw_text_clipped(x, y, str, color, clip)
           \/ draw_text(x, y, str, color) /\ clip = WholeScreen,
           {clip.min_x, clip.max_x} \subseteq Int
    PROVE  FrameInv'
<1> DEFINE text(Looked) == UNION {CharOffsets(x + CELL * (i - 1), y, str[i], clip) : i \in Looked}
<1>1. \E Looked \in SUBSET DOMAIN str :
        /\ memory' = Written(text(Looked), color)
        /\ \A i \in DOMAIN str \ Looked :
              \A px \in x + CELL * (i - 1) .. x + CELL * i - 1 :
                 ~(px >= clip.min_x /\ px < clip.max_x)
  <2>1. CASE draw_text_clipped(x, y, str, color, clip)
    <3> DEFINE Looked == {i \in DOMAIN str : /\ x + CELL * (i - 1) < clip.max_x
                                             /\ ~Skipped(x + CELL * (i - 1), clip)}
    <3>1. memory' = Written(text(Looked), color)
      BY <2>1 DEF draw_text_clipped, TextOffsets
    <3>2. ASSUME NEW i \in DOMAIN str \ Looked,
                 NEW px \in x + CELL * (i - 1) .. x + CELL * i - 1
          PROVE  ~(px >= clip.min_x /\ px < clip.max_x)
      <4> DEFINE start == x + CELL * (i - 1)
      <4>1. i \in Int
        <5>1. DOMAIN str = 1 .. Len(str) /\ Len(str) \in Nat
          BY LenProperties
        <5> QED BY <5>1
      <4>2. start \in Int /\ px \in start .. start + CELL - 1
        BY <4>1, CellsOfText
      <4>3. start >= clip.max_x \/ start + CELL <= clip.min_x
        BY <4>2 DEF Skipped
      <4> HIDE DEF start
      <4> QED BY <4>2, <4>3, FrameSizes
    <3> QED BY <3>1, <3>2
  <2>2. CASE draw_text(x, y, str, color) /\ clip = WholeScreen
    <3>1. memory' = Written(text(DOMAIN str), color)
      BY <2>2 DEF draw_text
    <3> QED BY <3>1
  <2> QED BY <2>1, <2>2
<1>2. PICK Looked \in SUBSET DOMAIN str :
        /\ memory' = Written(text(Looked), color)
        /\ \A i \in DOMAIN str \ Looked :
              \A px \in x + CELL * (i - 1) .. x + CELL * i - 1 :
                 ~(px >= clip.min_x /\ px < clip.max_x)
  BY <1>1
<1>3. /\ text(Looked) \subseteq 0 .. VGA_LIMIT - 1
      /\ \A px \in Columns, py \in Rows :
            py * VGA_WIDTH + px \in text(Looked) <=> LitByText(px, py, x, y, str, clip)
  BY <1>2, TextCovers
<1>4. /\ call'.op = "text" /\ call'.x = x /\ call'.y = y /\ call'.str = str
      /\ call'.clip = clip /\ call'.color = color /\ screen' = screen
  BY DEF draw_text, draw_text_clipped
<1> HIDE DEF text
<1>5. /\ NoStrayWrites'
      /\ \A px \in Columns, py \in Rows :
            memory'[py * VGA_WIDTH + px]
              = IF LitByText(px, py, x, y, str, clip) THEN color ELSE Black
  BY <1>2, <1>3, DrawnIs
<1>6. TextIsItsPart'
  BY <1>4, <1>5 DEF TextIsItsPart, At, LitByText, Columns, Rows
<1> QED
  BY <1>4, <1>5, <1>6
     DEF FrameInv, FrameSound, RectIsItsPart, ScreenIsTheFrame

LEMMA SwapKeepsFrame == FrameInv /\ swap_buffers => FrameInv'
<1> SUFFICES ASSUME FrameInv, swap_buffers PROVE FrameInv'
  OBVIOUS
<1>1. call'.op = "swap" /\ memory' = memory
  BY DEF swap_buffers
<1>2. DOMAIN screen' = 0 .. VGA_LIMIT - 1 /\ \A o \in DOMAIN screen' : screen'[o] = memory'[o]
  BY <1>1, WholeBuffer DEF swap_buffers, Copied, FrameInv
<1> QED
  BY <1>1, <1>2 DEF FrameInv, FrameSound, NoStrayWrites, RectIsItsPart, TextIsItsPart,
                    ScreenIsTheFrame

LEMMA NextFrame == FrameInv /\ [FrameNext]_frameVars => FrameInv'
<1> SUFFICES ASSUME FrameInv, [FrameNext]_frameVars PROVE FrameInv'
  OBVIOUS
<1>1. CASE clear_backbuffer
  BY <1>1, ClearKeepsFrame
<1>2. CASE swap_buffers
  BY <1>2, SwapKeepsFrame
<1>3. ASSUME call.op = "clear", NEW x \in Positions, NEW y \in Positions, NEW color \in Colors,
             \/ \E width, height \in Sizes : draw_rect(x, y, width, height, color)
             \/ \E str \in Texts : draw_text(x, y, str, color)
             \/ \E str \in Texts, clip \in Clips : draw_text_clipped(x, y, str, color, clip)
      PROVE  FrameInv'
  <2>1. x \in Int /\ y \in Int
    BY GraphicsAssumption
  <2>2. ASSUME NEW width \in Sizes, NEW height \in Sizes, draw_rect(x, y, width, height, color)
        PROVE  FrameInv'
    <3>1. width \in Int /\ height \in Int
      BY GraphicsAssumption
    <3> QED BY <1>3, <2>1, <2>2, <3>1, RectKeepsFrame
  <2>3. ASSUME NEW str \in Texts, draw_text(x, y, str, color)  PROVE FrameInv'
    <3>1. str \in Seq(STRING)
      BY GraphicsAssumption
    <3>2. {WholeScreen.min_x, WholeScreen.max_x} \subseteq Int
      BY FrameSizes DEF WholeScreen
    <3> QED BY <1>3, <2>1, <2>3, <3>1, <3>2, TextKeepsFrame
  <2>4. ASSUME NEW str \in Texts, NEW clip \in Clips,
               draw_text_clipped(x, y, str, color, clip)
        PROVE  FrameInv'
    <3>1. str \in Seq(STRING) /\ {clip.min_x, clip.max_x} \subseteq Int
      BY GraphicsAssumption
    <3> QED BY <1>3, <2>1, <2>4, <3>1, TextKeepsFrame
  <2> QED BY <1>3, <2>2, <2>3, <2>4
<1>4. CASE UNCHANGED frameVars
  BY <1>4 DEF frameVars, FrameInv, FrameSound, NoStrayWrites, RectIsItsPart, TextIsItsPart,
              ScreenIsTheFrame, At
<1> QED
  BY <1>1, <1>2, <1>3, <1>4 DEF FrameNext

(* Whatever is drawn, at any position and of any size, its part on the screen
   and within the clip is drawn, pixel by pixel, and nothing else in memory is
   touched (draw_rect, draw_text, draw_text_clipped, swap_buffers). *)
THEOREM DrawingStaysInPlace == FrameSpec => []FrameSound
<1>1. FrameSpec => []FrameInv
  BY InitFrame, NextFrame, PTL DEF FrameSpec
<1>2. FrameInv => FrameSound
  BY DEF FrameInv
<1> QED
  BY <1>1, <1>2, PTL

-----------------------------------------------------------------------------
(***************************************************************************)
(* The terminal.                                                           *)
(***************************************************************************)

(* The inductive invariant.  Nothing in it depends on whether the prefix of the
   arrow keys gets through to the recall list. *)
TermInv ==
    /\ TermTypeOK /\ RecallIsNewestFirst /\ ShowsLastLines
    /\ serial \in 0 .. MaxLines /\ cleared \in 0 .. serial /\ echo \in Nat
    /\ idx < Len(cmd_hist)
    /\ entered \in Seq(Lines)
    /\ command \in CommandNames

LEMMA TermSizes ==
    /\ HISTORY_LINES \in Nat /\ HISTORY_LINES > 6 /\ INPUT_MAX \in Nat
    /\ CMD_HIST_SIZE \in Nat /\ CMD_HIST_SIZE > 0
    /\ MaxLines \in Nat /\ MaxLines >= 4
  BY TerminalAssumption

LEMMA LineIs ==
    ASSUME NEW s \in Lines
    PROVE  s \in Seq(Chars) /\ Len(s) \in Nat /\ Len(s) <= INPUT_MAX
<1>1. PICK n \in 0 .. INPUT_MAX : s \in [1 .. n -> Chars]
  BY DEF Lines
<1>2. n \in Nat
  BY <1>1
<1>3. s \in Seq(Chars)
  BY <1>1, <1>2, SeqDef
<1>4. Len(s) = n
  BY <1>1, <1>2, <1>3, LenProperties
<1> QED BY <1>1, <1>3, <1>4, TermSizes

LEMMA IsALine ==
    ASSUME NEW s \in Seq(Chars), Len(s) <= INPUT_MAX
    PROVE  s \in Lines
<1>1. Len(s) \in 0 .. INPUT_MAX /\ s \in [1 .. Len(s) -> Chars]
  BY LenProperties, TermSizes
<1> QED BY <1>1 DEF Lines

(***************************************************************************)
(* Typing: the line stays a line, and the place in the recall list stays   *)
(* in it.                                                                  *)
(***************************************************************************)
RecallPlaces == -1 .. CMD_HIST_SIZE - 1
LineStates == [input : Lines, idx : RecallPlaces, extended : BOOLEAN]

LEMMA LineStateIs ==
    ASSUME NEW x \in LineStates
    PROVE  x.input \in Lines /\ x.idx \in RecallPlaces /\ x.extended \in BOOLEAN
  BY DEF LineStates

\* The states that keys leave behind.
LEMMA LineRetyped ==
    ASSUME NEW x \in LineStates, NEW l \in Lines, NEW i \in RecallPlaces
    PROVE  LET y == [x EXCEPT !.input = l, !.idx = i] IN y \in LineStates /\ y.idx = i
  BY DEF LineStates

LEMMA PrefixForgotten ==
    ASSUME NEW x \in LineStates
    PROVE  LET y == [x EXCEPT !.extended = FALSE] IN y \in LineStates /\ y.idx = x.idx
  BY DEF LineStates

LEMMA LineRecalled ==
    ASSUME NEW l \in Lines, NEW i \in RecallPlaces
    PROVE  LET y == [input |-> l, idx |-> i, extended |-> FALSE] IN y \in LineStates /\ y.idx = i
  BY DEF LineStates

LEMMA EditedIsALine ==
    ASSUME NEW x \in LineStates, x.idx < Len(cmd_hist), cmd_hist \in Seq(Lines),
           NEW code \in Chars \cup HighBit \cup {"backspace", "up", "down"}
    PROVE  Edited(x, code) \in LineStates /\ Edited(x, code).idx < Len(cmd_hist)
<1> DEFINE line == x.input
<1>1. line \in Lines /\ line \in Seq(Chars) /\ Len(line) <= INPUT_MAX /\ Len(line) \in Nat
  BY LineStateIs, LineIs
<1>2. Len(cmd_hist) \in Nat /\ -1 \in RecallPlaces /\ -1 < Len(cmd_hist)
  BY LenProperties, TermSizes DEF RecallPlaces
<1>3. ASSUME NEW l \in Lines
      PROVE  /\ [x EXCEPT !.input = l, !.idx = -1] \in LineStates
             /\ [x EXCEPT !.input = l, !.idx = -1].idx < Len(cmd_hist)
  BY <1>2, LineRetyped, Zenon
<1>4. CASE code = "backspace"
  <2> DEFINE l == SubSeq(line, 1, Len(line) - 1)
  <2>1. Edited(x, code) = [x EXCEPT !.input = l, !.idx = -1]
    BY <1>4, TerminalAssumption DEF Edited
  <2>2. \A i \in 1 .. Len(line) - 1 : line[i] \in Chars
    BY <1>1, ElementOfSeq
  <2>3. /\ l \in Seq(Chars)
        /\ Len(l) = IF 1 <= Len(line) - 1 THEN (Len(line) - 1) - 1 + 1 ELSE 0
    BY <1>1, <2>2, SubSeqProperties
  <2> HIDE DEF l
  <2>4. Len(l) <= INPUT_MAX
    BY <1>1, <2>3, TermSizes
  <2>5. l \in Lines
    BY <2>3, <2>4, IsALine
  <2> QED BY <1>3, <2>1, <2>5, Zenon
<1>5. CASE code \in Chars
  <2> DEFINE l == IF Len(line) < INPUT_MAX THEN Append(line, code) ELSE line
  <2>1. Edited(x, code) = [x EXCEPT !.input = l, !.idx = -1]
    BY <1>5, TerminalAssumption DEF Edited
  <2>2. Append(line, code) \in Seq(Chars) /\ Len(Append(line, code)) = Len(line) + 1
    BY <1>1, <1>5, AppendProperties
  <2>3. Len(line) < INPUT_MAX => Append(line, code) \in Lines
    <3>1. Len(line) < INPUT_MAX => Len(Append(line, code)) <= INPUT_MAX
      BY <1>1, <2>2, TermSizes
    <3> QED BY <2>2, <3>1, IsALine
  <2>4. l \in Lines
    BY <1>1, <2>3
  <2> HIDE DEF l
  <2> QED BY <1>3, <2>1, <2>4, Zenon
<1>6. CASE code # "backspace" /\ code \notin Chars
  <2>1. Edited(x, code) = x
    BY <1>6 DEF Edited
  <2> QED BY <2>1
<1> QED
  BY <1>4, <1>5, <1>6

LEMMA RecalledIsALine ==
    ASSUME NEW x \in LineStates, x.idx < Len(cmd_hist), cmd_hist \in Seq(Lines),
           Len(cmd_hist) <= CMD_HIST_SIZE, NEW code
    PROVE  Recall(x, code) \in LineStates /\ Recall(x, code).idx < Len(cmd_hist)
<1>1. Len(cmd_hist) \in Nat /\ x.idx \in -1 .. CMD_HIST_SIZE - 1 /\ CMD_HIST_SIZE \in Nat
  BY LenProperties, TermSizes, LineStateIs DEF RecallPlaces
<1>2. \A i \in 1 .. Len(cmd_hist) : cmd_hist[i] \in Lines
  BY ElementOfSeq
<1>3. <<>> \in Lines
  <2> DEFINE s == <<>>
  <2>1. s \in Seq(Chars) /\ Len(s) <= INPUT_MAX
    BY EmptySeq, TermSizes
  <2> HIDE DEF s
  <2>2. s \in Lines
    BY <2>1, IsALine
  <2> QED BY <2>2 DEF s
<1>4. ASSUME NEW l \in Lines, NEW i \in RecallPlaces, i < Len(cmd_hist),
             Recall(x, code) = [input |-> l, idx |-> i, extended |-> FALSE]
      PROVE  Recall(x, code) \in LineStates /\ Recall(x, code).idx < Len(cmd_hist)
  BY <1>4, LineRecalled
<1>5. CASE code = "up" /\ x.idx + 1 < Len(cmd_hist)
  <2>1. Recall(x, code) = [input |-> cmd_hist[x.idx + 2], idx |-> x.idx + 1, extended |-> FALSE]
    BY <1>5 DEF Recall
  <2>2. x.idx + 2 \in 1 .. Len(cmd_hist) /\ x.idx + 1 \in RecallPlaces
    BY <1>1, <1>5 DEF RecallPlaces
  <2> QED BY <1>2, <1>4, <1>5, <2>1, <2>2
<1>6. CASE code = "down" /\ x.idx - 1 >= 0
  <2>1. Recall(x, code) = [input |-> cmd_hist[x.idx], idx |-> x.idx - 1, extended |-> FALSE]
    BY <1>1, <1>6 DEF Recall
  <2>2. x.idx \in 1 .. Len(cmd_hist) /\ x.idx - 1 \in RecallPlaces /\ x.idx - 1 < Len(cmd_hist)
    BY <1>1, <1>6 DEF RecallPlaces
  <2> QED BY <1>2, <1>4, <2>1, <2>2
<1>7. CASE code = "down" /\ ~(x.idx - 1 >= 0)
  <2>1. Recall(x, code) = [input |-> <<>>, idx |-> -1, extended |-> FALSE]
    BY <1>1, <1>7 DEF Recall
  <2>2. -1 \in RecallPlaces /\ -1 < Len(cmd_hist)
    BY <1>1 DEF RecallPlaces
  <2> QED BY <1>3, <1>4, <2>1, <2>2
<1>8. CASE ~(code = "up" /\ x.idx + 1 < Len(cmd_hist)) /\ code # "down"
  <2>1. Recall(x, code) = [x EXCEPT !.extended = FALSE]
    BY <1>8 DEF Recall
  <2> QED BY <2>1, PrefixForgotten
<1> QED
  BY <1>5, <1>6, <1>7, <1>8

LEMMA HandledIsALine ==
    ASSUME NEW x \in LineStates, x.idx < Len(cmd_hist), cmd_hist \in Seq(Lines),
           Len(cmd_hist) <= CMD_HIST_SIZE,
           NEW code \in Chars \cup HighBit \cup {"backspace", "up", "down"}
    PROVE  HandleKey(x, code) \in LineStates /\ HandleKey(x, code).idx < Len(cmd_hist)
<1>1. CASE code \in HighBit
  <2>1. HandleKey(x, code) = [x EXCEPT !.extended = FALSE]
    BY <1>1 DEF HandleKey
  <2> QED BY <2>1, PrefixForgotten
<1>2. CASE code \notin HighBit /\ x.extended
  <2>1. code # "prefix"
    BY <1>2 DEF HighBit
  <2>2. HandleKey(x, code) = Recall(x, code)
    BY <1>2, <2>1 DEF HandleKey
  <2> QED BY <2>2, RecalledIsALine
<1>3. CASE code \notin HighBit /\ ~x.extended
  <2>1. code # "prefix"
    BY <1>3 DEF HighBit
  <2>2. HandleKey(x, code) = Edited(x, code)
    BY <1>3, <2>1 DEF HandleKey
  <2> QED BY <2>2, EditedIsALine
<1> QED
  BY <1>1, <1>2, <1>3

LEMMA TypeKeepsTerm ==
    ASSUME TermInv, NEW code \in Chars \cup HighBit \cup {"backspace", "up", "down"}, Type(code)
    PROVE  TermInv'
<1>1. /\ input \in Lines /\ idx \in RecallPlaces /\ extended \in BOOLEAN
      /\ cmd_hist \in Seq(Lines) /\ Len(cmd_hist) <= CMD_HIST_SIZE /\ idx < Len(cmd_hist)
  BY DEF TermInv, TermTypeOK, RecallPlaces
<1>2. Line \in LineStates /\ Line.idx = idx
  BY <1>1 DEF Line, LineStates
<1> DEFINE y == HandleKey(Line, code)
<1>3. y \in LineStates /\ y.idx < Len(cmd_hist)
  BY <1>1, <1>2, HandledIsALine
<1>4. input' = y.input /\ idx' = y.idx /\ extended' = y.extended
  BY DEF Type
<1>5. UNCHANGED <<cmd_hist, history, halted, serial, cleared, echo, command, entered>>
  BY DEF Type
<1> HIDE DEF y
<1>6. input' \in Lines /\ idx' \in RecallPlaces /\ extended' \in BOOLEAN /\ idx' < Len(cmd_hist)
  BY <1>3, <1>4, LineStateIs
<1>7. TermTypeOK'
  BY <1>5, <1>6 DEF TermInv, TermTypeOK, RecallPlaces
<1> QED
  BY <1>5, <1>6, <1>7 DEF TermInv, RecallIsNewestFirst, ShowsLastLines

(***************************************************************************)
(* The recall list.                                                        *)
(***************************************************************************)
Front(s, n) == SubSeq(s, 1, IF Len(s) < n THEN Len(s) ELSE n)

\* The first of a sequence that something is put in front of: what
\* push_cmd_hist keeps of the list is what the list should be.
LEMMA NewestInFront ==
    ASSUME NEW S, NEW e \in S, NEW s \in Seq(S), NEW n \in Nat, n > 0
    PROVE  LET h == Front(s, n) IN
           /\ h \in Seq(S) /\ Len(h) <= n
           /\ Front(<<e>> \o s, n)
                = IF Len(h) < n THEN <<e>> \o h ELSE <<e>> \o SubSeq(h, 1, n - 1)
<1> DEFINE h == Front(s, n)
           t == <<e>> \o s
<1>1. <<e>> \in Seq(S) /\ Len(<<e>>) = 1 /\ Len(s) \in Nat
  BY LenProperties
<1>2. /\ t \in Seq(S) /\ Len(t) = Len(s) + 1
      /\ \A i \in 1 .. Len(s) + 1 : t[i] = IF i = 1 THEN e ELSE s[i - 1]
  <2>1. /\ t \in Seq(S) /\ Len(t) = Len(<<e>>) + Len(s)
        /\ \A i \in 1 .. Len(<<e>>) + Len(s) :
              t[i] = IF i <= Len(<<e>>) THEN <<e>>[i] ELSE s[i - Len(<<e>>)]
    BY <1>1, ConcatProperties
  <2>2. <<e>>[1] = e
    OBVIOUS
  <2> HIDE DEF t
  <2> QED BY <1>1, <2>1, <2>2
<1> HIDE DEF t
<1>3. CASE Len(s) < n
  <2>1. h = s
    BY <1>3, SubSeqFull DEF Front
  <2>2. Front(t, n) = t
    <3>1. (IF Len(t) < n THEN Len(t) ELSE n) = Len(t)
      BY <1>1, <1>2, <1>3
    <3> QED BY <1>2, <3>1, SubSeqFull DEF Front
  <2> QED BY <1>1, <1>3, <2>1, <2>2 DEF t
<1>4. CASE ~(Len(s) < n)
  <2>1. \A i \in 1 .. n : s[i] \in S
    BY <1>1, <1>4, ElementOfSeq
  <2>2. h = SubSeq(s, 1, n)
    BY <1>4 DEF Front
  <2> HIDE DEF h
  <2>3. h \in Seq(S) /\ Len(h) = n /\ \A i \in 1 .. n : h[i] = s[i]
    <3>1. /\ SubSeq(s, 1, n) \in Seq(S)
          /\ Len(SubSeq(s, 1, n)) = IF 1 <= n THEN n - 1 + 1 ELSE 0
          /\ \A i \in 1 .. n - 1 + 1 : SubSeq(s, 1, n)[i] = s[1 + i - 1]
      BY <2>1, SubSeqProperties
    <3> QED BY <2>2, <3>1
  <2> DEFINE g == SubSeq(h, 1, n - 1)
             left == SubSeq(t, 1, n)
             right == <<e>> \o g
  <2>4. g \in Seq(S) /\ Len(g) = n - 1 /\ \A i \in 1 .. n - 1 : g[i] = s[i]
    <3>1. \A i \in 1 .. n - 1 : h[i] \in S
      BY <2>1, <2>3
    <3>2. /\ g \in Seq(S)
          /\ Len(g) = IF 1 <= n - 1 THEN (n - 1) - 1 + 1 ELSE 0
          /\ \A i \in 1 .. (n - 1) - 1 + 1 : g[i] = h[1 + i - 1]
      BY <3>1, SubSeqProperties
    <3> HIDE DEF g
    <3> QED BY <2>3, <3>2
  <2> HIDE DEF g
  <2>5. right \in Seq(S) /\ Len(right) = n
        /\ \A i \in 1 .. n : right[i] = IF i = 1 THEN e ELSE s[i - 1]
    <3>1. /\ right \in Seq(S) /\ Len(right) = Len(<<e>>) + Len(g)
          /\ \A i \in 1 .. Len(<<e>>) + Len(g) :
                right[i] = IF i <= Len(<<e>>) THEN <<e>>[i] ELSE g[i - Len(<<e>>)]
      BY <1>1, <2>4, ConcatProperties
    <3>2. <<e>>[1] = e
      OBVIOUS
    <3> HIDE DEF right
    <3> QED BY <1>1, <2>4, <3>1, <3>2
  <2>6. left \in Seq(S) /\ Len(left) = n /\ \A i \in 1 .. n : left[i] = t[i]
    <3>1. \A i \in 1 .. n : t[i] \in S
      BY <1>1, <1>2, <1>4, ElementOfSeq
    <3>2. /\ left \in Seq(S)
          /\ Len(left) = IF 1 <= n THEN n - 1 + 1 ELSE 0
          /\ \A i \in 1 .. n - 1 + 1 : left[i] = t[1 + i - 1]
      BY <3>1, SubSeqProperties
    <3> HIDE DEF left
    <3> QED BY <3>2
  <2> HIDE DEF left, right
  <2>7. left = right
    <3>1. ASSUME NEW i \in 1 .. n  PROVE left[i] = right[i]
      <4>1. left[i] = t[i] /\ right[i] = IF i = 1 THEN e ELSE s[i - 1]
        BY <2>5, <2>6
      <4>2. i \in 1 .. Len(s) + 1
        BY <1>1, <1>4
      <4> QED BY <1>2, <4>1, <4>2
    <3> QED BY <2>5, <2>6, <3>1, SeqEqual
  <2>8. Front(t, n) = left
    <3>1. (IF Len(t) < n THEN Len(t) ELSE n) = n
      BY <1>1, <1>2, <1>4
    <3> QED BY <3>1 DEF Front, left
  <2>9. Len(h) <= n /\ ~(Len(h) < n)
    BY <2>3
  <2>10. Front(t, n) = <<e>> \o SubSeq(h, 1, n - 1)
    BY <2>7, <2>8 DEF right, g
  <2>11. Front(t, n) = IF Len(h) < n THEN <<e>> \o h ELSE <<e>> \o SubSeq(h, 1, n - 1)
    BY <2>9, <2>10
  <2> QED BY <2>3, <2>9, <2>11 DEF h, t
<1> QED
  BY <1>3, <1>4

(***************************************************************************)
(* The window.                                                             *)
(***************************************************************************)
LEMMA AnswersFit ==
    ASSUME NEW cmd \in CommandNames, NEW n \in Answer(cmd)
    PROVE  n \in Nat /\ (cmd \notin Listings => n <= 6)
<1>1. DOMAIN NetworkAnswer = {"net", "ethernet", "ipconfig", "arp", "arp_ip", "arp_x"}
  BY DEF NetworkAnswer
<1>2. DOMAIN DiskAnswer = {"files", "apps", "run"}
  BY DEF DiskAnswer
<1>3. DOMAIN OtherAnswer = {"about", "version", "empty", "reboot", "unknown"}
  BY DEF OtherAnswer
<1>4a. DOMAIN SqpkgAnswer = {"sqpkg_update", "sqpkg_search", "sqpkg_install",
                             "sqpkg_remove", "sqpkg_list", "sqpkg"}
  BY DEF SqpkgAnswer
<1>4. /\ MAX_PROCESSES \in Nat /\ ARP_CACHE_SIZE \in Nat /\ APP_NAMES \in Nat
      /\ PACKAGES \in Nat /\ PACKAGE_FILES \in Nat
  BY TerminalAssumption
<1>5. CASE cmd = "help"
  <2>1. Answer(cmd) = HelpAnswer
    BY <1>1, <1>2, <1>3, <1>4a, <1>5 DEF Answer
  <2> QED BY <1>4, <1>5, <2>1 DEF HelpAnswer
<1>6. CASE cmd \in DOMAIN NetworkAnswer
  <2>1. Answer(cmd) = NetworkAnswer[cmd]
    BY <1>1, <1>2, <1>3, <1>4a, <1>6 DEF Answer
  <2> QED BY <1>1, <1>4, <1>6, <2>1 DEF NetworkAnswer, Listings
<1>7. CASE cmd = "ping"
  <2>1. Answer(cmd) = PingAnswer
    BY <1>1, <1>2, <1>3, <1>4a, <1>7 DEF Answer
  <2> QED BY <1>4, <1>7, <2>1 DEF PingAnswer
<1>8. CASE cmd = "paging"
  <2>1. Answer(cmd) = PagingAnswer
    BY <1>1, <1>2, <1>3, <1>4a, <1>8 DEF Answer
  <2> QED BY <1>4, <1>8, <2>1 DEF PagingAnswer
<1>9. CASE cmd = "syscalls"
  <2>1. Answer(cmd) = SyscallAnswer
    BY <1>1, <1>2, <1>3, <1>4a, <1>9 DEF Answer
  <2> QED BY <1>4, <1>9, <2>1 DEF SyscallAnswer
<1>10. CASE cmd = "proc"
  <2>1. Answer(cmd) = ProcessAnswer
    BY <1>1, <1>2, <1>3, <1>4a, <1>10 DEF Answer
  <2> QED BY <1>4, <1>10, <2>1 DEF ProcessAnswer, Listings
<1>11. CASE cmd = "mem"
  <2>1. Answer(cmd) = MemoryAnswer
    BY <1>1, <1>2, <1>3, <1>4a, <1>11 DEF Answer
  <2> QED BY <1>4, <1>11, <2>1 DEF MemoryAnswer
<1>12. CASE cmd \in DOMAIN DiskAnswer
  <2>1. Answer(cmd) = DiskAnswer[cmd]
    BY <1>1, <1>2, <1>3, <1>4a, <1>12 DEF Answer
  <2> QED BY <1>2, <1>4, <1>12, <2>1 DEF DiskAnswer, Listings
<1>13. CASE cmd = "screenshot"
  <2>1. Answer(cmd) = ScreenshotAnswer
    BY <1>1, <1>2, <1>3, <1>4a, <1>13 DEF Answer
  <2> QED BY <1>4, <1>13, <2>1 DEF ScreenshotAnswer
<1>14. CASE cmd = "http"
  <2>1. Answer(cmd) = HttpAnswer
    BY <1>1, <1>2, <1>3, <1>4a, <1>14 DEF Answer
  <2> QED BY <1>4, <1>14, <2>1 DEF HttpAnswer
<1>15. CASE cmd \in DOMAIN OtherAnswer
  <2>1. Answer(cmd) = OtherAnswer[cmd]
    BY <1>1, <1>2, <1>3, <1>4a, <1>15 DEF Answer
  <2> QED BY <1>3, <1>15, <2>1 DEF OtherAnswer
<1>16. CASE cmd = "clear"
  BY <1>1, <1>2, <1>3, <1>4a, <1>16 DEF Answer
<1>17. CASE cmd \in DOMAIN SqpkgAnswer
  <2>1. Answer(cmd) = SqpkgAnswer[cmd]
    BY <1>1, <1>2, <1>3, <1>4a, <1>17 DEF Answer
  <2> QED BY <1>4, <1>4a, <1>17, <2>1 DEF SqpkgAnswer, Listings
<1> QED
  BY <1>1, <1>2, <1>3, <1>4a, <1>17, <1>5, <1>6, <1>7, <1>8, <1>9, <1>10, <1>11, <1>12, <1>13, <1>14,
     <1>15, <1>16 DEF CommandNames

\* Lines appended move the others up.
LEMMA AppendedShows ==
    ASSUME TermInv, NEW k \in Nat, k > 0, serial + k <= MaxLines
    PROVE  /\ Appended(k) \in [1 .. HISTORY_LINES -> 0 .. MaxLines]
           /\ \A i \in 1 .. HISTORY_LINES :
                 LET n == serial + k - HISTORY_LINES + i
                 IN  Appended(k)[i] = IF n > cleared THEN n ELSE 0
<1>1. /\ serial \in 0 .. MaxLines /\ cleared \in 0 .. serial
      /\ history \in [1 .. HISTORY_LINES -> 0 .. MaxLines]
      /\ \A i \in 1 .. HISTORY_LINES :
            history[i] = IF serial - HISTORY_LINES + i > cleared
                         THEN serial - HISTORY_LINES + i ELSE 0
  BY DEF TermInv, TermTypeOK, ShowsLastLines
<1> DEFINE shown(i) == IF i + k <= HISTORY_LINES THEN history[i + k]
                       ELSE serial + i + k - HISTORY_LINES
<1>2. ASSUME NEW i \in 1 .. HISTORY_LINES
      PROVE  /\ shown(i) \in 0 .. MaxLines
             /\ shown(i) = IF serial + k - HISTORY_LINES + i > cleared
                           THEN serial + k - HISTORY_LINES + i ELSE 0
  <2>1. CASE i + k <= HISTORY_LINES
    <3>1. i + k \in 1 .. HISTORY_LINES
      BY <2>1, TermSizes
    <3>2. /\ history[i + k] \in 0 .. MaxLines
          /\ history[i + k] = IF serial - HISTORY_LINES + (i + k) > cleared
                              THEN serial - HISTORY_LINES + (i + k) ELSE 0
      BY <1>1, <3>1
    <3>3. serial - HISTORY_LINES + (i + k) = serial + k - HISTORY_LINES + i
      BY <1>1, TermSizes
    <3> QED BY <2>1, <3>2, <3>3
  <2>2. CASE ~(i + k <= HISTORY_LINES)
    BY <1>1, <2>2, TermSizes
  <2> QED BY <2>1, <2>2
<1>3. Appended(k) = [i \in 1 .. HISTORY_LINES |-> shown(i)]
  BY DEF Appended
<1> HIDE DEF shown
<1> QED
  BY <1>2, <1>3

\* What a command, or another's line, does to the window.
WindowInv ==
    /\ history \in [1 .. HISTORY_LINES -> 0 .. MaxLines]
    /\ ShowsLastLines
    /\ serial \in 0 .. MaxLines /\ cleared \in 0 .. serial /\ echo \in Nat
    /\ command \in CommandNames /\ halted \in BOOLEAN

LEMMA LinesAppended ==
    ASSUME TermInv, NEW k \in Nat, k > 0, serial + k <= MaxLines,
           history' = Appended(k), serial' = serial + k, cleared' = cleared
    PROVE  /\ history' \in [1 .. HISTORY_LINES -> 0 .. MaxLines]
           /\ ShowsLastLines'
           /\ serial' \in 0 .. MaxLines /\ cleared' \in 0 .. serial'
<1>1. serial \in 0 .. MaxLines /\ cleared \in 0 .. serial
  BY DEF TermInv
<1>2. serial + k \in 0 .. MaxLines /\ cleared \in 0 .. serial + k
  BY <1>1, TermSizes
<1>3. Appended(k) \in [1 .. HISTORY_LINES -> 0 .. MaxLines]
  BY AppendedShows
<1>4. \A i \in 1 .. HISTORY_LINES :
        LET n == serial + k - HISTORY_LINES + i
        IN  Appended(k)[i] = IF n > cleared THEN n ELSE 0
  BY AppendedShows
<1>5. \A i \in 1 .. HISTORY_LINES :
        LET n == serial' - HISTORY_LINES + i
        IN  history'[i] = IF n > cleared' THEN n ELSE 0
  <2> SUFFICES ASSUME NEW i \in 1 .. HISTORY_LINES
               PROVE  LET n == serial' - HISTORY_LINES + i
                      IN  history'[i] = IF n > cleared' THEN n ELSE 0
    OBVIOUS
  <2>1. history'[i] = LET n == serial + k - HISTORY_LINES + i
                      IN  IF n > cleared THEN n ELSE 0
    BY <1>4
  <2> QED BY <2>1, <1>1, <1>2, TermSizes
<1>6. ShowsLastLines'
  BY <1>5, Zenon DEF ShowsLastLines
<1> QED
  BY <1>2, <1>3, <1>6

LEMMA ExecuteKeepsWindow ==
    ASSUME TermInv, NEW cmd \in CommandNames, Execute(cmd)
    PROVE  WindowInv'
<1>1. PICK n \in Answer(cmd) :
        /\ serial + 1 + n <= MaxLines
        /\ serial' = serial + 1 + n
        /\ echo' = serial + 1
        /\ command' = cmd
        /\ history' = IF cmd = "clear" THEN Blank ELSE Appended(1 + n)
        /\ cleared' = IF cmd = "clear" THEN serial' ELSE cleared
        /\ halted' = (cmd = "reboot")
  BY DEF Execute
<1>2. n \in Nat /\ serial \in 0 .. MaxLines /\ cleared \in 0 .. serial
  BY AnswersFit DEF TermInv
<1>3. echo' \in Nat /\ command' \in CommandNames /\ halted' \in BOOLEAN
  <2>1. serial + 1 \in Nat
    BY <1>2
  <2> QED BY <1>1, <2>1
<1>4. CASE cmd = "clear"
  <2> DEFINE s == serial + 1 + n
  <2>1. s \in 0 .. MaxLines
    BY <1>1, <1>2, TermSizes
  <2>2. serial' = s /\ cleared' = s /\ history' = Blank
    BY <1>1, <1>4
  <2> HIDE DEF s
  <2>3. history' \in [1 .. HISTORY_LINES -> 0 .. MaxLines]
    BY <2>2, TermSizes DEF Blank
  <2>4. \A i \in 1 .. HISTORY_LINES : ~(s - HISTORY_LINES + i > s) /\ Blank[i] = 0
    BY <2>1, TermSizes DEF Blank
  <2>5. ShowsLastLines'
    BY <2>2, <2>4, Zenon DEF ShowsLastLines
  <2>6. s \in 0 .. s
    BY <2>1
  <2> QED BY <1>3, <2>1, <2>2, <2>3, <2>5, <2>6 DEF WindowInv
<1>5. CASE cmd # "clear"
  <2> DEFINE k == 1 + n
  <2>1. k \in Nat /\ k > 0 /\ serial + k <= MaxLines /\ serial + 1 + n = serial + k
    BY <1>1, <1>2
  <2>2. serial' = serial + k /\ cleared' = cleared /\ history' = Appended(k)
    BY <1>1, <1>5, <2>1
  <2> HIDE DEF k
  <2> QED BY <1>3, <2>1, <2>2, LinesAppended DEF WindowInv
<1> QED
  BY <1>4, <1>5

LEMMA EnterKeepsTerm ==
    ASSUME TermInv, Enter
    PROVE  TermInv'
<1>1. /\ input \in Lines /\ idx \in RecallPlaces
      /\ cmd_hist \in Seq(Lines) /\ Len(cmd_hist) <= CMD_HIST_SIZE /\ idx < Len(cmd_hist)
      /\ entered \in Seq(Lines) /\ cmd_hist = Front(entered, CMD_HIST_SIZE)
  BY DEF TermInv, TermTypeOK, RecallPlaces, RecallIsNewestFirst, Front
<1>2. WindowInv'
  <2>1. Means[input] \in CommandNames
    BY <1>1, TerminalAssumption
  <2> QED BY <2>1, ExecuteKeepsWindow DEF Enter
<1>3. input' = <<>> /\ extended' = FALSE
  BY DEF Enter
<1>4. input' \in Lines
  <2> DEFINE s == <<>>
  <2>1. s \in Seq(Chars) /\ Len(s) <= INPUT_MAX
    BY EmptySeq, TermSizes
  <2> HIDE DEF s
  <2>2. s \in Lines
    BY <2>1, IsALine
  <2> QED BY <1>3, <2>2 DEF s
<1>5. /\ cmd_hist' \in Seq(Lines) /\ Len(cmd_hist') <= CMD_HIST_SIZE
      /\ idx' \in RecallPlaces /\ idx' < Len(cmd_hist')
      /\ entered' \in Seq(Lines) /\ cmd_hist' = Front(entered', CMD_HIST_SIZE)
  <2>1. CASE input = <<>>
    <3>1. UNCHANGED <<cmd_hist, idx, entered>>
      BY <2>1 DEF Enter
    <3> QED BY <1>1, <3>1
  <2>2. CASE input # <<>>
    <3> DEFINE new == <<input>> \o entered
    <3>1. cmd_hist' = push_cmd_hist(input) /\ idx' = -1 /\ entered' = new
      BY <2>2 DEF Enter
    <3>2. Front(new, CMD_HIST_SIZE) = push_cmd_hist(input)
      <4>1. Front(new, CMD_HIST_SIZE)
              = IF Len(cmd_hist) < CMD_HIST_SIZE THEN <<input>> \o cmd_hist
                ELSE <<input>> \o SubSeq(cmd_hist, 1, CMD_HIST_SIZE - 1)
        <5> DEFINE h == Front(entered, CMD_HIST_SIZE)
        <5>1. /\ input \in Lines /\ entered \in Seq(Lines)
              /\ CMD_HIST_SIZE \in Nat /\ CMD_HIST_SIZE > 0
          BY <1>1, TermSizes
        <5>2. Front(new, CMD_HIST_SIZE)
                = IF Len(h) < CMD_HIST_SIZE THEN <<input>> \o h
                  ELSE <<input>> \o SubSeq(h, 1, CMD_HIST_SIZE - 1)
          BY <5>1, NewestInFront, Zenon
        <5>3. h = cmd_hist
          BY <1>1
        <5> HIDE DEF h, new
        <5> QED BY <5>2, <5>3, Zenon
      <4> QED BY <4>1 DEF push_cmd_hist
    <3>3. new \in Seq(Lines)
      <4>1. <<input>> \in Seq(Lines)
        BY <1>1
      <4> QED BY <1>1, <4>1, ConcatProperties
    <3> HIDE DEF new
    <3>4. /\ Front(new, CMD_HIST_SIZE) \in Seq(Lines)
          /\ Len(Front(new, CMD_HIST_SIZE)) <= CMD_HIST_SIZE
      BY <1>1, <3>3, NewestInFront, TermSizes
    <3>5. \A h \in Seq(Lines) : -1 \in RecallPlaces /\ -1 < Len(h)
      BY LenProperties, TermSizes DEF RecallPlaces
    <3> QED BY <3>1, <3>2, <3>3, <3>4, <3>5
  <2> QED BY <2>1, <2>2
<1>6. TermTypeOK'
  BY <1>2, <1>3, <1>4, <1>5 DEF TermTypeOK, WindowInv, RecallPlaces
<1>7. RecallIsNewestFirst'
  BY <1>5 DEF RecallIsNewestFirst, Front
<1> QED
  BY <1>2, <1>5, <1>6, <1>7 DEF TermInv, WindowInv

\* A step that touches the window only.
LEMMA WindowStep ==
    ASSUME TermInv, WindowInv', UNCHANGED <<input, cmd_hist, idx, extended, entered>>
    PROVE  TermInv'
  BY DEF TermInv, TermTypeOK, RecallIsNewestFirst, WindowInv

LEMMA OthersKeepTerm ==
    ASSUME TermInv, OthersAppend
    PROVE  TermInv'
<1>1. /\ serial \in 0 .. MaxLines /\ serial < MaxLines /\ serial' = serial + 1
      /\ history' = Appended(1) /\ cleared' = cleared
      /\ UNCHANGED <<input, cmd_hist, idx, extended, halted, echo, command, entered>>
  BY DEF TermInv, OthersAppend
<1>2. serial + 1 <= MaxLines
  BY <1>1, TermSizes
<1>3. /\ history' \in [1 .. HISTORY_LINES -> 0 .. MaxLines]
      /\ ShowsLastLines'
      /\ serial' \in 0 .. MaxLines /\ cleared' \in 0 .. serial'
  BY <1>1, <1>2, LinesAppended
<1>4. WindowInv'
  BY <1>1, <1>3 DEF WindowInv, TermInv, TermTypeOK
<1> QED
  BY <1>1, <1>4, WindowStep

\* The terminal as it starts: nothing typed, and the greeting in the window.
LEMMA GreetingShows ==
    /\ Greeted \in [1 .. HISTORY_LINES -> 0 .. MaxLines]
    /\ \A i \in 1 .. HISTORY_LINES :
          LET n == Greeting - HISTORY_LINES + i IN Greeted[i] = IF n > 0 THEN n ELSE 0
    /\ Greeting \in 0 .. MaxLines /\ 0 \in 0 .. Greeting
<1>1. \A i \in 1 .. HISTORY_LINES :
        LET g == IF i + Greeting > HISTORY_LINES THEN i + Greeting - HISTORY_LINES ELSE 0
            n == Greeting - HISTORY_LINES + i
        IN  g \in 0 .. MaxLines /\ g = IF n > 0 THEN n ELSE 0
  BY TermSizes DEF Greeting
<1> QED
  BY <1>1, TermSizes DEF Greeted, Greeting

LEMMA NothingTyped ==
    /\ <<>> \in Lines /\ <<>> \in Seq(Lines) /\ Len(<<>>) = 0
    /\ -1 \in RecallPlaces /\ <<>> = Front(<<>>, CMD_HIST_SIZE)
<1> DEFINE s == <<>>
<1>1. s \in Seq(Chars) /\ Len(s) = 0 /\ s \in Seq(Lines)
  BY EmptySeq
<1>2. Front(s, CMD_HIST_SIZE) = s
  BY <1>1, TermSizes, SubSeqEmpty DEF Front
<1>3. -1 \in RecallPlaces
  BY TermSizes DEF RecallPlaces
<1>4. s \in Lines
  <2> HIDE DEF s
  <2>1. Len(s) <= INPUT_MAX
    BY <1>1, TermSizes
  <2> QED BY <1>1, <2>1, IsALine
<1> QED
  BY <1>1, <1>2, <1>3, <1>4

LEMMA InitTerm == TermInit => TermInv
<1> SUFFICES ASSUME TermInit PROVE TermInv
  OBVIOUS
<1>1. "empty" \in CommandNames
  BY DEF CommandNames
<1>2. ShowsLastLines
  BY GreetingShows, Zenon DEF ShowsLastLines, TermInit
<1>3. TermTypeOK
  <2>1. 0 <= CMD_HIST_SIZE
    BY TermSizes
  <2>2. /\ input \in Lines /\ idx \in -1 .. CMD_HIST_SIZE - 1
        /\ history \in [1 .. HISTORY_LINES -> 0 .. MaxLines]
        /\ extended \in BOOLEAN /\ halted \in BOOLEAN
    BY GreetingShows, NothingTyped DEF TermInit, RecallPlaces
  <2>3. cmd_hist \in Seq(Lines) /\ Len(cmd_hist) = 0
    BY NothingTyped DEF TermInit
  <2>4. Len(cmd_hist) <= CMD_HIST_SIZE
    BY <2>1, <2>3
  <2> QED BY <2>2, <2>3, <2>4 DEF TermTypeOK
<1>4. RecallIsNewestFirst
  BY NothingTyped DEF RecallIsNewestFirst, TermInit, Front
<1> QED
  BY <1>1, <1>2, <1>3, <1>4, GreetingShows, NothingTyped DEF TermInv, TermInit

LEMMA StartAgainKeepsTerm ==
    ASSUME TermInv, init_terminal_app
    PROVE  TermInv'
<1>1. "empty" \in CommandNames
  BY DEF CommandNames
<1>2. ShowsLastLines'
  BY GreetingShows, Zenon DEF ShowsLastLines, init_terminal_app
<1>3. TermTypeOK'
  BY GreetingShows, NothingTyped, TermSizes
     DEF TermInv, TermTypeOK, init_terminal_app, RecallPlaces
<1>4. RecallIsNewestFirst'
  BY NothingTyped DEF RecallIsNewestFirst, init_terminal_app, Front
<1> QED
  BY <1>1, <1>2, <1>3, <1>4, GreetingShows, NothingTyped DEF TermInv, init_terminal_app

LEMMA NextTerm == TermInv /\ [TermNext]_terminalVars => TermInv'
<1> SUFFICES ASSUME TermInv, [TermNext]_terminalVars PROVE TermInv'
  OBVIOUS
<1>1. CASE \E code \in Chars \cup HighBit \cup {"backspace", "up", "down"} : Type(code)
  BY <1>1, TypeKeepsTerm
<1>2. CASE Enter
  BY <1>2, EnterKeepsTerm
<1>3. CASE RunFromFiles
  <2>1. "run" \in CommandNames
    BY DEF CommandNames
  <2> QED BY <1>3, <2>1, ExecuteKeepsWindow, WindowStep DEF RunFromFiles
<1>4. CASE OthersAppend
  BY <1>4, OthersKeepTerm
<1>5. CASE init_terminal_app
  BY <1>5, StartAgainKeepsTerm
<1>6. CASE UNCHANGED terminalVars
  BY <1>6 DEF terminalVars, TermInv, TermTypeOK, RecallIsNewestFirst, ShowsLastLines
<1> QED
  BY <1>1, <1>2, <1>3, <1>4, <1>5, <1>6 DEF TermNext

\* An answer of a fixed length is shorter than the window.
LEMMA EchoIsShown == TermInv => EchoStays
<1> SUFFICES ASSUME TermInv, command \notin Listings \cup {"clear", "empty"},
                    echo > cleared, NEW n \in Answer(command), serial = echo + n
             PROVE  \E i \in 1 .. HISTORY_LINES : history[i] = echo
  BY DEF EchoStays
<1>1. n \in Nat /\ n <= 6 /\ echo \in Nat
  BY AnswersFit DEF TermInv
<1> DEFINE i == HISTORY_LINES - n
<1>2. i \in 1 .. HISTORY_LINES /\ serial - HISTORY_LINES + i = echo
  BY <1>1, TermSizes
<1>3. history[i] = echo
  <2> HIDE DEF i
  <2> QED BY <1>2 DEF TermInv, ShowsLastLines
<1> QED
  BY <1>2, <1>3

(* Whatever is typed, recalled, entered and printed by others, the line has room
   for what is in it, the recall list is the newest commands, newest first, the
   window shows the last lines written since it was cleared, and an answer of a
   fixed length leaves its command in sight (terminal_handle_key, push_cmd_hist,
   append_history). *)
THEOREM TerminalShowsTheLast == TermSpec => []TerminalSound
<1>1. TermSpec => []TermInv
  BY InitTerm, NextTerm, PTL DEF TermSpec
<1>2. TermInv => TerminalSound
  BY EchoIsShown DEF TermInv, TerminalSound
<1> QED
  BY <1>1, <1>2, PTL

-----------------------------------------------------------------------------
\* The calculator.  The machine's integers are the integers modulo Range32.
Range32 == 2 * HALF

LEMMA HalfIs == HALF \in Nat /\ HALF > 9 /\ Range32 \in Nat /\ Range32 = 2 * HALF
  BY CalculatorAssumption DEF Range32

LEMMA QuotientIs ==
    ASSUME NEW d \in Nat \ {0}, NEW n \in Int
    PROVE  n \div d \in Int /\ n % d \in 0 .. d - 1 /\ n = d * (n \div d) + (n % d)
  OBVIOUS

LEMMA Int32Is ==
    ASSUME NEW n \in Int
    PROVE  /\ Int32(n) \in -HALF .. HALF - 1
           /\ \E q \in Int : Int32(n) = n + Range32 * q
<1> DEFINE k == n + HALF
           d == k \div Range32
           r == k % Range32
<1>1. k \in Int /\ Range32 \in Nat \ {0}
  BY HalfIs
<1>2. d \in Int /\ r \in 0 .. Range32 - 1 /\ k = Range32 * d + r
  BY <1>1, QuotientIs
<1>3. Int32(n) = r - HALF
  BY DEF Int32, Range32
<1> HIDE DEF d, r
<1>4. Int32(n) \in -HALF .. HALF - 1
  BY <1>2, <1>3, HalfIs
<1>5. Int32(n) = n + Range32 * (-d)
  <2>1. Range32 * (-d) = -(Range32 * d) /\ Range32 * d \in Int
    BY <1>1, <1>2
  <2> QED
    BY <1>1, <1>2, <1>3, <2>1, HalfIs
<1>6. -d \in Int
  BY <1>2
<1> QED
  BY <1>4, <1>5, <1>6

\* Of the integers that agree modulo Range32 the machine has one.
LEMMA OneInRange ==
    ASSUME NEW a \in -HALF .. HALF - 1, NEW b \in -HALF .. HALF - 1,
           NEW q \in Int, a = b + Range32 * q
    PROVE  a = b
<1>1. Range32 \in Nat /\ Range32 = 2 * HALF /\ HALF \in Nat /\ HALF > 9
  BY HalfIs
<1> HIDE DEF Range32
<1>2. a \in Int /\ b \in Int /\ a - b < Range32 /\ a - b > -Range32
  BY <1>1
<1>3. CASE q = 0
  <2>1. Range32 * q = 0
    BY <1>1, <1>3
  <2> QED
    BY <1>2, <2>1
<1>4. CASE q >= 1
  <2>1. Range32 * q >= Range32 /\ Range32 * q \in Int
    BY <1>1, <1>4
  <2> QED
    BY <1>1, <1>2, <2>1
<1>5. CASE q <= -1
  <2>1. Range32 * (-q) >= Range32 /\ Range32 * q = -(Range32 * (-q)) /\ Range32 * q \in Int
    BY <1>1, <1>5
  <2> QED
    BY <1>1, <1>2, <2>1
<1> QED
  BY <1>3, <1>4, <1>5

LEMMA Int32InRange ==
    ASSUME NEW n \in Int, InRange(n)
    PROVE  Int32(n) = n
<1>1. PICK q \in Int : Int32(n) = n + Range32 * q
  BY Int32Is
<1>2. Int32(n) \in -HALF .. HALF - 1 /\ n \in -HALF .. HALF - 1
  BY Int32Is DEF InRange
<1> QED
  BY <1>1, <1>2, OneInRange

-----------------------------------------------------------------------------
\* The number some digits are, and as it is read.
IsValue(v, s) ==
    /\ v \in [0 .. Len(s) -> Nat] /\ v[0] = 0
    /\ \A i \in 1 .. Len(s) : v[i] = v[i - 1] * 10 + s[i]
    /\ Value(s) = v[Len(s)]

IsValue32(v, s) ==
    /\ v \in [0 .. Len(s) -> -HALF .. HALF - 1] /\ v[0] = 0
    /\ \A i \in 1 .. Len(s) : v[i] = Int32(v[i - 1] * 10 + s[i])
    /\ Value32(s) = v[Len(s)]

LEMMA ValueIs ==
    ASSUME NEW s \in Seq(0 .. 9)
    PROVE  \E v : IsValue(v, s)
<1> DEFINE n == Len(s)
           step == [k \in 1 .. n |-> [x \in Nat |-> x * 10 + s[k]]]
           Is(g) == g = [i \in 0 .. n |-> IF i = 0 THEN 0 ELSE g[i - 1] * 10 + s[i]]
           f == CHOOSE g : Is(g)
<1>1. n \in Nat /\ \A k \in 1 .. n : s[k] \in 0 .. 9
  BY LenProperties, ElementOfSeq
<1>2. step \in [1 .. n -> [Nat -> Nat]]
  <2> SUFFICES ASSUME NEW k \in 1 .. n PROVE [x \in Nat |-> x * 10 + s[k]] \in [Nat -> Nat]
    OBVIOUS
  <2>1. s[k] \in Nat
    BY <1>1
  <2> QED
    BY <2>1
<1>3. \A k \in 1 .. n : \A x \in Nat : step[k][x] = x * 10 + s[k]
  OBVIOUS
<1> HIDE DEF step, n
<1>4. PICK g : IsLoop(g, n, Nat, 0, step)
  BY <1>1, <1>2, LoopExists
<1>5. /\ g \in [0 .. n -> Nat] /\ g[0] = 0
      /\ \A k \in 1 .. n : g[k] = g[k - 1] * 10 + s[k]
  <2>1. /\ g \in [0 .. n -> Nat] /\ g[0] = 0
        /\ \A k \in 1 .. n : g[k] = step[k][g[k - 1]]
    BY <1>4 DEF IsLoop
  <2>2. ASSUME NEW k \in 1 .. n PROVE g[k] = g[k - 1] * 10 + s[k]
    <3>1. k - 1 \in 0 .. n
      BY <1>1
    <3> QED
      BY <1>3, <2>1, <3>1
  <2> QED
    BY <2>1, <2>2
<1>6. Is(g)
  <2>1. ASSUME NEW i \in 0 .. n PROVE g[i] = IF i = 0 THEN 0 ELSE g[i - 1] * 10 + s[i]
    <3>1. i # 0 => i \in 1 .. n
      BY <1>1
    <3> QED
      BY <1>5, <3>1
  <2> QED
    BY <1>5, <2>1
<1>7. Is(f)
  <2> HIDE DEF Is
  <2> QED
    BY <1>6
<1>8. Value(s) = f[n]
  BY Zenon DEF Value, n
<1> HIDE DEF f
\* There is one such function.
<1>9. \A i \in 0 .. n : f[i] = IF i = 0 THEN 0 ELSE f[i - 1] * 10 + s[i]
  BY <1>7
<1> DEFINE P == {i \in 0 .. n : f[i] = g[i]}
<1>10. \A i \in 0 .. n : i \in P
  <2>1. 0 \in P
    BY <1>1, <1>5, <1>9
  <2>2. ASSUME NEW i \in 1 .. n, i - 1 \in P PROVE i \in P
    <3>1. i \in 0 .. n /\ i # 0 /\ f[i - 1] = g[i - 1]
      BY <1>1, <2>2
    <3> QED
      BY <1>5, <1>9, <3>1
  <2> HIDE DEF P
  <2> QED
    BY <1>1, <2>1, <2>2, InductionTo
<1>11. Value(s) = g[n]
  <2>1. n \in 0 .. n
    BY <1>1
  <2>2. f[n] = g[n]
    BY <1>10, <2>1
  <2> QED
    BY <1>8, <2>2
<1> QED
  BY <1>5, <1>11 DEF IsValue, n

LEMMA Value32Is ==
    ASSUME NEW s \in Seq(0 .. 9)
    PROVE  \E v : IsValue32(v, s)
<1> DEFINE n == Len(s)
           S == -HALF .. HALF - 1
           step == [k \in 1 .. n |-> [x \in S |-> Int32(x * 10 + s[k])]]
           Is(g) == g = [i \in 0 .. n |-> IF i = 0 THEN 0 ELSE Int32(g[i - 1] * 10 + s[i])]
           f == CHOOSE g : Is(g)
<1>1. n \in Nat /\ \A k \in 1 .. n : s[k] \in 0 .. 9
  BY LenProperties, ElementOfSeq
<1>2. step \in [1 .. n -> [S -> S]] /\ 0 \in S
  <2>1. ASSUME NEW k \in 1 .. n, NEW x \in S PROVE Int32(x * 10 + s[k]) \in S
    <3>1. s[k] \in Int /\ x * 10 + s[k] \in Int
      BY <1>1, HalfIs
    <3> QED
      BY <3>1, Int32Is
  <2>2. 0 \in S
    BY HalfIs
  <2> HIDE DEF S
  <2> QED
    BY <2>1, <2>2
<1>3. \A k \in 1 .. n : \A x \in S : step[k][x] = Int32(x * 10 + s[k])
  OBVIOUS
<1> HIDE DEF step, n, S
<1>4. PICK g : IsLoop(g, n, S, 0, step)
  BY <1>1, <1>2, LoopExists
<1>5. /\ g \in [0 .. n -> S] /\ g[0] = 0
      /\ \A k \in 1 .. n : g[k] = Int32(g[k - 1] * 10 + s[k])
  <2>1. /\ g \in [0 .. n -> S] /\ g[0] = 0
        /\ \A k \in 1 .. n : g[k] = step[k][g[k - 1]]
    BY <1>4 DEF IsLoop
  <2>2. ASSUME NEW k \in 1 .. n PROVE g[k] = Int32(g[k - 1] * 10 + s[k])
    <3>1. k - 1 \in 0 .. n
      BY <1>1
    <3>2. g[k - 1] \in S
      BY <2>1, <3>1
    <3> QED
      BY <1>3, <2>1, <3>2
  <2> QED
    BY <2>1, <2>2
<1>6. Is(g)
  <2>1. ASSUME NEW i \in 0 .. n
        PROVE g[i] = IF i = 0 THEN 0 ELSE Int32(g[i - 1] * 10 + s[i])
    <3>1. i # 0 => i \in 1 .. n
      BY <1>1
    <3> QED
      BY <1>5, <3>1
  <2> QED
    BY <1>5, <2>1
<1>7. Is(f)
  <2> HIDE DEF Is
  <2> QED
    BY <1>6
<1>8. Value32(s) = f[n]
  BY Zenon DEF Value32, n
<1> HIDE DEF f
<1>9. \A i \in 0 .. n : f[i] = IF i = 0 THEN 0 ELSE Int32(f[i - 1] * 10 + s[i])
  BY <1>7
<1> DEFINE P == {i \in 0 .. n : f[i] = g[i]}
<1>10. \A i \in 0 .. n : i \in P
  <2>1. 0 \in P
    BY <1>1, <1>5, <1>9
  <2>2. ASSUME NEW i \in 1 .. n, i - 1 \in P PROVE i \in P
    <3>1. i \in 0 .. n /\ i # 0 /\ f[i - 1] = g[i - 1]
      BY <1>1, <2>2
    <3> QED
      BY <1>5, <1>9, <3>1
  <2> HIDE DEF P
  <2> QED
    BY <1>1, <2>1, <2>2, InductionTo
<1>11. Value32(s) = g[n]
  <2>1. n \in 0 .. n
    BY <1>1
  <2>2. f[n] = g[n]
    BY <1>10, <2>1
  <2> QED
    BY <1>8, <2>2
<1> QED
  BY <1>5, <1>11 DEF IsValue32, n, S

LEMMA ValuesTyped ==
    ASSUME NEW s \in Seq(0 .. 9)
    PROVE  Value(s) \in Nat /\ Value32(s) \in -HALF .. HALF - 1
<1>1. PICK v : IsValue(v, s)
  BY ValueIs
<1>2. PICK w : IsValue32(w, s)
  BY Value32Is
<1>3. Len(s) \in 0 .. Len(s)
  BY LenProperties
<1> QED
  BY <1>1, <1>2, <1>3 DEF IsValue, IsValue32

\* However far the digits exceed the machine's integers, the two agree modulo
\* Range32.
LEMMA ValuesAgree ==
    ASSUME NEW s \in Seq(0 .. 9)
    PROVE  \E q \in Int : Value32(s) = Value(s) + Range32 * q
<1> DEFINE n == Len(s)
<1>1. n \in Nat /\ \A k \in 1 .. n : s[k] \in 0 .. 9
  BY LenProperties, ElementOfSeq
<1>2. PICK v : IsValue(v, s)
  BY ValueIs
<1>3. PICK w : IsValue32(w, s)
  BY Value32Is
<1>4. /\ v \in [0 .. n -> Nat] /\ v[0] = 0 /\ Value(s) = v[n]
      /\ \A i \in 1 .. n : v[i] = v[i - 1] * 10 + s[i]
  BY <1>2 DEF IsValue
<1>5. /\ w \in [0 .. n -> -HALF .. HALF - 1] /\ w[0] = 0 /\ Value32(s) = w[n]
      /\ \A i \in 1 .. n : w[i] = Int32(w[i - 1] * 10 + s[i])
  BY <1>3 DEF IsValue32
<1> HIDE DEF n
<1> DEFINE P == {i \in 0 .. n : \E q \in Int : w[i] = v[i] + Range32 * q}
<1>6. 0 \in P
  <2>1. w[0] = v[0] + Range32 * 0
    BY <1>4, <1>5, HalfIs
  <2> QED
    BY <1>1, <2>1
<1>7. ASSUME NEW i \in 1 .. n, i - 1 \in P PROVE i \in P
  <2>1. PICK q \in Int : w[i - 1] = v[i - 1] + Range32 * q
    BY <1>7
  <2>2. i \in 0 .. n /\ i - 1 \in 0 .. n
    BY <1>1
  <2> DEFINE a == w[i - 1]
             b == v[i - 1]
             c == s[i]
  <2>3. a \in Int /\ b \in Int /\ c \in Int
    <3>1. a \in -HALF .. HALF - 1
      BY <1>5, <2>2
    <3>2. b \in Nat /\ c \in 0 .. 9
      BY <1>1, <1>4, <2>2
    <3> HIDE DEF a, b, c
    <3> QED
      BY <3>1, <3>2, HalfIs
  <2>4. a = b + Range32 * q /\ w[i] = Int32(a * 10 + c) /\ v[i] = b * 10 + c
    BY <1>4, <1>5, <2>1
  <2> HIDE DEF a, b, c
  <2>5. PICK r \in Int : w[i] = (a * 10 + c) + Range32 * r
    <3>1. a * 10 + c \in Int
      BY <2>3
    <3> QED
      BY <2>4, <3>1, Int32Is
  <2>6. w[i] = v[i] + Range32 * (q * 10 + r)
    <3>1. Range32 \in Int
      BY HalfIs
    <3> HIDE DEF Range32
    <3>2. Range32 * (q * 10 + r) = (Range32 * q) * 10 + Range32 * r
      BY <3>1
    <3>3. Range32 * q \in Int /\ Range32 * r \in Int
      BY <3>1
    <3>4. w[i] = (a * 10 + c) + Range32 * r /\ v[i] = b * 10 + c
      BY <2>4, <2>5
    <3> DEFINE x == Range32 * q
               y == Range32 * r
               z == Range32 * (q * 10 + r)
    <3>5. x \in Int /\ y \in Int /\ z = x * 10 + y /\ a = b + x /\ w[i] = (a * 10 + c) + y
      BY <2>4, <3>2, <3>3, <3>4
    <3> HIDE DEF x, y, z
    <3>6. (a * 10 + c) + y = (b * 10 + c) + z
      BY <2>3, <3>5
    <3> QED
      BY <3>4, <3>5, <3>6 DEF z
  <2>7. q * 10 + r \in Int
    BY <2>1, <2>5
  <2> QED
    BY <2>2, <2>6, <2>7
<1>8. n \in P
  <2>1. n \in 0 .. n
    BY <1>1
  <2> HIDE DEF P
  <2>2. \A i \in 0 .. n : i \in P
    BY <1>1, <1>6, <1>7, InductionTo
  <2> QED
    BY <2>1, <2>2
<1> QED
  BY <1>4, <1>5, <1>8

Displays == [neg : BOOLEAN, digits : Seq(0 .. 9)]

\* A number of the machine's range is read as it is meant.
LEMMA ReadIsMeant ==
    ASSUME NEW d \in Displays
    PROVE  /\ Read(d) \in -HALF .. HALF - 1 /\ Meant(d) \in Int
           /\ InRange(Meant(d)) => Read(d) = Meant(d)
<1> DEFINE a == Value32(d.digits)
           b == Value(d.digits)
<1>1. a \in -HALF .. HALF - 1 /\ b \in Nat
  BY ValuesTyped DEF Displays
<1>2. PICK q \in Int : a = b + Range32 * q
  BY ValuesAgree DEF Displays
<1>3. HALF \in Nat /\ Range32 \in Int
  BY HalfIs
<1>4. /\ Read(d) = IF d.neg THEN Int32(-a) ELSE a
      /\ Meant(d) = IF d.neg THEN -b ELSE b
  BY DEF Read, Meant
<1> HIDE DEF a, b, Range32
<1>5. a \in Int /\ -a \in Int
  BY <1>1, <1>3
<1>6. CASE d.neg
  <2>1. Read(d) = Int32(-a) /\ Meant(d) = -b
    BY <1>4, <1>6
  <2>2. Read(d) \in -HALF .. HALF - 1
    BY <1>5, <2>1, Int32Is
  <2>3. PICK r \in Int : Read(d) = -a + Range32 * r
    BY <1>5, <2>1, Int32Is
  <2>4. Read(d) = Meant(d) + Range32 * (r - q)
    <3>1. Range32 * (r - q) = Range32 * r - Range32 * q
      BY <1>3
    <3>2. Range32 * r \in Int /\ Range32 * q \in Int
      BY <1>3
    <3> QED
      BY <1>1, <1>2, <1>5, <2>1, <2>3, <3>1, <3>2
  <2>5. ASSUME InRange(Meant(d)) PROVE Read(d) = Meant(d)
    <3>1. Meant(d) \in -HALF .. HALF - 1 /\ r - q \in Int
      BY <2>5 DEF InRange
    <3> QED
      BY <2>2, <2>4, <3>1, OneInRange
  <2> QED
    BY <1>1, <2>1, <2>2, <2>5
<1>7. CASE ~d.neg
  <2>1. Read(d) = a /\ Meant(d) = b
    BY <1>4, <1>7
  <2>2. ASSUME InRange(Meant(d)) PROVE Read(d) = Meant(d)
    <3>1. b \in -HALF .. HALF - 1
      BY <2>1, <2>2 DEF InRange
    <3> QED
      BY <1>1, <1>2, <2>1, <3>1, OneInRange
  <2> QED
    BY <1>1, <2>1, <2>2
<1> QED
  BY <1>6, <1>7

-----------------------------------------------------------------------------
\* One more digit.
LEMMA ValueGrows ==
    ASSUME NEW s \in Seq(0 .. 9), NEW c \in 0 .. 9
    PROVE  Value(Append(s, c)) = Value(s) * 10 + c
<1> DEFINE t == Append(s, c)
           n == Len(s)
<1>1. n \in Nat
  BY LenProperties
<1>2. t \in Seq(0 .. 9) /\ Len(t) = n + 1 /\ t[n + 1] = c /\ \A i \in 1 .. n : t[i] = s[i]
  BY AppendProperties
<1> HIDE DEF t, n
<1>3. PICK v : IsValue(v, s)
  BY ValueIs
<1>4. PICK w : IsValue(w, t)
  BY <1>2, ValueIs
<1>5. /\ v \in [0 .. n -> Nat] /\ v[0] = 0 /\ Value(s) = v[n]
      /\ \A i \in 1 .. n : v[i] = v[i - 1] * 10 + s[i]
  BY <1>3 DEF IsValue, n
<1>6. /\ w[0] = 0 /\ Value(t) = w[n + 1]
      /\ \A i \in 1 .. n + 1 : w[i] = w[i - 1] * 10 + t[i]
  BY <1>2, <1>4 DEF IsValue
<1> DEFINE P == {i \in 0 .. n : w[i] = v[i]}
<1>7. 0 \in P
  BY <1>1, <1>5, <1>6
<1>8. ASSUME NEW i \in 1 .. n, i - 1 \in P PROVE i \in P
  <2>1. i \in 0 .. n /\ i \in 1 .. n + 1 /\ w[i - 1] = v[i - 1]
    BY <1>1, <1>8
  <2> QED
    BY <1>2, <1>5, <1>6, <2>1
<1>9. w[n] = v[n]
  <2>1. n \in 0 .. n
    BY <1>1
  <2> HIDE DEF P
  <2>2. \A i \in 0 .. n : i \in P
    BY <1>1, <1>7, <1>8, InductionTo
  <2> QED
    BY <2>1, <2>2 DEF P
<1>10. w[n + 1] = w[n] * 10 + c
  <2>1. n + 1 \in 1 .. n + 1 /\ (n + 1) - 1 = n
    BY <1>1
  <2> QED
    BY <1>2, <1>6, <2>1
<1> QED
  BY <1>5, <1>6, <1>9, <1>10 DEF t

LEMMA OneDigit ==
    ASSUME NEW k \in 0 .. 9
    PROVE  <<k>> \in Seq(0 .. 9) /\ <<k>> # << >> /\ Value(<<k>>) = k
<1> DEFINE s == <<k>>
<1>1. s \in Seq(0 .. 9) /\ Len(s) = 1 /\ s[1] = k
  OBVIOUS
<1>2. PICK v : IsValue(v, s)
  BY <1>1, ValueIs
<1> HIDE DEF s
<1>3. v[0] = 0 /\ v[1] = v[1 - 1] * 10 + s[1] /\ Value(s) = v[1]
  <2>1. 1 \in 1 .. Len(s)
    BY <1>1
  <2> QED
    BY <1>1, <1>2, <2>1 DEF IsValue
<1>4. Value(s) = k
  BY <1>1, <1>3
<1>5. s # << >>
  BY DEF s
<1> QED
  BY <1>1, <1>4, <1>5 DEF s

\* The digits of a number are the number.
LEMMA DigitsAre ==
    ASSUME NEW n \in 0 .. HALF
    PROVE  /\ DigitsOf(n) \in Seq(0 .. 9) /\ DigitsOf(n) # << >>
           /\ Value(DigitsOf(n)) = n
<1> DEFINE D == 0 .. HALF
           S == Seq(0 .. 9)
           Base == 0 .. 9
           first == [k \in Base |-> <<k>>]
           prev == [k \in D \ Base |-> k \div 10]
           step == [k \in D \ Base |-> [s \in S |-> Append(s, k % 10)]]
           Is(g) == g = [k \in D |-> IF k < 10 THEN <<k>> ELSE Append(g[k \div 10], k % 10)]
           f == CHOOSE g : Is(g)
<1>1. D \in SUBSET Nat /\ Base \in SUBSET D
  BY HalfIs
<1>2. \A k \in D : k \in Nat /\ (k \in Base <=> k < 10)
  BY HalfIs
<1>3. first \in [Base -> S]
  BY OneDigit
<1>4. \A k \in Nat : /\ k \div 10 \in Nat /\ k % 10 \in 0 .. 9 /\ k = (k \div 10) * 10 + (k % 10)
                    /\ k >= 10 => k \div 10 < k
  OBVIOUS
<1>5. prev \in [D \ Base -> D] /\ \A k \in D \ Base : prev[k] < k
  <2>1. ASSUME NEW k \in D \ Base PROVE k \div 10 \in D /\ k \div 10 < k
    <3>1. k \in Nat /\ k >= 10 /\ k <= HALF /\ HALF \in Nat
      BY <1>2, HalfIs
    <3>2. k \div 10 \in Nat /\ k \div 10 < k
      BY <1>4, <3>1
    <3> QED
      BY <3>1, <3>2
  <2> HIDE DEF D, Base
  <2> QED
    BY <2>1
<1>6. step \in [D \ Base -> [S -> S]]
  <2> SUFFICES ASSUME NEW k \in D \ Base, NEW s \in S PROVE Append(s, k % 10) \in S
    OBVIOUS
  <2>1. k % 10 \in 0 .. 9
    BY <1>2, <1>4
  <2> QED
    BY <2>1, AppendProperties
<1>7. \E g : Is(g)
  <2> HIDE DEF S
  <2>1. PICK g : IsRecursive(g, D, S, Base, first, prev, step)
    <3> HIDE DEF D, Base, first, prev, step
    <3> QED
      BY <1>1, <1>3, <1>5, <1>6, RecursionExists
  <2>2. g \in [D -> S] /\ \A k \in D : g[k] = IF k \in Base THEN first[k] ELSE step[k][g[prev[k]]]
    BY <2>1 DEF IsRecursive
  <2>3. ASSUME NEW k \in D
        PROVE  g[k] = IF k < 10 THEN <<k>> ELSE Append(g[k \div 10], k % 10)
    <3>1. CASE k < 10
      <4>1. k \in Base
        BY <1>2, <3>1
      <4>2. g[k] = first[k]
        BY <2>2, <4>1
      <4> QED
        BY <3>1, <4>1, <4>2
    <3>2. CASE ~(k < 10)
      <4>1. k \in D \ Base
        BY <1>2, <3>2
      <4>2. prev[k] = k \div 10 /\ prev[k] \in D
        BY <1>5, <4>1
      <4>3. g[k] = step[k][g[k \div 10]] /\ g[k \div 10] \in S
        <5> HIDE DEF prev, step, first, D, Base
        <5> QED
          BY <2>2, <4>1, <4>2
      <4>4. step[k][g[k \div 10]] = Append(g[k \div 10], k % 10)
        BY <4>1, <4>3
      <4> QED
        BY <3>2, <4>3, <4>4
    <3> QED
      BY <3>1, <3>2
  <2>4. Is(g)
    <3> HIDE DEF D
    <3> QED
      BY <2>2, <2>3
  <2> QED
    BY <2>4
<1>8. Is(f)
  <2> HIDE DEF Is
  <2> QED
    BY <1>7
<1>9. \A k \in D : DigitsOf(k) = f[k]
  <2> SUFFICES ASSUME NEW k \in D PROVE DigitsOf(k) = f[k]
    OBVIOUS
  <2>1. ~(k < 0)
    BY HalfIs
  <2> QED
    BY <2>1, Zenon DEF DigitsOf
<1> HIDE DEF f
<1>10. \A k \in D : f[k] = IF k < 10 THEN <<k>> ELSE Append(f[k \div 10], k % 10)
  <2> HIDE DEF D
  <2> QED
    BY <1>8
<1> DEFINE Right(k) == f[k] \in S /\ f[k] # << >> /\ Value(f[k]) = k
           P == {k \in D : Right(k)}
<1>11. ASSUME NEW k \in D, \A j \in D : j < k => j \in P PROVE k \in P
  <2>1. CASE k < 10
    <3>1. k \in 0 .. 9 /\ f[k] = <<k>>
      BY <1>2, <1>10, <2>1
    <3>2. <<k>> \in S /\ <<k>> # << >> /\ Value(<<k>>) = k
      BY <3>1, OneDigit
    <3>3. Right(k)
      BY <3>1, <3>2
    <3> QED
      BY <3>3
  <2>2. CASE ~(k < 10)
    <3> DEFINE j == k \div 10
               c == k % 10
    <3>1. k \in Nat /\ k >= 10 /\ k <= HALF /\ HALF \in Nat
      BY <1>2, <2>2, HalfIs
    <3>2. j \in Nat /\ j < k /\ c \in 0 .. 9 /\ k = j * 10 + c
      BY <1>4, <3>1
    <3>3. f[k] = Append(f[j], c)
      BY <1>10, <2>2
    <3> HIDE DEF j, c
    <3>4. j \in D
      BY <3>1, <3>2
    <3>5. Right(j)
      <4>1. j \in P
        BY <1>11, <3>2, <3>4
      <4> QED
        BY <4>1
    <3>6. f[j] \in Seq(0 .. 9) /\ Value(f[j]) = j
      BY <3>5
    <3>7. Append(f[j], c) \in Seq(0 .. 9) /\ Append(f[j], c) # << >>
      BY <3>2, <3>6, AppendProperties
    <3>8. Value(Append(f[j], c)) = j * 10 + c
      BY <3>2, <3>6, ValueGrows
    <3>9. Right(k)
      BY <3>2, <3>3, <3>7, <3>8
    <3> QED
      BY <3>9
  <2> QED
    BY <2>1, <2>2
<1>12. D \subseteq P
  <2> HIDE DEF P, D
  <2> QED
    BY <1>1, <1>11, StrongInduction
<1>13. Right(n)
  BY <1>12
<1> QED
  BY <1>9, <1>13

-----------------------------------------------------------------------------
\* The operands are remembered as they were typed, if they fit.
CalcInv ==
    /\ CalcTypeOK
    /\ exact \in [known : BOOLEAN, left : Int, value : Int]
    /\ op # "none" /\ exact.known => val1 = exact.left
    /\ ResultIsExact
    /\ ResultHasDigits

LEMMA EmptyDisplay == Empty \in Displays
<1> DEFINE none == << >>
<1>1. none \in Seq(0 .. 9)
  OBVIOUS
<1> HIDE DEF none
<1>2. Empty = [neg |-> FALSE, digits |-> none]
  BY DEF Empty, none
<1> QED
  BY <1>1, <1>2 DEF Displays

\* C's division and the other operators have whole results.
LEMMA ResultIsWhole ==
    ASSUME NEW a \in Int, NEW b \in Int, NEW c \in Operators, ~(c = "over" /\ b = 0)
    PROVE  Result(a, c, b) \in Int
<1>1. CASE c = "plus"
  BY <1>1 DEF Result
<1>2. CASE c = "minus"
  BY <1>2 DEF Result
<1>3. CASE c = "times"
  BY <1>3 DEF Result
<1>4. CASE c = "over"
  <2> DEFINE m == IF a < 0 THEN -a ELSE a
             d == IF b < 0 THEN -b ELSE b
             q == m \div d
  <2>1. m \in Int /\ d \in Nat \ {0}
    BY <1>4
  <2>2. q \in Int
    BY <2>1, QuotientIs
  <2>3. Result(a, c, b) = Truncated(a, b)
    BY <1>4 DEF Result
  <2>4. Truncated(a, b) = IF (a < 0) = (b < 0) THEN q ELSE -q
    BY DEF Truncated
  <2> HIDE DEF q
  <2> QED
    BY <2>2, <2>3, <2>4
<1> QED
  BY <1>1, <1>2, <1>3, <1>4 DEF Operators

\* What is shown of a result is the result, unless it is -HALF.
LEMMA ResultIsShown ==
    ASSUME NEW n \in -HALF .. HALF - 1
    PROVE  /\ DisplayOf(n) \in Displays
           /\ DisplayOf(n).digits = << >> => DisplayOf(n).neg
           /\ n # -HALF => Meant(DisplayOf(n)) = n
<1> DEFINE k == IF n < 0 THEN Int32(-n) ELSE n
           none == << >>
<1>1. /\ DisplayOf(n) = [neg |-> n < 0, digits |-> DigitsOf(k)]
      /\ DisplayOf(n).neg = (n < 0) /\ DisplayOf(n).digits = DigitsOf(k)
  BY DEF DisplayOf
<1>2. HALF \in Nat /\ HALF > 9 /\ n \in Int /\ -n \in Int
  BY HalfIs
<1>3. k \in -HALF .. HALF - 1
  BY <1>2, Int32Is
<1>4. n # -HALF /\ n < 0 => k = -n
  <2> SUFFICES ASSUME n # -HALF, n < 0 PROVE Int32(-n) = -n
    OBVIOUS
  <2>1. InRange(-n)
    BY <1>2 DEF InRange
  <2> QED
    BY <1>2, <2>1, Int32InRange
<1>5. none \in Seq(0 .. 9)
  OBVIOUS
<1>6. k < 0 => DigitsOf(k) = none
  BY DEF DigitsOf
<1> HIDE DEF k, none
<1>7. ASSUME k >= 0
      PROVE DigitsOf(k) \in Seq(0 .. 9) /\ DigitsOf(k) # << >> /\ Value(DigitsOf(k)) = k
  <2>1. k \in 0 .. HALF
    BY <1>2, <1>3, <1>7
  <2> QED
    BY <2>1, DigitsAre
<1>8. k \in Int
  BY <1>2, <1>3
<1>9. DigitsOf(k) \in Seq(0 .. 9)
  <2>1. CASE k < 0
    BY <1>5, <1>6, <2>1
  <2>2. CASE k >= 0
    BY <1>7, <2>2
  <2> QED
    BY <1>8, <2>1, <2>2
<1>10. ~(n < 0) => k = n
  BY DEF k
<1>11. ASSUME n # -HALF PROVE Meant(DisplayOf(n)) = n
  <2>1. k >= 0
    BY <1>2, <1>4, <1>10, <1>11
  <2>2. Value(DigitsOf(k)) = k
    BY <1>7, <2>1
  <2>3. Meant(DisplayOf(n)) = IF n < 0 THEN -k ELSE k
    BY <1>1, <2>2 DEF Meant
  <2> QED
    BY <1>2, <1>4, <1>10, <1>11, <2>3
<1>12. ASSUME DisplayOf(n).digits = << >> PROVE DisplayOf(n).neg
  <2> SUFFICES ASSUME ~(n < 0) PROVE FALSE
    BY <1>1
  <2>1. k >= 0
    BY <1>2, <1>10
  <2>2. DigitsOf(k) # << >>
    BY <1>7, <2>1
  <2> QED
    BY <1>1, <1>12, <2>2
<1>13. DisplayOf(n) \in Displays
  BY <1>1, <1>9 DEF Displays
<1> QED
  BY <1>11, <1>12, <1>13

LEMMA CalcStarts == CalcInit => CalcInv
<1> SUFFICES ASSUME CalcInit PROVE CalcInv
  OBVIOUS
<1>1. /\ display = Empty /\ error = FALSE /\ val1 = 0 /\ val2 = 0 /\ op = "none"
      /\ has_result = FALSE /\ fault = FALSE /\ exact = Unknown
  BY DEF CalcInit
<1>2. CalcTypeOK
  <2>1. display \in Displays
    BY <1>1, EmptyDisplay
  <2>2. 0 \in -HALF .. HALF - 1
    BY HalfIs
  <2> QED
    BY <1>1, <2>1, <2>2 DEF CalcTypeOK, Displays
<1>3. exact \in [known : BOOLEAN, left : Int, value : Int] /\ exact.known = FALSE
  BY <1>1 DEF Unknown
<1> QED
  BY <1>1, <1>2, <1>3 DEF CalcInv, ResultIsExact, ResultHasDigits

LEMMA CalcStep == CalcInv /\ [CalcNext]_calcVars => CalcInv'
<1> SUFFICES ASSUME CalcInv, [CalcNext]_calcVars PROVE CalcInv'
  OBVIOUS
<1>0. /\ display \in Displays
      /\ val1 \in -HALF .. HALF - 1 /\ val2 \in -HALF .. HALF - 1
      /\ op \in Operators \cup {"none"}
      /\ error \in BOOLEAN /\ has_result \in BOOLEAN /\ fault \in BOOLEAN
      /\ exact \in [known : BOOLEAN, left : Int, value : Int]
      /\ op # "none" /\ exact.known => val1 = exact.left
  BY DEF CalcInv, CalcTypeOK, Displays
<1>00. /\ Read(display) \in -HALF .. HALF - 1 /\ Meant(display) \in Int
       /\ InRange(Meant(display)) => Read(display) = Meant(display)
  BY <1>0, ReadIsMeant
<1>1. ASSUME NEW c \in Digits, Digit(c) PROVE CalcInv'
  <2> DEFINE shown == IF has_result THEN Empty ELSE display
  <2>1. /\ display' = IF Len(shown.digits) + (IF shown.neg THEN 1 ELSE 0) < DISPLAY
                     THEN [shown EXCEPT !.digits = Append(@, c)] ELSE shown
        /\ error' = (error /\ ~has_result) /\ has_result' = FALSE
        /\ UNCHANGED <<val1, val2, op, fault, exact>>
    BY <1>1 DEF Digit
  <2>2. shown \in Displays /\ shown.digits \in Seq(0 .. 9)
    <3>1. shown \in Displays
      BY <1>0, EmptyDisplay
    <3> HIDE DEF shown
    <3> QED
      BY <3>1 DEF Displays
  <2>3. c \in 0 .. 9
    BY CalculatorAssumption
  <2> HIDE DEF shown
  <2>4. Append(shown.digits, c) \in Seq(0 .. 9)
    BY <2>2, <2>3, AppendProperties
  <2>5. display' \in Displays
    BY <2>1, <2>2, <2>4 DEF Displays
  <2>6. CalcTypeOK'
    BY <1>0, <2>1, <2>5 DEF CalcTypeOK, Displays
  <2> QED
    BY <1>0, <2>1, <2>6 DEF CalcInv, ResultIsExact, ResultHasDigits
<1>2. ASSUME NEW c \in Operators, Operator(c) PROVE CalcInv'
  <2>1. /\ val1' = Read(display) /\ op' = c /\ display' = Empty
        /\ error' = FALSE /\ has_result' = FALSE
        /\ exact' = [known |-> InRange(Meant(display)), left |-> Meant(display), value |-> 0]
        /\ UNCHANGED <<val2, fault>>
    BY <1>2 DEF Operator
  <2>2. /\ exact'.known = InRange(Meant(display)) /\ exact'.left = Meant(display)
        /\ exact'.value = 0
    BY <2>1
  <2>3. InRange(Meant(display)) \in BOOLEAN
    BY DEF InRange
  <2>4. exact' \in [known : BOOLEAN, left : Int, value : Int]
    BY <1>00, <2>1, <2>3
  <2>5. (op # "none" /\ exact.known => val1 = exact.left)'
    BY <1>00, <2>1, <2>2
  <2>6. CalcTypeOK'
    BY <1>0, <1>00, <2>1, EmptyDisplay DEF CalcTypeOK, Displays
  <2> QED
    BY <2>1, <2>4, <2>5, <2>6 DEF CalcInv, ResultIsExact, ResultHasDigits
<1>3. ASSUME Equals PROVE CalcInv'
  <2> DEFINE b == Read(display)
             res == Int32(Result(val1, op, b))
             fits == exact.known /\ InRange(Meant(display))
             value == Result(exact.left, op, Meant(display))
  <2>1. ~fault /\ op # "none" /\ ~DividesByZero(b) /\ val2' = b /\ UNCHANGED <<error, val1>>
    BY <1>3 DEF Equals
  <2>2. op \in Operators /\ ~(op = "over" /\ b = 0)
    BY <1>0, <2>1 DEF DividesByZero
  <2>3. CASE op = "over" /\ Traps(val1, b)
    <3>1. fault' = TRUE /\ UNCHANGED <<display, op, has_result, exact>>
      BY <1>3, <2>3 DEF Equals
    <3>2. CalcTypeOK'
      BY <1>0, <1>00, <2>1, <3>1 DEF CalcTypeOK, Displays
    <3>3. ResultIsExact' /\ ResultHasDigits'
      BY <2>1, <3>1 DEF CalcInv, ResultIsExact, ResultHasDigits, Meant, Value
    <3> QED
      BY <1>0, <2>1, <3>1, <3>2, <3>3 DEF CalcInv
  <2>4. CASE ~(op = "over" /\ Traps(val1, b))
    <3>1. /\ display' = DisplayOf(res)
          /\ op' = "none" /\ has_result' = TRUE /\ fault' = fault
          /\ exact' = [exact EXCEPT !.known = @ /\ InRange(Meant(display)),
                                    !.value = IF fits THEN value ELSE 0]
      BY <1>3, <2>4 DEF Equals
    <3>2. val1 \in Int /\ b \in Int
      BY <1>0, <1>00, HalfIs
    <3>3. Result(val1, op, b) \in Int
      BY <2>2, <3>2, ResultIsWhole
    <3>4. res \in -HALF .. HALF - 1
      BY <3>3, Int32Is
    <3>5. /\ display' \in Displays
          /\ display'.digits = << >> => display'.neg
          /\ res # -HALF => Meant(display') = res
      <4> HIDE DEF res
      <4> QED
        BY <3>1, <3>4, ResultIsShown
    <3>6. CalcTypeOK'
      BY <1>0, <1>00, <2>1, <3>1, <3>5 DEF CalcTypeOK, Displays
    <3>7. ASSUME fits PROVE value \in Int /\ value = Result(val1, op, b)
      <4>1. exact.left = val1 /\ Meant(display) = b
        BY <1>0, <1>00, <2>1, <3>7
      <4> QED
        BY <3>3, <4>1
    <3> HIDE DEF fits, value
    <3>8. /\ exact'.known = (exact.known /\ InRange(Meant(display)))
          /\ exact'.left = exact.left
          /\ exact'.value = IF fits THEN value ELSE 0
      BY <1>0, <3>1
    <3>9. exact' \in [known : BOOLEAN, left : Int, value : Int]
      <4>1. (IF fits THEN value ELSE 0) \in Int
        BY <3>7
      <4>2. (exact.known /\ InRange(Meant(display))) \in BOOLEAN
        OBVIOUS
      <4> QED
        BY <1>0, <3>1, <4>1, <4>2
    <3>10. ASSUME exact'.known, InRange(exact'.value), exact'.value # -HALF
           PROVE  Meant(display') = exact'.value
      <4>1. fits
        BY <3>8, <3>10 DEF fits
      <4>2. exact'.value = Result(val1, op, b) /\ InRange(Result(val1, op, b))
        BY <3>7, <3>8, <3>10, <4>1
      <4>3. res = exact'.value
        BY <3>3, <4>2, Int32InRange
      <4> QED
        BY <3>5, <3>10, <4>3
    <3>11. ResultIsExact' /\ ResultHasDigits'
      BY <3>5, <3>10 DEF ResultIsExact, ResultHasDigits, InRange
    <3> QED
      BY <3>1, <3>6, <3>9, <3>11 DEF CalcInv
  <2> QED
    BY <2>3, <2>4
<1>4. ASSUME EqualsErr PROVE CalcInv'
  <2>1. /\ val2' = 0 /\ display' = Empty /\ error' = TRUE /\ op' = "none"
        /\ has_result' = TRUE /\ exact' = Unknown /\ UNCHANGED <<val1, fault>>
    BY <1>4 DEF EqualsErr
  <2>2. 0 \in -HALF .. HALF - 1
    BY HalfIs
  <2>3. CalcTypeOK'
    BY <1>0, <2>1, <2>2, EmptyDisplay DEF CalcTypeOK, Displays
  <2>4. exact' \in [known : BOOLEAN, left : Int, value : Int]
    BY <2>1 DEF Unknown
  <2> QED
    BY <2>1, <2>3, <2>4 DEF CalcInv, ResultIsExact, ResultHasDigits
<1>5. ASSUME UNCHANGED calcVars PROVE CalcInv'
  <2>1. UNCHANGED <<display, error, val1, val2, op, has_result, fault, exact>>
    BY <1>5 DEF calcVars
  <2>2. ResultIsExact' /\ ResultHasDigits'
    BY <2>1 DEF CalcInv, ResultIsExact, ResultHasDigits, Meant, Value, InRange
  <2> QED
    BY <1>0, <2>1, <2>2 DEF CalcInv, CalcTypeOK, Displays
<1>6. ASSUME EqualsNothing PROVE CalcInv'
  BY <1>5, <1>6 DEF EqualsNothing
<1>7. ASSUME Clear PROVE CalcInv'
  <2>1. /\ display' = Empty /\ error' = FALSE /\ val1' = 0 /\ val2' = 0 /\ op' = "none"
        /\ has_result' = FALSE /\ exact' = Unknown /\ UNCHANGED fault
    BY <1>7 DEF Clear
  <2>2. 0 \in -HALF .. HALF - 1
    BY HalfIs
  <2>3. CalcTypeOK'
    BY <1>0, <2>1, <2>2, EmptyDisplay DEF CalcTypeOK, Displays
  <2>4. exact' \in [known : BOOLEAN, left : Int, value : Int]
    BY <2>1 DEF Unknown
  <2> QED
    BY <2>1, <2>3, <2>4 DEF CalcInv, ResultIsExact, ResultHasDigits
<1>8. ASSUME CalcNext PROVE CalcInv'
  <2>1. PICK key \in 2 .. 80 :
          calc_press(KeyPresses(key), DigitOfKey(key))
    BY <1>8 DEF CalcNext, KeyOrClick
  <2> QED
    BY <1>1, <1>2, <1>3, <1>4, <1>6, <1>7, <2>1 DEF calc_press
<1> QED
  BY <1>5, <1>8

(* Whatever is typed, clicked and cleared: when both operands and the result
   fit the machine's integers the display shows the exact result, for every
   width of the integers and of the display (calc_press). *)
THEOREM CalculatorIsSound == CalcSpec => []CalculatorSound
<1>1. CalcInv => CalculatorSound
  BY DEF CalcInv, CalculatorSound
<1> QED
  BY <1>1, CalcStarts, CalcStep, PTL DEF CalcSpec
-----------------------------------------------------------------------------
\* The page of the browser.
Characters == STRING
Strings == Seq(Characters)

LEMMA NoCharacters == << >> \in Strings /\ Len(<< >>) = 0
  BY DEF Strings

LEMMA CharactersOf ==
    ASSUME NEW s \in Strings
    PROVE  Len(s) \in Nat /\ \A i \in 1 .. Len(s) : s[i] \in Characters
  BY LenProperties, ElementOfSeq DEF Strings

LEMMA OneMoreCharacter ==
    ASSUME NEW s \in Strings, NEW c \in Characters
    PROVE  /\ Append(s, c) \in Strings /\ Len(Append(s, c)) = Len(s) + 1
           /\ Append(s, c)[Len(s) + 1] = c
           /\ \A i \in 1 .. Len(s) : Append(s, c)[i] = s[i]
<1>1. s \in Seq(Characters)
  BY DEF Strings
<1>2. /\ Append(s, c) \in Seq(Characters) /\ Len(Append(s, c)) = Len(s) + 1
      /\ Append(s, c)[Len(s) + 1] = c
      /\ \A i \in 1 .. Len(s) : Append(s, c)[i] = s[i]
  BY <1>1, AppendProperties
<1> QED
  BY <1>2 DEF Strings

\* Taking the tags out, character by character.
StripStates == [in_tag : BOOLEAN, out : Strings]

IsStripped(f, s) ==
    /\ f \in [0 .. Len(s) -> StripStates]
    /\ f[0].in_tag = FALSE /\ f[0].out = << >>
    /\ \A i \in 1 .. Len(s) : f[i] = Strip(f[i - 1], s[i])

LEMMA StripTyped ==
    ASSUME NEW x \in StripStates, NEW c \in Characters
    PROVE  Strip(x, c) \in StripStates
<1>1. x.out \in Strings /\ Append(x.out, c) \in Strings
  BY OneMoreCharacter DEF StripStates
<1> QED
  BY <1>1 DEF Strip, StripStates

LEMMA StrippedIs ==
    ASSUME NEW s \in Strings
    PROVE  IsStripped(Stripped(s), s)
<1> DEFINE n == Len(s)
           s0 == [in_tag |-> FALSE, out |-> << >>]
           step == [k \in 1 .. n |-> [x \in StripStates |-> Strip(x, s[k])]]
           Is(g) == g = [i \in 0 .. n |-> IF i = 0 THEN [in_tag |-> FALSE, out |-> << >>]
                                          ELSE Strip(g[i - 1], s[i])]
           f == CHOOSE g : Is(g)
<1>1. n \in Nat /\ \A k \in 1 .. n : s[k] \in Characters
  BY CharactersOf
<1>2. step \in [1 .. n -> [StripStates -> StripStates]]
  <2> SUFFICES ASSUME NEW k \in 1 .. n, NEW x \in StripStates
               PROVE  Strip(x, s[k]) \in StripStates
    OBVIOUS
  <2> QED
    BY <1>1, StripTyped
<1>3. \A k \in 1 .. n : \A x \in StripStates : step[k][x] = Strip(x, s[k])
  OBVIOUS
<1>4. s0 \in StripStates
  BY NoCharacters DEF StripStates
<1> HIDE DEF step, n, s0
<1>5. PICK g : IsLoop(g, n, StripStates, s0, step)
  BY <1>1, <1>2, <1>4, LoopExists
<1>6. /\ g \in [0 .. n -> StripStates] /\ g[0] = s0
      /\ \A k \in 1 .. n : g[k] = step[k][g[k - 1]]
  BY <1>5 DEF IsLoop
<1>7. ASSUME NEW k \in 1 .. n PROVE g[k] = Strip(g[k - 1], s[k])
  <2>1. g[k - 1] \in StripStates
    BY <1>1, <1>6
  <2> QED
    BY <1>3, <1>6, <2>1
<1>8. Is(g)
  <2>1. ASSUME NEW i \in 0 .. n PROVE g[i] = IF i = 0 THEN s0 ELSE Strip(g[i - 1], s[i])
    <3>1. i # 0 => i \in 1 .. n
      BY <1>1
    <3> QED
      BY <1>6, <1>7, <3>1
  <2> QED
    BY <1>6, <2>1 DEF s0
<1>9. Is(f)
  <2> HIDE DEF Is
  <2> QED
    BY <1>8
<1>10. Stripped(s) = f
  BY Zenon DEF Stripped, n
<1> HIDE DEF f
<1>11. \A i \in 0 .. n : f[i] = IF i = 0 THEN s0 ELSE Strip(f[i - 1], s[i])
  BY <1>9 DEF s0
<1> DEFINE P == {i \in 0 .. n : f[i] = g[i]}
<1>12. \A i \in 0 .. n : i \in P
  <2>1. 0 \in P
    BY <1>1, <1>6, <1>11
  <2>2. ASSUME NEW i \in 1 .. n, i - 1 \in P PROVE i \in P
    <3>1. i \in 0 .. n /\ i # 0 /\ f[i - 1] = g[i - 1]
      BY <1>1, <2>2
    <3> QED
      BY <1>7, <1>11, <3>1
  <2> HIDE DEF P
  <2> QED
    BY <1>1, <2>1, <2>2, InductionTo
<1>13. f = g
  <2>1. f = [i \in 0 .. n |-> f[i]]
    BY <1>9
  <2>2. \A i \in 0 .. n : f[i] = g[i]
    BY <1>12
  <2> QED
    BY <1>6, <2>1, <2>2
<1>14. g[0].in_tag = FALSE /\ g[0].out = << >>
  BY <1>6 DEF s0
<1> QED
  BY <1>6, <1>7, <1>10, <1>13, <1>14 DEF IsStripped, n

\* The reference, on the beginnings of the text.
IsLeft(f, s) ==
    /\ f \in [0 .. Len(s) -> Strings] /\ f[0] = << >>
    /\ \A i \in 1 .. Len(s) :
          f[i] = IF InTag(s, i) \/ s[i] \in {"GT", "CR"} THEN f[i - 1]
                 ELSE Append(f[i - 1], s[i])
    /\ WithoutTags(s) = f[Len(s)]

LEMMA LeftIs ==
    ASSUME NEW s \in Strings
    PROVE  \E f : IsLeft(f, s)
<1> DEFINE n == Len(s)
           none == << >>
           Keep(x, i) == IF InTag(s, i) \/ s[i] \in {"GT", "CR"} THEN x ELSE Append(x, s[i])
           step == [k \in 1 .. n |-> [x \in Strings |-> Keep(x, k)]]
           Is(g) == g = [i \in 0 .. n |-> IF i = 0 THEN << >>
                          ELSE IF InTag(s, i) \/ s[i] \in {"GT", "CR"} THEN g[i - 1]
                          ELSE Append(g[i - 1], s[i])]
           f == CHOOSE g : Is(g)
<1>1. n \in Nat /\ \A k \in 1 .. n : s[k] \in Characters
  BY CharactersOf
<1>2. step \in [1 .. n -> [Strings -> Strings]]
  <2> SUFFICES ASSUME NEW k \in 1 .. n, NEW x \in Strings PROVE Keep(x, k) \in Strings
    OBVIOUS
  <2> QED
    BY <1>1, OneMoreCharacter
<1>3. \A k \in 1 .. n : \A x \in Strings : step[k][x] = Keep(x, k)
  OBVIOUS
<1>4. none \in Strings
  BY NoCharacters
<1> HIDE DEF step, n, none
<1>5. PICK g : IsLoop(g, n, Strings, none, step)
  BY <1>1, <1>2, <1>4, LoopExists
<1>6. /\ g \in [0 .. n -> Strings] /\ g[0] = none
      /\ \A k \in 1 .. n : g[k] = step[k][g[k - 1]]
  BY <1>5 DEF IsLoop
<1>7. ASSUME NEW k \in 1 .. n PROVE g[k] = Keep(g[k - 1], k)
  <2>1. g[k - 1] \in Strings
    BY <1>1, <1>6
  <2> HIDE DEF Keep
  <2> QED
    BY <1>3, <1>6, <2>1
<1>8. Is(g)
  <2>1. ASSUME NEW i \in 0 .. n PROVE g[i] = IF i = 0 THEN none ELSE Keep(g[i - 1], i)
    <3>1. i # 0 => i \in 1 .. n
      BY <1>1
    <3> HIDE DEF Keep
    <3> QED
      BY <1>6, <1>7, <3>1
  <2>2. g = [i \in 0 .. n |-> IF i = 0 THEN none ELSE Keep(g[i - 1], i)]
    <3> HIDE DEF Keep
    <3> QED
      BY <1>6, <2>1
  <2> QED
    BY <2>2 DEF none
<1>9. Is(f)
  <2> HIDE DEF Is
  <2> QED
    BY <1>8
<1>10. WithoutTags(s) = f[n]
  BY Zenon DEF WithoutTags, n
<1> HIDE DEF f
<1>11. \A i \in 0 .. n : f[i] = IF i = 0 THEN none ELSE Keep(f[i - 1], i)
  BY <1>9 DEF none
<1> DEFINE P == {i \in 0 .. n : f[i] = g[i]}
<1> HIDE DEF Keep
<1>12. \A i \in 0 .. n : i \in P
  <2>1. 0 \in P
    BY <1>1, <1>6, <1>11
  <2>2. ASSUME NEW i \in 1 .. n, i - 1 \in P PROVE i \in P
    <3>1. i \in 0 .. n /\ i # 0 /\ f[i - 1] = g[i - 1]
      BY <1>1, <2>2
    <3> QED
      BY <1>7, <1>11, <3>1
  <2> HIDE DEF P
  <2> QED
    BY <1>1, <2>1, <2>2, InductionTo
<1>13. WithoutTags(s) = g[n]
  <2>1. n \in 0 .. n
    BY <1>1
  <2>2. f[n] = g[n]
    BY <1>12, <2>1
  <2> QED
    BY <1>10, <2>2
<1>14. g[0] = << >>
  BY <1>6 DEF none
<1>15. \A k \in 1 .. n : g[k] = IF InTag(s, k) \/ s[k] \in {"GT", "CR"} THEN g[k - 1]
                                ELSE Append(g[k - 1], s[k])
  BY <1>7 DEF Keep
<1> QED
  BY <1>6, <1>13, <1>14, <1>15 DEF IsLeft, n

\* One character on, the text is in a tag if one begins or goes on.
LEMMA InTagGoesOn ==
    ASSUME NEW s \in Strings, NEW i \in 1 .. Len(s)
    PROVE  InTag(s, i) <=> s[i] = "LT" \/ (i > 1 /\ InTag(s, i - 1) /\ s[i - 1] # "GT")
<1>1. i \in Nat /\ i > 0
  OBVIOUS
<1>2. ASSUME s[i] = "LT" PROVE InTag(s, i)
  <2>1. i \in 1 .. i /\ \A k \in i .. i - 1 : s[k] # "GT"
    BY <1>1
  <2> QED
    BY <1>2, <2>1 DEF InTag
<1>3. ASSUME i > 1, InTag(s, i - 1), s[i - 1] # "GT" PROVE InTag(s, i)
  <2>1. PICK j \in 1 .. i - 1 : s[j] = "LT" /\ \A k \in j .. (i - 1) - 1 : s[k] # "GT"
    BY <1>3 DEF InTag
  <2>2. \A k \in j .. i - 1 : s[k] # "GT"
    <3> SUFFICES ASSUME NEW k \in j .. i - 1, k # i - 1 PROVE s[k] # "GT"
      BY <1>3
    <3>1. k \in j .. (i - 1) - 1
      BY <1>1, <2>1
    <3> QED
      BY <2>1, <3>1
  <2>3. j \in 1 .. i
    BY <1>1, <2>1
  <2> QED
    BY <2>1, <2>2, <2>3 DEF InTag
<1>4. ASSUME InTag(s, i), s[i] # "LT"
      PROVE  i > 1 /\ InTag(s, i - 1) /\ s[i - 1] # "GT"
  <2>1. PICK j \in 1 .. i : s[j] = "LT" /\ \A k \in j .. i - 1 : s[k] # "GT"
    BY <1>4 DEF InTag
  <2>2. j # i
    BY <1>4, <2>1
  <2>3. j \in 1 .. i - 1 /\ i > 1 /\ i - 1 \in j .. i - 1
    BY <1>1, <2>1, <2>2
  <2>4. \A k \in j .. (i - 1) - 1 : s[k] # "GT"
    <3> SUFFICES ASSUME NEW k \in j .. (i - 1) - 1 PROVE s[k] # "GT"
      OBVIOUS
    <3>1. k \in j .. i - 1
      BY <1>1, <2>3
    <3> QED
      BY <2>1, <3>1
  <2> QED
    BY <2>1, <2>3, <2>4 DEF InTag
<1> QED
  BY <1>2, <1>3, <1>4

\* Nothing of a tag, and everything else, is left.
LEMMA TagsAreOut ==
    ASSUME NEW s \in Strings
    PROVE  /\ strip_html_tags(s) = WithoutTags(s)
           /\ strip_html_tags(s) \in Strings
<1> DEFINE n == Len(s)
           x == Stripped(s)
<1>1. n \in Nat
  BY CharactersOf
<1>2. PICK f : IsLeft(f, s)
  BY LeftIs
<1>3. /\ f[0] = << >> /\ WithoutTags(s) = f[n]
      /\ \A i \in 1 .. n : f[i] = IF InTag(s, i) \/ s[i] \in {"GT", "CR"} THEN f[i - 1]
                                  ELSE Append(f[i - 1], s[i])
  BY <1>2 DEF IsLeft
<1>4. IsStripped(x, s)
  BY StrippedIs
<1> HIDE DEF x, n
<1>5. /\ x \in [0 .. n -> StripStates] /\ x[0].in_tag = FALSE /\ x[0].out = << >>
      /\ \A i \in 1 .. n : x[i] = Strip(x[i - 1], s[i])
  BY <1>4 DEF IsStripped, n
<1> DEFINE Same(i) == /\ x[i].out = f[i]
                      /\ x[i].in_tag <=> (i > 0 /\ InTag(s, i) /\ s[i] # "GT")
           P == {i \in 0 .. n : Same(i)}
<1>6. 0 \in P
  <2>1. Same(0)
    BY <1>1, <1>3, <1>5
  <2> QED
    BY <1>1, <2>1
<1>7. ASSUME NEW i \in 1 .. n, i - 1 \in P PROVE i \in P
  <2>1. i \in 0 .. n /\ i - 1 \in 0 .. n /\ i \in 1 .. Len(s) /\ i \in Nat
    BY <1>1 DEF n
  <2> DEFINE y == x[i - 1]
             c == s[i]
  <2>2. /\ y.out = f[i - 1]
        /\ y.in_tag <=> (i - 1 > 0 /\ InTag(s, i - 1) /\ s[i - 1] # "GT")
    <3>1. Same(i - 1)
      <4> HIDE DEF Same
      <4> QED
        BY <1>7
    <3> QED
      BY <3>1
  <2>3. InTag(s, i) <=> c = "LT" \/ y.in_tag
    BY <2>1, <2>2, InTagGoesOn
  <2>4. x[i] = Strip(y, c) /\ y \in StripStates
    BY <1>5, <2>1
  <2>5. f[i] = IF InTag(s, i) \/ c \in {"GT", "CR"} THEN y.out ELSE Append(y.out, c)
    BY <1>3, <2>2
  <2> HIDE DEF y, c
  <2>6. /\ x[i].out = IF c = "LT" \/ y.in_tag \/ c \in {"GT", "CR"} THEN y.out
                      ELSE Append(y.out, c)
        /\ x[i].in_tag <=> c = "LT" \/ (y.in_tag /\ c # "GT")
    BY <2>4 DEF Strip, StripStates
  <2>7. x[i].out = f[i]
    BY <2>3, <2>5, <2>6
  <2>8. x[i].in_tag <=> InTag(s, i) /\ c # "GT"
    BY <2>3, <2>6
  <2>9. Same(i)
    BY <2>1, <2>7, <2>8 DEF c
  <2> HIDE DEF Same
  <2> QED
    BY <2>1, <2>9
<1>8. x[n].out = f[n]
  <2>1. n \in 0 .. n
    BY <1>1
  <2> HIDE DEF Same
  <2>2. n \in P
    <3> HIDE DEF P
    <3>1. \A i \in 0 .. n : i \in P
      BY <1>1, <1>6, <1>7, InductionTo
    <3> QED
      BY <2>1, <3>1
  <2>3. Same(n)
    BY <2>2
  <2> QED
    BY <2>3 DEF Same
<1>9. x[n].out \in Strings
  <2>1. x[n] \in StripStates
    BY <1>1, <1>5
  <2> QED
    BY <2>1 DEF StripStates
<1>10. strip_html_tags(s) = x[n].out
  BY DEF strip_html_tags, x, n
<1> QED
  BY <1>3, <1>8, <1>9, <1>10

\* The body of a response is a part of it.
LEMMA FirstAfterIs ==
    ASSUME NEW s \in Strings, NEW pattern, Len(pattern) \in Nat
    PROVE  FirstAfter(s, pattern) \in Nat
<1> DEFINE at == {i \in 1 .. Len(s) - Len(pattern) + 1 :
                    SubSeq(s, i, i + Len(pattern) - 1) = pattern}
           least == CHOOSE i \in at : \A j \in at : i <= j
<1>1. at \in SUBSET Nat
  BY CharactersOf
<1>2. FirstAfter(s, pattern) = IF at = {} THEN 0 ELSE least + Len(pattern)
  BY DEF FirstAfter
<1>3. at # {} => least \in Nat
  <2> HIDE DEF at
  <2>1. at # {} => \E i \in at : \A j \in at : i <= j
    BY <1>1, LeastExists
  <2> QED
    BY <1>1, <2>1
<1> HIDE DEF at, least
<1> QED
  BY <1>2, <1>3

LEMMA BodyIsText ==
    ASSUME NEW s \in Strings
    PROVE  get_http_body(s) \in Strings
<1> DEFINE crlf == FirstAfter(s, <<"CR", "LF", "CR", "LF">>)
           lf   == FirstAfter(s, <<"LF", "LF">>)
<1>1. crlf \in Nat /\ lf \in Nat
  <2>1. Len(<<"CR", "LF", "CR", "LF">>) = 4 /\ Len(<<"LF", "LF">>) = 2
    OBVIOUS
  <2> QED
    BY <2>1, FirstAfterIs
<1>2. get_http_body(s) = IF s = << >> \/ s[1] # "HTTP" THEN s
                         ELSE IF crlf # 0 THEN SubSeq(s, crlf, Len(s))
                         ELSE IF lf # 0 THEN SubSeq(s, lf, Len(s))
                         ELSE s
  BY DEF get_http_body
<1> HIDE DEF crlf, lf
<1>3. ASSUME NEW m \in Nat, m # 0 PROVE SubSeq(s, m, Len(s)) \in Strings
  <2>1. Len(s) \in Nat /\ \A i \in m .. Len(s) : s[i] \in Characters
    BY <1>3, CharactersOf
  <2> HIDE DEF Characters
  <2>2. m \in Int /\ Len(s) \in Int
    BY <2>1
  <2>3. SubSeq(s, m, Len(s)) \in Seq(Characters)
    BY <2>1, <2>2, SubSeqProperties
  <2> QED
    BY <2>3 DEF Strings
<1> QED
  BY <1>1, <1>2, <1>3

LEMMA TextTyped ==
    ASSUME response \in Held
    PROVE  response \in Strings /\ RenderText \in Strings
<1>1. response \in Strings
  <2>1. CASE response \in Pages
    BY <2>1, PageAssumption DEF Strings, Characters
  <2>2. CASE response \notin Pages
    <3>1. response = << >>
      BY <2>2 DEF Held
    <3> QED
      BY <3>1, NoCharacters
  <2> QED
    BY <2>1, <2>2
<1> QED
  BY <1>1, BodyIsText, TagsAreOut DEF RenderText

-----------------------------------------------------------------------------
\* The characters behind a place, up to another, but for some.
IsWithout(out, s, from, to, left_out) ==
    /\ out \in [0 .. to - from -> Strings] /\ out[0] = << >>
    /\ \A k \in 1 .. to - from :
          out[k] = IF s[from + k] \in left_out THEN out[k - 1]
                   ELSE Append(out[k - 1], s[from + k])
    /\ Without(s, from, to, left_out) = out[to - from]

LEMMA WithoutIs ==
    ASSUME NEW s \in Strings, NEW from \in Nat, NEW to \in Nat, from <= to,
           to <= Len(s), NEW left_out
    PROVE  \E out : IsWithout(out, s, from, to, left_out)
<1> DEFINE n == to - from
           none == << >>
           Keep(x, c) == IF c \in left_out THEN x ELSE Append(x, c)
           step == [k \in 1 .. n |-> [x \in Strings |-> Keep(x, s[from + k])]]
           Is(g) == g = [k \in 0 .. n |-> IF k = 0 THEN << >>
                          ELSE IF s[from + k] \in left_out THEN g[k - 1]
                          ELSE Append(g[k - 1], s[from + k])]
           f == CHOOSE g : Is(g)
<1>1. n \in Nat /\ \A k \in 1 .. n : s[from + k] \in Characters
  <2>1. n \in Nat
    OBVIOUS
  <2>2. ASSUME NEW k \in 1 .. n PROVE s[from + k] \in Characters
    <3>1. from + k \in 1 .. Len(s)
      BY CharactersOf
    <3> QED
      BY <3>1, CharactersOf
  <2> QED
    BY <2>1, <2>2
<1>2. step \in [1 .. n -> [Strings -> Strings]]
  <2> SUFFICES ASSUME NEW k \in 1 .. n, NEW x \in Strings PROVE Keep(x, s[from + k]) \in Strings
    OBVIOUS
  <2> QED
    BY <1>1, OneMoreCharacter
<1>3. \A k \in 1 .. n : \A x \in Strings : step[k][x] = Keep(x, s[from + k])
  OBVIOUS
<1>4. none \in Strings
  BY NoCharacters
<1> HIDE DEF step, n, none
<1>5. PICK g : IsLoop(g, n, Strings, none, step)
  BY <1>1, <1>2, <1>4, LoopExists
<1>6. /\ g \in [0 .. n -> Strings] /\ g[0] = none
      /\ \A k \in 1 .. n : g[k] = step[k][g[k - 1]]
  BY <1>5 DEF IsLoop
<1>7. ASSUME NEW k \in 1 .. n PROVE g[k] = Keep(g[k - 1], s[from + k])
  <2>1. g[k - 1] \in Strings
    BY <1>1, <1>6
  <2> HIDE DEF Keep
  <2> QED
    BY <1>3, <1>6, <2>1
<1>8. Is(g)
  <2>1. ASSUME NEW i \in 0 .. n PROVE g[i] = IF i = 0 THEN none ELSE Keep(g[i - 1], s[from + i])
    <3>1. i # 0 => i \in 1 .. n
      BY <1>1
    <3> HIDE DEF Keep
    <3> QED
      BY <1>6, <1>7, <3>1
  <2>2. g = [i \in 0 .. n |-> IF i = 0 THEN none ELSE Keep(g[i - 1], s[from + i])]
    <3> HIDE DEF Keep
    <3> QED
      BY <1>6, <2>1
  <2> QED
    BY <2>2 DEF none
<1>9. Is(f)
  <2> HIDE DEF Is
  <2> QED
    BY <1>8
<1>10. Without(s, from, to, left_out) = f[n]
  BY Zenon DEF Without, n
<1> HIDE DEF f
<1>11. \A i \in 0 .. n : f[i] = IF i = 0 THEN none ELSE Keep(f[i - 1], s[from + i])
  BY <1>9 DEF none
<1> DEFINE P == {i \in 0 .. n : f[i] = g[i]}
<1> HIDE DEF Keep
<1>12. \A i \in 0 .. n : i \in P
  <2>1. 0 \in P
    BY <1>1, <1>6, <1>11
  <2>2. ASSUME NEW i \in 1 .. n, i - 1 \in P PROVE i \in P
    <3>1. i \in 0 .. n /\ i # 0 /\ f[i - 1] = g[i - 1]
      BY <1>1, <2>2
    <3> QED
      BY <1>7, <1>11, <3>1
  <2> HIDE DEF P
  <2> QED
    BY <1>1, <2>1, <2>2, InductionTo
<1>13. Without(s, from, to, left_out) = g[n]
  <2>1. n \in 0 .. n
    BY <1>1
  <2>2. f[n] = g[n]
    BY <1>12, <2>1
  <2> QED
    BY <1>10, <2>2
<1>14. g[0] = << >>
  BY <1>6 DEF none
<1>15. \A k \in 1 .. n : g[k] = IF s[from + k] \in left_out THEN g[k - 1]
                                ELSE Append(g[k - 1], s[from + k])
  BY <1>7 DEF Keep
<1> QED
  BY <1>6, <1>13, <1>14, <1>15 DEF IsWithout, n

\* It depends on those characters alone.
SameBehind(s, u, from, n) == \A k \in 1 .. n : s[from + k] = u[from + k]

LEMMA SameWithout ==
    ASSUME NEW s \in Strings, NEW u \in Strings, NEW from \in Nat, NEW n \in Nat,
           NEW e \in Nat, NEW h \in Nat, n <= e - from, n <= h - from,
           SameBehind(s, u, from, n), NEW left_out,
           NEW f, IsWithout(f, s, from, e, left_out),
           NEW g, IsWithout(g, u, from, h, left_out)
    PROVE  f[n] = g[n]
<1>1. /\ f[0] = << >> /\ g[0] = << >>
      /\ \A k \in 1 .. e - from :
            f[k] = IF s[from + k] \in left_out THEN f[k - 1] ELSE Append(f[k - 1], s[from + k])
      /\ \A k \in 1 .. h - from :
            g[k] = IF u[from + k] \in left_out THEN g[k - 1] ELSE Append(g[k - 1], u[from + k])
  BY DEF IsWithout
<1> DEFINE P == {k \in 0 .. n : f[k] = g[k]}
<1>2. 0 \in P
  BY <1>1
<1>3. ASSUME NEW k \in 1 .. n, k - 1 \in P PROVE k \in P
  <2>1. k \in 0 .. n /\ k \in 1 .. e - from /\ k \in 1 .. h - from /\ f[k - 1] = g[k - 1]
    BY <1>3
  <2>2. s[from + k] = u[from + k]
    BY DEF SameBehind
  <2>3. f[k] = g[k]
    BY <1>1, <2>1, <2>2
  <2> QED
    BY <2>1, <2>3
<1>4. n \in P
  <2> HIDE DEF P
  <2>1. \A k \in 0 .. n : k \in P
    BY <1>2, <1>3, InductionTo
  <2> QED
    BY <2>1
<1> QED
  BY <1>4

LEMMA WithoutStarts ==
    ASSUME NEW s \in Strings, NEW from \in Nat, from <= Len(s), NEW left_out
    PROVE  Without(s, from, from, left_out) = << >>
<1>1. PICK f : IsWithout(f, s, from, from, left_out)
  <2>1. from <= from
    OBVIOUS
  <2> QED
    BY <2>1, WithoutIs
<1>2. from - from = 0
  OBVIOUS
<1> QED
  BY <1>1, <1>2 DEF IsWithout

LEMMA WithoutGrows ==
    ASSUME NEW s \in Strings, NEW from \in Nat, NEW to \in Nat, from <= to,
           to < Len(s), NEW left_out
    PROVE  /\ Without(s, from, to, left_out) \in Strings
           /\ Without(s, from, to + 1, left_out) =
                 IF s[to + 1] \in left_out THEN Without(s, from, to, left_out)
                 ELSE Append(Without(s, from, to, left_out), s[to + 1])
<1> DEFINE n == to - from
           e == to + 1
<1>1. /\ n \in Nat /\ e \in Nat /\ n <= to - from /\ n <= e - from /\ from <= e
      /\ to <= Len(s) /\ e <= Len(s)
  BY CharactersOf
<1>2. e - from = n + 1 /\ n + 1 \in 1 .. e - from /\ (n + 1) - 1 = n /\ from + (n + 1) = e
  OBVIOUS
<1>3. to - from = n /\ n \in 0 .. to - from
  OBVIOUS
<1>4. PICK f : IsWithout(f, s, from, to, left_out)
  BY <1>1, WithoutIs
<1> HIDE DEF n, e
<1>5. PICK g : IsWithout(g, s, from, e, left_out)
  BY <1>1, WithoutIs
<1>6. f[n] = g[n]
  <2>1. SameBehind(s, s, from, n)
    BY DEF SameBehind
  <2> QED
    BY <1>1, <1>4, <1>5, <2>1, SameWithout
<1>7. Without(s, from, to, left_out) = f[n] /\ f[n] \in Strings
  BY <1>3, <1>4 DEF IsWithout
<1>8. /\ Without(s, from, e, left_out) = g[n + 1]
      /\ g[n + 1] = IF s[e] \in left_out THEN g[n] ELSE Append(g[n], s[e])
  BY <1>2, <1>5 DEF IsWithout
<1> QED
  BY <1>6, <1>7, <1>8 DEF e

\* A line of the reference, printed.
LEMMA PrintedGrows ==
    ASSUME NEW line \in Strings, NEW c \in Characters
    PROVE  /\ PrintedLine(line) \in Strings
           /\ PrintedLine(Append(line, c)) =
                 IF c = "CR" THEN PrintedLine(line) ELSE Append(PrintedLine(line), c)
<1> DEFINE t == Append(line, c)
           n == Len(line)
<1>1. t \in Strings /\ Len(t) = n + 1 /\ t[n + 1] = c /\ n \in Nat
      /\ \A i \in 1 .. n : t[i] = line[i]
  BY OneMoreCharacter, CharactersOf
<1> HIDE DEF t, n
<1>2. 0 \in Nat /\ n <= n - 0 /\ 0 <= n /\ n <= Len(t) /\ n <= Len(line) /\ n < Len(t)
      /\ n - 0 = n /\ n \in 0 .. n
  BY <1>1 DEF n
<1> DEFINE cr == {"CR"}
<1> HIDE DEF cr
<1>3. PICK f : IsWithout(f, line, 0, n, cr)
  BY <1>1, <1>2, WithoutIs
<1>4. PICK g : IsWithout(g, t, 0, n, cr)
  BY <1>1, <1>2, WithoutIs
<1>5. f[n] = g[n]
  <2>1. SameBehind(line, t, 0, n)
    BY <1>1 DEF SameBehind
  <2> QED
    BY <1>1, <1>2, <1>3, <1>4, <2>1, SameWithout
<1>6. Without(line, 0, n, {"CR"}) = f[n] /\ Without(t, 0, n, {"CR"}) = g[n] /\ f[n] \in Strings
  BY <1>2, <1>3, <1>4 DEF IsWithout, cr
<1>7. Without(t, 0, n + 1, {"CR"}) =
        IF t[n + 1] \in {"CR"} THEN Without(t, 0, n, {"CR"})
        ELSE Append(Without(t, 0, n, {"CR"}), t[n + 1])
  BY <1>1, <1>2, WithoutGrows
<1>8. PrintedLine(line) = f[n] /\ PrintedLine(t) = Without(t, 0, n + 1, {"CR"})
  BY <1>1, <1>6 DEF PrintedLine, n
<1> QED
  BY <1>1, <1>5, <1>6, <1>7, <1>8 DEF t

-----------------------------------------------------------------------------
\* The scan for the starts of the lines.
ScanStates == [i : Nat, len : Nat, starts : Seq(Nat)]

IsScanned(f, s) ==
    /\ f \in [0 .. Len(s) -> ScanStates]
    /\ f[0] = [i |-> 0, len |-> 0, starts |-> << 0 >>]
    /\ \A i \in 1 .. Len(s) : f[i] = LineStep(f[i - 1], s[i])

LEMMA LineStepTyped ==
    ASSUME NEW x \in ScanStates, NEW c \in Characters
    PROVE  LineStep(x, c) \in ScanStates
<1>1. x.starts \in Seq(Nat) /\ x.i + 1 \in Nat /\ x.len + 1 \in Nat
  BY DEF ScanStates
<1>2. Append(x.starts, x.i + 1) \in Seq(Nat)
  BY <1>1, AppendProperties
<1> QED
  BY <1>1, <1>2 DEF LineStep, ScanStates

LEMMA ScannedIs ==
    ASSUME NEW s \in Strings
    PROVE  IsScanned(Scanned(s), s)
<1> DEFINE n == Len(s)
           s0 == [i |-> 0, len |-> 0, starts |-> << 0 >>]
           step == [k \in 1 .. n |-> [x \in ScanStates |-> LineStep(x, s[k])]]
           Is(g) == g = [i \in 0 .. n |-> IF i = 0 THEN [i |-> 0, len |-> 0, starts |-> << 0 >>]
                                          ELSE LineStep(g[i - 1], s[i])]
           f == CHOOSE g : Is(g)
<1>1. n \in Nat /\ \A k \in 1 .. n : s[k] \in Characters
  BY CharactersOf
<1>2. step \in [1 .. n -> [ScanStates -> ScanStates]]
  <2> SUFFICES ASSUME NEW k \in 1 .. n, NEW x \in ScanStates
               PROVE  LineStep(x, s[k]) \in ScanStates
    OBVIOUS
  <2> QED
    BY <1>1, LineStepTyped
<1>3. \A k \in 1 .. n : \A x \in ScanStates : step[k][x] = LineStep(x, s[k])
  OBVIOUS
<1>4. s0 \in ScanStates
  BY DEF ScanStates
<1> HIDE DEF step, n, s0
<1>5. PICK g : IsLoop(g, n, ScanStates, s0, step)
  BY <1>1, <1>2, <1>4, LoopExists
<1>6. /\ g \in [0 .. n -> ScanStates] /\ g[0] = s0
      /\ \A k \in 1 .. n : g[k] = step[k][g[k - 1]]
  BY <1>5 DEF IsLoop
<1>7. ASSUME NEW k \in 1 .. n PROVE g[k] = LineStep(g[k - 1], s[k])
  <2>1. g[k - 1] \in ScanStates
    BY <1>1, <1>6
  <2> QED
    BY <1>3, <1>6, <2>1
<1>8. Is(g)
  <2>1. ASSUME NEW i \in 0 .. n PROVE g[i] = IF i = 0 THEN s0 ELSE LineStep(g[i - 1], s[i])
    <3>1. i # 0 => i \in 1 .. n
      BY <1>1
    <3> QED
      BY <1>6, <1>7, <3>1
  <2> QED
    BY <1>6, <2>1 DEF s0
<1>9. Is(f)
  <2> HIDE DEF Is
  <2> QED
    BY <1>8
<1>10. Scanned(s) = f
  BY Zenon DEF Scanned, n
<1> HIDE DEF f
<1>11. \A i \in 0 .. n : f[i] = IF i = 0 THEN s0 ELSE LineStep(f[i - 1], s[i])
  BY <1>9 DEF s0
<1> DEFINE P == {i \in 0 .. n : f[i] = g[i]}
<1>12. \A i \in 0 .. n : i \in P
  <2>1. 0 \in P
    BY <1>1, <1>6, <1>11
  <2>2. ASSUME NEW i \in 1 .. n, i - 1 \in P PROVE i \in P
    <3>1. i \in 0 .. n /\ i # 0 /\ f[i - 1] = g[i - 1]
      BY <1>1, <2>2
    <3> QED
      BY <1>7, <1>11, <3>1
  <2> HIDE DEF P
  <2> QED
    BY <1>1, <2>1, <2>2, InductionTo
<1>13. f = g
  <2>1. f = [i \in 0 .. n |-> f[i]]
    BY <1>9
  <2>2. \A i \in 0 .. n : f[i] = g[i]
    BY <1>12
  <2> QED
    BY <1>6, <2>1, <2>2
<1>14. g[0] = [i |-> 0, len |-> 0, starts |-> << 0 >>]
  BY <1>6 DEF s0
<1> QED
  BY <1>6, <1>7, <1>10, <1>13, <1>14 DEF IsScanned, n

\* The reference's lines, on the beginnings of the text.
PageTexts == {d \in Seq(Strings) : Len(d) # 0}

IsWrapped(f, s) ==
    /\ f \in [0 .. Len(s) -> PageTexts]
    /\ f[0] = << << >> >>
    /\ \A i \in 1 .. Len(s) : f[i] = Wrap(f[i - 1], s[i])
    /\ Wrapped(s) = f[Len(s)]

LEMMA NoLines ==
    << << >> >> \in PageTexts /\ Len(<< << >> >>) = 1 /\ << << >> >>[1] = << >>
<1> DEFINE none == << >>
<1>1. none \in Strings
  BY NoCharacters
<1> HIDE DEF none
<1>2. << none >> \in Seq(Strings) /\ Len(<< none >>) = 1 /\ << none >>[1] = none
  BY <1>1
<1> QED
  BY <1>2 DEF PageTexts, none

LEMMA LinesOf ==
    ASSUME NEW w \in PageTexts
    PROVE  /\ w \in Seq(Strings) /\ Len(w) \in Nat \ {0} /\ Len(w) \in 1 .. Len(w)
           /\ \A j \in 1 .. Len(w) : w[j] \in Strings
<1>1. w \in Seq(Strings) /\ Len(w) # 0
  BY DEF PageTexts
<1>2. Len(w) \in Nat /\ \A j \in 1 .. Len(w) : w[j] \in Strings
  BY <1>1, LenProperties, ElementOfSeq
<1> QED
  BY <1>1, <1>2

\* One more character: the last line is longer, or there is a new one.
LEMMA WrapIs ==
    ASSUME NEW w \in PageTexts, NEW c \in Characters
    PROVE  /\ Wrap(w, c) \in PageTexts
           /\ \A j \in 1 .. Len(w) - 1 : Wrap(w, c)[j] = w[j]
           /\ c = "LF" =>
                 /\ Len(Wrap(w, c)) = Len(w) + 1
                 /\ Wrap(w, c)[Len(w)] = w[Len(w)] /\ Wrap(w, c)[Len(w) + 1] = << >>
           /\ c # "LF" /\ Len(w[Len(w)]) + 1 >= WRAP =>
                 /\ Len(Wrap(w, c)) = Len(w) + 1
                 /\ Wrap(w, c)[Len(w)] = Append(w[Len(w)], c)
                 /\ Wrap(w, c)[Len(w) + 1] = << >>
           /\ c # "LF" /\ ~(Len(w[Len(w)]) + 1 >= WRAP) =>
                 /\ Len(Wrap(w, c)) = Len(w)
                 /\ Wrap(w, c)[Len(w)] = Append(w[Len(w)], c)
<1> DEFINE L == Len(w)
           last == w[L]
           more == Append(last, c)
           full == [w EXCEPT ![L] = more]
           none == << >>
<1>1. /\ w \in Seq(Strings) /\ L \in Nat \ {0} /\ L \in 1 .. Len(w) /\ last \in Strings
      /\ L = Len(w)
  BY LinesOf
<1>2. more \in Strings
  BY <1>1, OneMoreCharacter
<1>3. /\ full \in Seq(Strings) /\ Len(full) = L
      /\ \A j \in 1 .. L : full[j] = IF j = L THEN more ELSE w[j]
  <2> HIDE DEF more
  <2> QED
    BY <1>1, <1>2, ExceptSeq
<1>4. none \in Strings
  BY NoCharacters
<1>5. /\ c = "LF" => Wrap(w, c) = Append(w, none)
      /\ c # "LF" /\ Len(last) + 1 >= WRAP => Wrap(w, c) = Append(full, none)
      /\ c # "LF" /\ ~(Len(last) + 1 >= WRAP) => Wrap(w, c) = full
  BY Zenon DEF Wrap
<1> HIDE DEF L, last, more, full, none
<1>6. /\ Append(w, none) \in Seq(Strings) /\ Len(Append(w, none)) = L + 1
      /\ \A j \in 1 .. L : Append(w, none)[j] = w[j]
      /\ Append(w, none)[L + 1] = none
  BY <1>1, <1>4, AppendProperties
<1>7. /\ Append(full, none) \in Seq(Strings) /\ Len(Append(full, none)) = L + 1
      /\ \A j \in 1 .. L : Append(full, none)[j] = full[j]
      /\ Append(full, none)[L + 1] = none
  BY <1>3, <1>4, AppendProperties
<1>8. CASE c = "LF"
  <2>1. Wrap(w, c) = Append(w, none)
    BY <1>5, <1>8
  <2>2. L \in 1 .. L /\ L + 1 # 0 /\ \A j \in 1 .. L - 1 : j \in 1 .. L
    BY <1>1
  <2>3. Wrap(w, c) \in PageTexts /\ Len(Wrap(w, c)) = L + 1
    BY <1>6, <2>1, <2>2 DEF PageTexts
  <2>4. /\ \A j \in 1 .. L - 1 : Wrap(w, c)[j] = w[j]
        /\ Wrap(w, c)[L] = last /\ Wrap(w, c)[L + 1] = none
    BY <1>6, <2>1, <2>2 DEF last
  <2> QED
    BY <1>8, <2>3, <2>4 DEF L, last, none
<1>9. CASE c # "LF" /\ Len(last) + 1 >= WRAP
  <2>1. Wrap(w, c) = Append(full, none)
    BY <1>5, <1>9
  <2>2. L \in 1 .. L /\ L + 1 # 0 /\ \A j \in 1 .. L - 1 : j \in 1 .. L /\ j # L
    BY <1>1
  <2>3. Wrap(w, c) \in PageTexts /\ Len(Wrap(w, c)) = L + 1
    BY <1>7, <2>1, <2>2 DEF PageTexts
  <2>4. /\ \A j \in 1 .. L - 1 : Wrap(w, c)[j] = w[j]
        /\ Wrap(w, c)[L] = more /\ Wrap(w, c)[L + 1] = none
    BY <1>3, <1>7, <2>1, <2>2
  <2>5. c # "LF" /\ Len(w[Len(w)]) + 1 >= WRAP
    BY <1>9 DEF L, last
  <2>6. /\ Wrap(w, c) \in PageTexts /\ Len(Wrap(w, c)) = Len(w) + 1
        /\ \A j \in 1 .. Len(w) - 1 : Wrap(w, c)[j] = w[j]
    BY <2>3, <2>4 DEF L
  <2>7. Wrap(w, c)[Len(w)] = Append(w[Len(w)], c) /\ Wrap(w, c)[Len(w) + 1] = << >>
    BY <2>4 DEF L, last, none, more
  <2> QED
    BY <2>5, <2>6, <2>7
<1>10. CASE c # "LF" /\ ~(Len(last) + 1 >= WRAP)
  <2>1. Wrap(w, c) = full
    BY <1>5, <1>10
  <2>2. L \in 1 .. L /\ \A j \in 1 .. L - 1 : j \in 1 .. L /\ j # L
    BY <1>1
  <2>3. Wrap(w, c) \in PageTexts /\ Len(Wrap(w, c)) = L
    BY <1>1, <1>3, <2>1 DEF PageTexts
  <2>4. (\A j \in 1 .. L - 1 : Wrap(w, c)[j] = w[j]) /\ Wrap(w, c)[L] = more
    BY <1>3, <2>1, <2>2
  <2>5. c # "LF" /\ ~(Len(w[Len(w)]) + 1 >= WRAP)
    BY <1>10 DEF L, last
  <2>6. /\ Wrap(w, c) \in PageTexts /\ Len(Wrap(w, c)) = Len(w)
        /\ \A j \in 1 .. Len(w) - 1 : Wrap(w, c)[j] = w[j]
    BY <2>3, <2>4 DEF L
  <2>7. Wrap(w, c)[Len(w)] = Append(w[Len(w)], c)
    BY <2>4 DEF L, last, more
  <2> QED
    BY <2>5, <2>6, <2>7
<1> QED
  BY <1>8, <1>9, <1>10

LEMMA WrapTyped ==
    ASSUME NEW x \in PageTexts, NEW c \in Characters
    PROVE  Wrap(x, c) \in PageTexts
  BY WrapIs

LEMMA WrappedIs ==
    ASSUME NEW s \in Strings
    PROVE  \E f : IsWrapped(f, s)
<1> DEFINE n == Len(s)
           s0 == << << >> >>
           step == [k \in 1 .. n |-> [x \in PageTexts |-> Wrap(x, s[k])]]
           Is(g) == g = [i \in 0 .. n |-> IF i = 0 THEN << << >> >>
                                          ELSE Wrap(g[i - 1], s[i])]
           f == CHOOSE g : Is(g)
<1>1. n \in Nat /\ \A k \in 1 .. n : s[k] \in Characters
  BY CharactersOf
<1>2. step \in [1 .. n -> [PageTexts -> PageTexts]]
  <2> SUFFICES ASSUME NEW k \in 1 .. n, NEW x \in PageTexts
               PROVE  Wrap(x, s[k]) \in PageTexts
    OBVIOUS
  <2> QED
    BY <1>1, WrapTyped
<1>3. \A k \in 1 .. n : \A x \in PageTexts : step[k][x] = Wrap(x, s[k])
  OBVIOUS
<1>4. s0 \in PageTexts
  BY NoLines
<1> HIDE DEF step, n, s0
<1>5. PICK g : IsLoop(g, n, PageTexts, s0, step)
  BY <1>1, <1>2, <1>4, LoopExists
<1>6. /\ g \in [0 .. n -> PageTexts] /\ g[0] = s0
      /\ \A k \in 1 .. n : g[k] = step[k][g[k - 1]]
  BY <1>5 DEF IsLoop
<1>7. ASSUME NEW k \in 1 .. n PROVE g[k] = Wrap(g[k - 1], s[k])
  <2>1. g[k - 1] \in PageTexts
    BY <1>1, <1>6
  <2> QED
    BY <1>3, <1>6, <2>1
<1>8. Is(g)
  <2>1. ASSUME NEW i \in 0 .. n PROVE g[i] = IF i = 0 THEN s0 ELSE Wrap(g[i - 1], s[i])
    <3>1. i # 0 => i \in 1 .. n
      BY <1>1
    <3> QED
      BY <1>6, <1>7, <3>1
  <2> QED
    BY <1>6, <2>1 DEF s0
<1>9. Is(f)
  <2> HIDE DEF Is
  <2> QED
    BY <1>8
<1>10. Wrapped(s) = f[n]
  BY Zenon DEF Wrapped, n
<1> HIDE DEF f
<1>11. \A i \in 0 .. n : f[i] = IF i = 0 THEN s0 ELSE Wrap(f[i - 1], s[i])
  BY <1>9 DEF s0
<1> DEFINE P == {i \in 0 .. n : f[i] = g[i]}
<1>12. \A i \in 0 .. n : i \in P
  <2>1. 0 \in P
    BY <1>1, <1>6, <1>11
  <2>2. ASSUME NEW i \in 1 .. n, i - 1 \in P PROVE i \in P
    <3>1. i \in 0 .. n /\ i # 0 /\ f[i - 1] = g[i - 1]
      BY <1>1, <2>2
    <3> QED
      BY <1>7, <1>11, <3>1
  <2> HIDE DEF P
  <2> QED
    BY <1>1, <2>1, <2>2, InductionTo
<1>13. f = g /\ n \in 0 .. n
  <2>1. f = [i \in 0 .. n |-> f[i]]
    BY <1>9
  <2>2. \A i \in 0 .. n : f[i] = g[i]
    BY <1>12
  <2> QED
    BY <1>1, <1>6, <2>1, <2>2
<1>14. g[0] = << << >> >>
  BY <1>6 DEF s0
<1> QED
  BY <1>6, <1>7, <1>10, <1>13, <1>14 DEF IsWrapped, n

-----------------------------------------------------------------------------
\* The two scans side by side, after i characters of the text.
LineOf(s, from, to, line) == Without(s, from, to, {"LF", "CR"}) = PrintedLine(line)

LastLine(s, i, x, w) ==
    /\ Len(w) = Len(x.starts) /\ x.i = i /\ x.len = Len(w[Len(w)])
    /\ LineOf(s, x.starts[Len(w)], i, w[Len(w)])

SideBySide(s, i, x, w) ==
    /\ Len(x.starts) \in 1 .. MAX_LINES /\ Len(x.starts) <= Len(w)
    /\ \A j \in 1 .. Len(x.starts) : x.starts[j] \in 0 .. i
    /\ \A j \in 1 .. Len(x.starts) - 1 :
          x.starts[j] < x.starts[j + 1] /\ LineOf(s, x.starts[j], x.starts[j + 1], w[j])
    /\ Len(x.starts) < MAX_LINES => LastLine(s, i, x, w)

LEMMA NewLine ==
    ASSUME NEW s \in Strings, NEW from \in Nat, from <= Len(s)
    PROVE  LineOf(s, from, from, << >>)
<1> DEFINE none == << >>
           ends == {"LF", "CR"}
<1>1. none \in Strings /\ Len(none) = 0 /\ 0 \in Nat /\ 0 <= 0
  BY NoCharacters
<1>2. Without(s, from, from, ends) = none
  <2> HIDE DEF ends
  <2> QED
    BY WithoutStarts
<1>3. PrintedLine(none) = none
  <2> DEFINE cr == {"CR"}
  <2>1. Without(none, 0, 0, cr) = << >>
    <3> HIDE DEF none, cr
    <3> QED
      BY <1>1, WithoutStarts
  <2>2. PrintedLine(none) = Without(none, 0, Len(none), cr)
    BY DEF PrintedLine
  <2> HIDE DEF cr
  <2> QED
    BY <1>1, <2>1, <2>2
<1> HIDE DEF none
<1>4. LineOf(s, from, from, none)
  BY <1>2, <1>3 DEF LineOf
<1> QED
  BY <1>4 DEF none

\* One more character of the line that is still open.
LEMMA LineGrows ==
    ASSUME NEW s \in Strings, NEW from \in Nat, NEW to \in Nat, from <= to,
           to < Len(s), NEW line \in Strings, LineOf(s, from, to, line)
    PROVE  /\ s[to + 1] = "LF" => LineOf(s, from, to + 1, line)
           /\ s[to + 1] # "LF" => LineOf(s, from, to + 1, Append(line, s[to + 1]))
<1> DEFINE c == s[to + 1]
           ends == {"LF", "CR"}
           A == Without(s, from, to, ends)
           B == Without(s, from, to + 1, ends)
<1>1. c \in Characters
  <2>1. to + 1 \in 1 .. Len(s)
    BY CharactersOf
  <2> QED
    BY <2>1, CharactersOf
<1>2. B = IF c \in ends THEN A ELSE Append(A, c)
  <2> HIDE DEF ends
  <2> QED
    BY WithoutGrows
<1>3. A = PrintedLine(line)
  BY DEF LineOf
<1>4. PrintedLine(Append(line, c)) = IF c = "CR" THEN PrintedLine(line)
                                     ELSE Append(PrintedLine(line), c)
  <2> HIDE DEF c
  <2> QED
    BY <1>1, PrintedGrows
<1>5. c \in ends <=> c = "LF" \/ c = "CR"
  OBVIOUS
<1>6. /\ LineOf(s, from, to + 1, line) <=> B = PrintedLine(line)
      /\ LineOf(s, from, to + 1, Append(line, c)) <=> B = PrintedLine(Append(line, c))
  BY DEF LineOf
<1> HIDE DEF c, ends, A, B
<1>7. /\ c = "LF" => B = PrintedLine(line)
      /\ c # "LF" => B = PrintedLine(Append(line, c))
  BY <1>2, <1>3, <1>4, <1>5
<1> QED
  BY <1>6, <1>7 DEF c

LEMMA SideBySideStarts ==
    ASSUME NEW s \in Strings
    PROVE  SideBySide(s, 0, [i |-> 0, len |-> 0, starts |-> << 0 >>], << << >> >>)
<1> DEFINE none == << >>
           w == << none >>
           b == << 0 >>
           x == [i |-> 0, len |-> 0, starts |-> b]
<1>1. Len(w) = 1 /\ w[1] = none /\ Len(none) = 0
  BY NoLines, NoCharacters
<1>2. Len(b) = 1 /\ b[1] = 0
  OBVIOUS
<1>3. LineOf(s, 0, 0, none)
  <2>1. 0 \in Nat /\ 0 <= Len(s)
    BY CharactersOf
  <2> QED
    BY <2>1, NewLine
<1>4. MAX_LINES \in Nat /\ 1 <= MAX_LINES
  BY PageAssumption
<1>5. x.i = 0 /\ x.len = 0 /\ x.starts = b
  OBVIOUS
<1> HIDE DEF none, w, b, x
<1>6. LastLine(s, 0, x, w)
  BY <1>1, <1>2, <1>3, <1>5 DEF LastLine
<1>7. SideBySide(s, 0, x, w)
  <2>1. Len(x.starts) = 1 /\ x.starts[1] = 0
    BY <1>2, <1>5
  <2>2. 1 \in 1 .. MAX_LINES /\ 1 <= 1 /\ 0 \in 0 .. 0 /\ 1 .. 1 = {1} /\ 1 .. 1 - 1 = {}
    BY <1>4
  <2>3. \A j \in 1 .. Len(x.starts) : x.starts[j] \in 0 .. 0
    BY <2>1, <2>2
  <2>4. 1 .. Len(x.starts) - 1 = {}
    BY <2>1, <2>2
  <2>5. Len(x.starts) \in 1 .. MAX_LINES /\ Len(x.starts) <= Len(w)
    BY <1>1, <2>1, <2>2
  <2> QED
    BY <1>6, <2>3, <2>4, <2>5 DEF SideBySide
<1> QED
  BY <1>7 DEF none, w, b, x

LEMMA SideBySideGoesOn ==
    ASSUME NEW s \in Strings, NEW i \in 1 .. Len(s), NEW x \in ScanStates, NEW w \in PageTexts,
           SideBySide(s, i - 1, x, w)
    PROVE  SideBySide(s, i, LineStep(x, s[i]), Wrap(w, s[i]))
<1> DEFINE c == s[i]
           st == x.starts
           n == Len(st)
           L == Len(w)
           X == LineStep(x, c)
           W == Wrap(w, c)
           longer == Append(st, i)
           line == w[n]
           a == st[n]
<1>1. /\ i \in Nat /\ i - 1 \in Nat /\ i - 1 < Len(s) /\ i <= Len(s) /\ (i - 1) + 1 = i
      /\ c \in Characters /\ Len(s) \in Nat /\ i - 1 < i
  BY CharactersOf
<1>2. /\ st \in Seq(Nat) /\ n \in Nat /\ \A j \in 1 .. n : st[j] \in Nat
  <2>1. st \in Seq(Nat)
    BY DEF ScanStates
  <2> QED
    BY <2>1, LenProperties, ElementOfSeq
<1>3. /\ n \in 1 .. MAX_LINES /\ n <= L
      /\ \A j \in 1 .. n : st[j] \in 0 .. i - 1
      /\ \A j \in 1 .. n - 1 : st[j] < st[j + 1] /\ LineOf(s, st[j], st[j + 1], w[j])
      /\ n < MAX_LINES => LastLine(s, i - 1, x, w)
  BY DEF SideBySide
<1>4. L \in Nat \ {0} /\ \A j \in 1 .. L : w[j] \in Strings
  BY LinesOf
<1>5. MAX_LINES \in Nat /\ WRAP \in Nat
  BY PageAssumption
<1>6. /\ longer \in Seq(Nat) /\ Len(longer) = n + 1 /\ longer[n + 1] = i
      /\ \A j \in 1 .. n : longer[j] = st[j]
  BY <1>1, <1>2, AppendProperties
<1>7. /\ W \in PageTexts /\ \A j \in 1 .. L - 1 : W[j] = w[j]
      /\ c = "LF" => Len(W) = L + 1 /\ W[L] = w[L] /\ W[L + 1] = << >>
      /\ c # "LF" /\ Len(w[L]) + 1 >= WRAP =>
            Len(W) = L + 1 /\ W[L] = Append(w[L], c) /\ W[L + 1] = << >>
      /\ c # "LF" /\ ~(Len(w[L]) + 1 >= WRAP) =>
            Len(W) = L /\ W[L] = Append(w[L], c)
  <2> HIDE DEF c
  <2> QED
    BY <1>1, WrapIs
<1>8. /\ n >= MAX_LINES => X = x
      /\ ~(n >= MAX_LINES) /\ (c = "LF" \/ x.len + 1 >= WRAP) =>
            X = [i |-> x.i + 1, len |-> 0, starts |-> Append(st, x.i + 1)]
      /\ ~(n >= MAX_LINES) /\ ~(c = "LF" \/ x.len + 1 >= WRAP) =>
            X = [x EXCEPT !.i = @ + 1, !.len = @ + 1]
  BY Zenon DEF LineStep
<1>9. \A j \in 1 .. n - 1 : j \in 1 .. n /\ j + 1 \in 1 .. n /\ j \in 1 .. L - 1
  BY <1>2, <1>3, <1>4
<1> HIDE DEF c, X, W
<1>10. CASE n >= MAX_LINES
  <2>1. X = x /\ n = MAX_LINES
    BY <1>3, <1>5, <1>8, <1>10
  <2>2. Len(W) >= L
    BY <1>4, <1>7
  <2>3. n <= Len(W)
    <3>1. Len(W) \in Nat
      BY <1>4, <1>7, LinesOf
    <3> QED
      BY <1>2, <1>3, <1>4, <2>2, <3>1
  <2>4. \A j \in 1 .. n : st[j] \in 0 .. i
    BY <1>1, <1>3
  <2>5. \A j \in 1 .. n - 1 : st[j] < st[j + 1] /\ LineOf(s, st[j], st[j + 1], W[j])
    <3> HIDE DEF n, st, L
    <3> QED
      BY <1>3, <1>7, <1>9
  <2>6. ~(n < MAX_LINES)
    BY <1>2, <1>5, <1>10
  <2>7. X.starts = st
    BY <2>1
  <2> HIDE DEF st
  <2>8. SideBySide(s, i, X, W)
    BY <1>3, <2>3, <2>4, <2>5, <2>6, <2>7 DEF SideBySide
  <2> QED
    BY <2>8 DEF X, W, c
<1>11. ASSUME ~(n >= MAX_LINES)
       PROVE  /\ n < MAX_LINES /\ n = L /\ x.i = i - 1 /\ x.len = Len(line)
              /\ LineOf(s, a, i - 1, line) /\ n \in 1 .. n
              /\ a \in Nat /\ a <= i - 1 /\ line \in Strings /\ w[L] = line
              /\ n \in Nat \ {0} /\ n + 1 \in 1 .. MAX_LINES
  <2>1. n < MAX_LINES
    BY <1>2, <1>5, <1>11
  <2>2. LastLine(s, i - 1, x, w)
    BY <1>3, <2>1
  <2>3. /\ L = n /\ x.i = i - 1 /\ x.len = Len(w[L]) /\ LineOf(s, st[L], i - 1, w[L])
    BY <2>2 DEF LastLine
  <2>4. n \in 1 .. n /\ n \in Nat \ {0} /\ n + 1 \in 1 .. MAX_LINES
    BY <1>3, <1>5, <2>1
  <2>5. a \in 0 .. i - 1
    BY <1>3, <2>4
  <2>6. line \in Strings
    BY <1>4, <2>3, <2>4
  <2>7. a \in Nat /\ a <= i - 1
    BY <1>1, <2>5
  <2> QED
    BY <2>1, <2>3, <2>4, <2>6, <2>7
<1>12. ASSUME ~(n >= MAX_LINES)
       PROVE  /\ c = "LF" => LineOf(s, a, i, line)
              /\ c # "LF" => LineOf(s, a, i, Append(line, c))
  <2> DEFINE k == i - 1
  <2>1. /\ k \in Nat /\ a \in Nat /\ a <= k /\ k < Len(s) /\ line \in Strings
        /\ LineOf(s, a, k, line) /\ k + 1 = i
    BY <1>1, <1>11, <1>12
  <2> HIDE DEF k, a, line
  <2>2. /\ s[k + 1] = "LF" => LineOf(s, a, k + 1, line)
        /\ s[k + 1] # "LF" => LineOf(s, a, k + 1, Append(line, s[k + 1]))
    BY <2>1, LineGrows
  <2> QED
    BY <2>1, <2>2 DEF c
<1>13. CASE ~(n >= MAX_LINES) /\ (c = "LF" \/ x.len + 1 >= WRAP)
  <2>1. /\ n < MAX_LINES /\ n = L /\ x.i = i - 1 /\ x.len = Len(line) /\ n \in 1 .. n
        /\ a \in Nat /\ a <= i - 1 /\ w[L] = line /\ n \in Nat \ {0}
        /\ n + 1 \in 1 .. MAX_LINES
    BY <1>11, <1>13
  <2>2. X = [i |-> i, len |-> 0, starts |-> longer]
    <3>1. x.i + 1 = i
      BY <1>1, <2>1
    <3> QED
      BY <1>8, <1>13, <3>1
  <2>3. X.starts = longer /\ X.i = i /\ X.len = 0
    <3> HIDE DEF longer
    <3> QED
      BY <2>2
  <2>4. Len(W) = n + 1 /\ W[n + 1] = << >> /\ LineOf(s, a, i, W[n])
    <3>1. CASE c = "LF"
      <4>1. Len(W) = L + 1 /\ W[L] = w[L] /\ W[L + 1] = << >>
        BY <1>7, <3>1
      <4> QED
        BY <1>12, <1>13, <2>1, <3>1, <4>1
    <3>2. CASE c # "LF"
      <4>1. Len(w[L]) + 1 >= WRAP
        BY <1>13, <2>1, <3>2
      <4>2. Len(W) = L + 1 /\ W[L] = Append(w[L], c) /\ W[L + 1] = << >>
        BY <1>7, <3>2, <4>1
      <4> QED
        BY <1>12, <1>13, <2>1, <3>2, <4>2
    <3> QED
      BY <3>1, <3>2
  <2>5. LineOf(s, i, i, << >>)
    BY <1>1, NewLine
  <2> HIDE DEF longer
  <2>6. \A j \in 1 .. n + 1 : longer[j] \in 0 .. i
    <3> TAKE j \in 1 .. n + 1
    <3>1. CASE j = n + 1
      BY <1>1, <1>6, <3>1
    <3>2. CASE j # n + 1
      <4>1. j \in 1 .. n
        BY <2>1, <3>2
      <4>2. st[j] \in 0 .. i - 1
        BY <1>3, <4>1
      <4> QED
        BY <1>1, <1>6, <4>1, <4>2
    <3> QED
      BY <3>1, <3>2
  <2>7. \A j \in 1 .. n : longer[j] < longer[j + 1] /\ LineOf(s, longer[j], longer[j + 1], W[j])
    <3> TAKE j \in 1 .. n
    <3>1. CASE j = n
      <4>1. longer[j] = a /\ longer[j + 1] = i
        BY <1>6, <2>1, <3>1
      <4>2. a < i
        BY <1>1, <2>1
      <4> QED
        BY <2>4, <3>1, <4>1, <4>2
    <3>2. CASE j # n
      <4>1. j \in 1 .. n - 1
        BY <2>1, <3>2
      <4>2. st[j] < st[j + 1] /\ LineOf(s, st[j], st[j + 1], w[j])
        BY <1>3, <4>1
      <4>3. j \in 1 .. n /\ j + 1 \in 1 .. n /\ j \in 1 .. L - 1
        BY <1>9, <4>1
      <4>4. longer[j] = st[j] /\ longer[j + 1] = st[j + 1] /\ W[j] = w[j]
        BY <1>6, <1>7, <4>3
      <4> HIDE DEF st, n, L
      <4> QED
        BY <4>2, <4>4
    <3> QED
      BY <3>1, <3>2
  <2>8. Len(X.starts) = n + 1
    BY <1>6, <2>3
  <2>9. X.starts[n + 1] = i
    BY <1>6, <2>3
  <2>10. LastLine(s, i, X, W)
    <3>1. Len(<< >>) = 0
      BY NoCharacters
    <3> DEFINE none == << >>
    <3>2. W[n + 1] = none /\ LineOf(s, i, i, none) /\ Len(none) = 0
      BY <2>4, <2>5, <3>1
    <3> HIDE DEF n, none
    <3>3. Len(W) = n + 1
      BY <2>4
    <3> QED
      BY <2>3, <2>8, <2>9, <3>2, <3>3 DEF LastLine
  <2>11. n + 1 <= Len(W) /\ (n + 1) - 1 = n
    BY <2>1, <2>4
  <2>12. SideBySide(s, i, X, W)
    <3>1. Len(X.starts) \in 1 .. MAX_LINES /\ Len(X.starts) <= Len(W)
      BY <2>1, <2>8, <2>11
    <3>2. \A j \in 1 .. Len(X.starts) : X.starts[j] \in 0 .. i
      BY <2>3, <2>6, <2>8
    <3>3. \A j \in 1 .. Len(X.starts) - 1 :
             X.starts[j] < X.starts[j + 1] /\ LineOf(s, X.starts[j], X.starts[j + 1], W[j])
      BY <2>3, <2>7, <2>8, <2>11
    <3> QED
      BY <2>10, <3>1, <3>2, <3>3 DEF SideBySide
  <2> QED
    BY <2>12 DEF X, W, c
<1>14. CASE ~(n >= MAX_LINES) /\ ~(c = "LF" \/ x.len + 1 >= WRAP)
  <2>1. /\ n < MAX_LINES /\ n = L /\ x.i = i - 1 /\ x.len = Len(line) /\ n \in 1 .. n
        /\ a \in Nat /\ a <= i - 1 /\ w[L] = line /\ n \in Nat \ {0} /\ line \in Strings
        /\ n + 1 \in 1 .. MAX_LINES
    BY <1>11, <1>14
  <2>2. X.starts = st /\ X.i = i /\ X.len = x.len + 1
    <3>1. x.i + 1 = i
      BY <1>1, <2>1
    <3>2. X = [x EXCEPT !.i = @ + 1, !.len = @ + 1]
      BY <1>8, <1>14
    <3> QED
      BY <3>1, <3>2 DEF ScanStates
  <2>3. c # "LF" /\ ~(Len(w[L]) + 1 >= WRAP)
    BY <1>14, <2>1
  <2>4. Len(W) = L /\ W[L] = Append(w[L], c)
    BY <1>7, <2>3
  <2>5. LineOf(s, a, i, W[n])
    BY <1>12, <1>14, <2>1, <2>3, <2>4
  <2>6. Len(W[n]) = x.len + 1
    <3>1. Len(Append(line, c)) = Len(line) + 1
      BY <1>1, <2>1, OneMoreCharacter
    <3> QED
      BY <2>1, <2>4, <3>1
  <2>7. \A j \in 1 .. n : st[j] \in 0 .. i
    BY <1>1, <1>3
  <2>8. \A j \in 1 .. n - 1 : st[j] < st[j + 1] /\ LineOf(s, st[j], st[j + 1], W[j])
    <3> HIDE DEF n, st, L
    <3> QED
      BY <1>3, <1>7, <1>9
  <2>9. LastLine(s, i, X, W)
    <3>1. Len(W) = n /\ Len(X.starts) = n /\ X.starts[n] = a
      BY <2>1, <2>2, <2>4
    <3> HIDE DEF n, a
    <3> QED
      BY <2>2, <2>5, <2>6, <3>1 DEF LastLine
  <2>10. SideBySide(s, i, X, W)
    <3>1. Len(X.starts) \in 1 .. MAX_LINES /\ Len(X.starts) <= Len(W)
      BY <1>3, <2>2, <2>1, <2>4
    <3> HIDE DEF st
    <3>2. \A j \in 1 .. Len(X.starts) : X.starts[j] \in 0 .. i
      BY <2>2, <2>7
    <3>3. \A j \in 1 .. Len(X.starts) - 1 :
             X.starts[j] < X.starts[j + 1] /\ LineOf(s, X.starts[j], X.starts[j + 1], W[j])
      BY <2>2, <2>8
    <3> QED
      BY <2>9, <3>1, <3>2, <3>3 DEF SideBySide
  <2> QED
    BY <2>10 DEF X, W, c
<1> QED
  BY <1>10, <1>13, <1>14

\* The whole text.
LEMMA LinesOfTheText ==
    ASSUME NEW s \in Strings
    PROVE  \E x \in ScanStates, w \in PageTexts :
              get_lines(s) = x.starts /\ Wrapped(s) = w /\ SideBySide(s, Len(s), x, w)
<1> DEFINE n == Len(s)
           f == Scanned(s)
<1>1. n \in Nat /\ n \in 0 .. n
  BY CharactersOf
<1>2. IsScanned(f, s)
  BY ScannedIs
<1>3. /\ f \in [0 .. n -> ScanStates] /\ f[0] = [i |-> 0, len |-> 0, starts |-> << 0 >>]
      /\ \A i \in 1 .. n : f[i] = LineStep(f[i - 1], s[i])
  BY <1>2 DEF IsScanned
<1>4. PICK g : IsWrapped(g, s)
  BY WrappedIs
<1>5. /\ g \in [0 .. n -> PageTexts] /\ g[0] = << << >> >>
      /\ \A i \in 1 .. n : g[i] = Wrap(g[i - 1], s[i])
      /\ Wrapped(s) = g[n]
  BY <1>4 DEF IsWrapped
<1>6. get_lines(s) = f[n].starts
  BY DEF get_lines
<1> HIDE DEF f, n
<1> DEFINE Both(i) == SideBySide(s, i, f[i], g[i])
           P == {i \in 0 .. n : Both(i)}
<1>7. Both(0)
  BY <1>3, <1>5, SideBySideStarts
<1>8. ASSUME NEW i \in 1 .. n, i - 1 \in P PROVE i \in P
  <2>1. i \in 0 .. n /\ i - 1 \in 0 .. n /\ i \in 1 .. Len(s)
    BY <1>1 DEF n
  <2>2. Both(i - 1)
    BY <1>8
  <2>3. f[i - 1] \in ScanStates /\ g[i - 1] \in PageTexts
    BY <1>3, <1>5, <2>1
  <2>4. SideBySide(s, i, LineStep(f[i - 1], s[i]), Wrap(g[i - 1], s[i]))
    BY <2>1, <2>2, <2>3, SideBySideGoesOn
  <2>5. Both(i)
    BY <1>3, <1>5, <2>4
  <2> HIDE DEF Both
  <2> QED
    BY <2>1, <2>5
<1>9. \A i \in 0 .. n : i \in P
  <2>1. 0 \in P
    <3> HIDE DEF Both
    <3> QED
      BY <1>1, <1>7
  <2> HIDE DEF P
  <2> QED
    BY <1>1, <1>8, <2>1, InductionTo
<1>10. Both(n)
  <2> HIDE DEF Both
  <2> QED
    BY <1>1, <1>9
<1>11. f[n] \in ScanStates /\ g[n] \in PageTexts
  BY <1>1, <1>3, <1>5
<1>12. SideBySide(s, Len(s), f[n], g[n])
  BY <1>10 DEF n
<1> QED
  BY <1>5, <1>6, <1>11, <1>12

\* What get_lines returns, and what a line of the window shows by it.
LEMMA StartsTyped ==
    ASSUME NEW s \in Strings
    PROVE  /\ get_lines(s) \in Seq(Nat) /\ Len(get_lines(s)) \in 1 .. MAX_LINES
           /\ \A j \in 1 .. Len(get_lines(s)) : get_lines(s)[j] \in Nat
<1>1. PICK x \in ScanStates, w \in PageTexts :
         get_lines(s) = x.starts /\ Wrapped(s) = w /\ SideBySide(s, Len(s), x, w)
  BY LinesOfTheText
<1>2. x.starts \in Seq(Nat)
  BY DEF ScanStates
<1>3. Len(x.starts) \in 1 .. MAX_LINES
  BY <1>1 DEF SideBySide
<1>4. \A j \in 1 .. Len(x.starts) : x.starts[j] \in Nat
  BY <1>2, ElementOfSeq
<1> QED
  BY <1>1, <1>2, <1>3, <1>4

LEMMA SegmentIsTheLine ==
    ASSUME NEW s \in Strings, NEW place \in Nat,
           place + 1 < Len(get_lines(s))
    PROVE  Segment(s, StartsKept(get_lines(s)), place) = PrintedLine(Wrapped(s)[place + 1])
<1> DEFINE n == Len(s)
           a == StartsKept(get_lines(s))
           j == place + 1
           L == Len(get_lines(s))
<1>1. PICK x \in ScanStates, w \in PageTexts :
         get_lines(s) = x.starts /\ Wrapped(s) = w /\ SideBySide(s, Len(s), x, w)
  BY LinesOfTheText
<1> DEFINE st == x.starts
<1>2. n \in Nat /\ MAX_LINES \in Nat
  BY CharactersOf, PageAssumption
<1>3. /\ Len(st) \in 1 .. MAX_LINES /\ \A k \in 1 .. Len(st) : st[k] \in 0 .. n
      /\ \A k \in 1 .. Len(st) - 1 : st[k] < st[k + 1] /\ LineOf(s, st[k], st[k + 1], w[k])
  BY <1>1 DEF SideBySide
<1>4. Len(st) = L
  BY <1>1
<1> HIDE DEF st, n, L
<1>5. j + 1 <= L /\ L \in Nat /\ L <= MAX_LINES
  BY <1>2, <1>3, <1>4 DEF L
<1>6. j \in 1 .. L /\ j + 1 \in 1 .. L /\ j \in 1 .. L - 1
      /\ place \in 0 .. MAX_LINES /\ place + 1 \in 0 .. MAX_LINES /\ place < L /\ place + 1 < L
  BY <1>2, <1>5
<1>7. a[place] = st[j] /\ a[place + 1] = st[j + 1]
  <2>1. \A k \in 0 .. MAX_LINES : k < L => a[k] = st[k + 1]
    BY <1>1 DEF StartsKept, L, st
  <2> HIDE DEF a
  <2> QED
    BY <1>6, <2>1
<1>8. /\ st[j] \in Nat /\ st[j + 1] \in Nat /\ st[j] < st[j + 1] /\ st[j + 1] <= n
      /\ LineOf(s, st[j], st[j + 1], w[j])
  BY <1>2, <1>3, <1>4, <1>6
<1> DEFINE b == st[j]
           e == st[j + 1]
<1> HIDE DEF a, b, e
<1>9. a[place] = b /\ a[place + 1] = e /\ b \in Nat /\ e \in Nat /\ b < e /\ e <= n
  BY <1>7, <1>8 DEF b, e
<1>10. b < n /\ ~(e <= b)
  BY <1>2, <1>9
<1>11. LineEnd(s, a, place) = e
  BY <1>9, <1>10 DEF LineEnd, n
<1>12. (IF e < n THEN e ELSE n) = e
  BY <1>2, <1>9
<1>13. Segment(s, a, place) = Without(s, b, e, {"LF", "CR"})
  BY <1>9, <1>11, <1>12 DEF Segment, n
<1>14. Without(s, b, e, {"LF", "CR"}) = PrintedLine(w[j])
  BY <1>8 DEF LineOf, b, e
<1> QED
  BY <1>1, <1>13, <1>14 DEF a

\* The place the window is scrolled to.
LEMMA ClampedIs ==
    ASSUME NEW offset \in Nat, NEW total \in Nat
    PROVE  /\ Clamped(offset, total) \in 0 .. offset
           /\ Clamped(offset, total) <= total
           /\ total >= VISIBLE => Clamped(offset, total) <= total - VISIBLE
           /\ ~(total >= VISIBLE) => Clamped(offset, total) = 0
  BY PageAssumption DEF Clamped

LEMMA ThumbStaysOnTheTrack ==
    ASSUME NEW d \in Nat \ {0}, NEW first \in 0 .. d, NEW t \in Nat
    PROVE  (first * t) \div d \in 0 .. t
<1> DEFINE A == first * t
           q == A \div d
           r == A % d
           T == d * t
           Q == d * q
<1>1. A \in Nat /\ T \in Nat
  OBVIOUS
<1>2. A <= T
  OBVIOUS
<1>3. q \in Nat /\ r \in Nat /\ A = Q + r
  <2> HIDE DEF A
  <2>1. A = d * (A \div d) + (A % d) /\ A \div d \in Nat /\ A % d \in Nat
    BY <1>1
  <2> QED
    BY <2>1
<1> HIDE DEF A, r, T
<1>4. SUFFICES q <= t
  BY <1>3 DEF A
<1> HIDE DEF q
<1>5. SUFFICES ASSUME q >= t + 1 PROVE FALSE
  BY <1>3
<1>6. Q >= T + d
  <2>1. d * q >= d * (t + 1)
    BY <1>3, <1>5
  <2>2. d * (t + 1) = d * t + d
    OBVIOUS
  <2> QED
    BY <2>1, <2>2 DEF T
<1> HIDE DEF Q
<1>7. Q \in Int
  BY <1>3 DEF Q
<1> QED
  BY <1>1, <1>2, <1>3, <1>6, <1>7

LEMMA DrawingIsSound ==
    ASSUME PageTypeOK, draw_browser_content
    PROVE  PageTypeOK' /\ LinesAreTheTexts' /\ ScrollIsInRange'
<1> DEFINE text == RenderText
           starts == get_lines(text)
           total == Len(starts)
           first == Clamped(scroll, total)
           a == StartsKept(starts)
           shown == IF total - first < VISIBLE THEN total - first ELSE VISIBLE
           lines == [i \in 1 .. shown |-> Segment(text, a, first + i - 1)]
           thumb == IF total > VISIBLE THEN (first * TRACK) \div (total - VISIBLE) ELSE 0
<1>1. /\ line_starts' = a /\ scroll' = first /\ UNCHANGED <<response, mode>>
      /\ drawn' = [text |-> text, total |-> total, first |-> first, lines |-> lines,
                   thumb |-> thumb]
  BY DEF draw_browser_content
<1>2. text \in Strings
  BY TextTyped DEF PageTypeOK
<1>3. /\ total \in 1 .. MAX_LINES /\ \A j \in 1 .. total : starts[j] \in Nat
  <2> HIDE DEF text
  <2> QED
    BY <1>2, StartsTyped
<1>4. /\ VISIBLE \in Nat \ {0} /\ MAX_LINES \in Nat /\ MaxScroll \in Nat /\ TRACK \in Nat
      /\ scroll \in 0 .. MaxScroll /\ line_starts \in [0 .. MAX_LINES -> Nat]
      /\ response \in Held /\ mode \in {"TXT", "SRC"}
  BY PageAssumption DEF PageTypeOK
<1>5. /\ \A i \in Nat : i + 1 < total =>
            Segment(text, a, i) = PrintedLine(Wrapped(text)[i + 1])
  <2> HIDE DEF text
  <2> QED
    BY <1>2, SegmentIsTheLine
<1>6. total \in Nat /\ scroll \in Nat
  BY <1>3, <1>4
<1>7. a \in [0 .. MAX_LINES -> Nat]
  <2>1. a = [k \in 0 .. MAX_LINES |-> IF k < total THEN starts[k + 1] ELSE line_starts[k]]
    BY DEF StartsKept
  <2>2. ASSUME NEW k \in 0 .. MAX_LINES
        PROVE  (IF k < total THEN starts[k + 1] ELSE line_starts[k]) \in Nat
    <3>1. k < total => k + 1 \in 1 .. total
      BY <1>4, <1>6
    <3> HIDE DEF starts, total
    <3> QED
      BY <1>3, <1>4, <3>1
  <2> HIDE DEF starts, total, a
  <2> QED
    BY <2>1, <2>2
<1> HIDE DEF text, starts, total, a
<1>8. /\ first \in 0 .. scroll /\ first <= total
      /\ total >= VISIBLE => first <= total - VISIBLE
      /\ ~(total >= VISIBLE) => first = 0
  BY <1>6, ClampedIs
<1> HIDE DEF first
<1>9. /\ shown \in Nat /\ first \in Nat /\ first + shown <= total
      /\ total >= VISIBLE => shown = VISIBLE
  BY <1>4, <1>6, <1>8
<1> HIDE DEF shown
<1>10. thumb \in 0 .. TRACK
  <2>1. CASE total > VISIBLE
    <3>1. total - VISIBLE \in Nat \ {0} /\ first \in 0 .. total - VISIBLE
      BY <1>4, <1>6, <1>8, <2>1
    <3> QED
      BY <1>4, <2>1, <3>1, ThumbStaysOnTheTrack
  <2>2. CASE ~(total > VISIBLE)
    BY <1>4, <2>2
  <2> QED
    BY <2>1, <2>2
<1>11. Len(lines) = shown /\ \A i \in 1 .. shown : lines[i] = Segment(text, a, first + i - 1)
  BY <1>9
<1> HIDE DEF lines, thumb
<1>12. /\ drawn'.text = text /\ drawn'.total = total /\ drawn'.first = first
       /\ drawn'.lines = lines /\ drawn'.thumb = thumb
  BY <1>1
<1>13. PageTypeOK'
  <2>1. scroll' \in 0 .. MaxScroll
    BY <1>1, <1>4, <1>8
  <2> QED
    BY <1>1, <1>4, <1>7, <2>1 DEF PageTypeOK
<1>14. ScrollIsInRange'
  BY <1>9, <1>10, <1>11, <1>12 DEF ScrollIsInRange
<1>15. LinesAreTheTexts'
  <2>1. ASSUME NEW i \in 1 .. shown, first + i < total
        PROVE  lines[i] = PrintedLine(Wrapped(text)[first + i])
    <3>1. first + i - 1 \in Nat /\ (first + i - 1) + 1 = first + i
      BY <1>9
    <3>2. Segment(text, a, first + i - 1) = PrintedLine(Wrapped(text)[first + i])
      BY <1>5, <2>1, <3>1
    <3> QED
      BY <1>11, <3>2
  <2> QED
    BY <1>11, <1>12, <2>1 DEF LinesAreTheTexts
<1> QED
  BY <1>13, <1>14, <1>15

\* What the window shows is the page, at the place its scroll bar says, for
\* every response, every width and height of the window, and every number
\* of lines the array of line starts holds (PageSound, of browser_app.c).
THEOREM PageIsShown == PageSpec => []PageSound
<1> DEFINE Inv == PageTypeOK /\ LinesAreTheTexts /\ ScrollIsInRange
<1>1. PageInit => Inv
  <2> SUFFICES ASSUME PageInit PROVE Inv
    OBVIOUS
  <2>1. response \in Held /\ mode \in {"TXT", "SRC"} /\ scroll \in 0 .. MaxScroll
        /\ line_starts \in [0 .. MAX_LINES -> Nat]
    BY PageAssumption DEF PageInit, Held
  <2>2. drawn = NotDrawn
    BY DEF PageInit
  <2> QED
    BY <2>1, <2>2 DEF PageTypeOK, LinesAreTheTexts, ScrollIsInRange
<1>2. Inv /\ [PageNext]_pageVars => Inv'
  <2> SUFFICES ASSUME Inv, [PageNext]_pageVars PROVE Inv'
    OBVIOUS
  <2>1. CASE draw_browser_content
    BY <2>1, DrawingIsSound
  <2>2. ASSUME UNCHANGED drawn PROVE LinesAreTheTexts' /\ ScrollIsInRange'
    BY <2>2 DEF LinesAreTheTexts, ScrollIsInRange
  <2>3. CASE LoadUrl
    <3>1. PageTypeOK'
      BY <2>3, PageAssumption DEF LoadUrl, PageTypeOK
    <3> QED
      BY <2>2, <2>3, <3>1 DEF LoadUrl
  <2>4. CASE ScrollUp
    <3>1. PageTypeOK'
      BY <2>4, PageAssumption DEF ScrollUp, PageTypeOK
    <3> QED
      BY <2>2, <2>4, <3>1 DEF ScrollUp
  <2>5. CASE ScrollDown
    <3>1. PageTypeOK'
      BY <2>5, PageAssumption DEF ScrollDown, PageTypeOK
    <3> QED
      BY <2>2, <2>5, <3>1 DEF ScrollDown
  <2>6. CASE ChangeMode
    <3>1. PageTypeOK'
      BY <2>6, PageAssumption DEF ChangeMode, PageTypeOK
    <3> QED
      BY <2>2, <2>6, <3>1 DEF ChangeMode
  <2>7. CASE UNCHANGED pageVars
    <3>1. PageTypeOK'
      BY <2>7 DEF pageVars, PageTypeOK
    <3> QED
      BY <2>2, <2>7, <3>1 DEF pageVars
  <2> QED
    BY <2>1, <2>3, <2>4, <2>5, <2>6, <2>7 DEF PageNext
<1>3. Inv => PageSound
  <2> SUFFICES ASSUME Inv PROVE PageSound
    OBVIOUS
  <2>1. NoTagIsShown
    <3>1. response \in Strings
      BY TextTyped DEF PageTypeOK
    <3>2. get_http_body(response) \in Strings
      BY <3>1, BodyIsText
    <3> QED
      BY <3>2, TagsAreOut DEF NoTagIsShown
  <2> QED
    BY <2>1 DEF PageSound
<1> HIDE DEF Inv
<1> QED
  BY <1>1, <1>2, <1>3, PTL DEF PageSpec

-----------------------------------------------------------------------------
(* The controls of the windows and of the desktop. *)

\* Where a button may act: on its drawing or the pixel next to it.
Near(c) == mx \in c.x .. c.x + c.w /\ my \in c.y .. c.y + c.h

\* What the drawing and the handlers of a surface have to do with each other.
Agree(shown, acts) ==
    /\ \A a \in acts : \E c \in shown : c.name = a
    /\ \A a, b \in acts : a = b
    /\ \A c \in shown : Covers(c, mx, my) => acts = {c.name}
    /\ \A c \in shown \ (SettingsOptions \cup DesktopIcons) : c.name \in acts => Near(c)

MouseThere == mx \in 0 .. Width[surface] - 1 /\ my \in 0 .. Height[surface] - 1

LEMMA AgreeIf ==
    ASSUME NEW shown, NEW acts,
           \A a \in acts : \E c \in shown : c.name = a,
           \A a, b \in acts : a = b,
           \A c \in shown : Covers(c, mx, my) => c.name \in acts,
           \A c \in shown \ (SettingsOptions \cup DesktopIcons) : c.name \in acts => Near(c)
    PROVE  Agree(shown, acts)
<1>1. ASSUME NEW c \in shown, Covers(c, mx, my) PROVE acts = {c.name}
  <2>1. c.name \in acts
    BY <1>1
  <2> QED
    BY <2>1
<1> QED
  BY <1>1 DEF Agree

LEMMA NotesAgree ==
    ASSUME surface = "notes", MouseThere
    PROVE  Agree(Drawn(surface), Acts)
<1>1. mx \in 0 .. 199 /\ my \in 0 .. 124
  BY DEF MouseThere, Width, Height
<1> DEFINE A == Control("OPEN", 10, 98, 40, 12)
           B == Control("SAVE", 60, 98, 40, 12)
           C == Control("CLEAR", 105, 98, 45, 12)
           D == Control("close", 187, 3, 8, 8)
           isA == my \in 98 .. 110 /\ mx \in 10 .. 50
           isB == my \in 98 .. 110 /\ mx \in 60 .. 100
           isC == my \in 98 .. 110 /\ mx \in 105 .. 150
           isD == mx \in 187 .. 194 /\ my \in 3 .. 10
<1>2. \A a : a \in Acts <=> \/ a = "OPEN" /\ isA
                            \/ a = "SAVE" /\ isB
                            \/ a = "CLEAR" /\ isC
                            \/ a = "close" /\ isD
  <2>1. \A a : a \in NotesActs <=> \/ a = "OPEN" /\ isA
                                   \/ a = "SAVE" /\ isB
                                   \/ a = "CLEAR" /\ isC
    BY DEF NotesActs
  <2>2. \A a : a \in CloseActs <=> a = "close" /\ isD
    BY DEF CloseActs, Covers, CloseButton, Control, Width
  <2>3. Acts = NotesActs \cup CloseActs
    BY DEF Acts
  <2>4. \A a : a \in Acts <=> a \in NotesActs \/ a \in CloseActs
    BY <2>3
  <2> HIDE DEF isA, isB, isC, isD
  <2> QED
    BY <2>1, <2>2, <2>4
<1>3. Drawn(surface) = {A, B, C, D}
  BY DEF Drawn, NotesButtons, CloseButton, Width
<1>4. A.name = "OPEN" /\ (Covers(A, mx, my) => isA) /\ (isA => Near(A))
  BY <1>1 DEF Covers, Near, Control
<1>5. B.name = "SAVE" /\ (Covers(B, mx, my) => isB) /\ (isB => Near(B))
  BY <1>1 DEF Covers, Near, Control
<1>6. C.name = "CLEAR" /\ (Covers(C, mx, my) => isC) /\ (isC => Near(C))
  BY <1>1 DEF Covers, Near, Control
<1>7. D.name = "close" /\ (Covers(D, mx, my) => isD) /\ (isD => Near(D))
  BY <1>1 DEF Covers, Near, Control
<1>8. \A a, b \in Acts : a = b
  BY <1>1, <1>2
<1> HIDE DEF A, B, C, D, isA, isB, isC, isD
<1>9. \A a \in Acts : \E c \in Drawn(surface) : c.name = a
  BY <1>2, <1>3, <1>4, <1>5, <1>6, <1>7
<1>10. \A c \in Drawn(surface) : Covers(c, mx, my) => c.name \in Acts
  BY <1>2, <1>3, <1>4, <1>5, <1>6, <1>7
<1>11. \A c \in Drawn(surface) \ (SettingsOptions \cup DesktopIcons) : c.name \in Acts => Near(c)
  BY <1>2, <1>3, <1>4, <1>5, <1>6, <1>7
<1> QED
  BY <1>8, <1>9, <1>10, <1>11, AgreeIf

LEMMA BrowserAgrees ==
    ASSUME surface = "browser", MouseThere
    PROVE  Agree(Drawn(surface), Acts)
<1>1. mx \in 0 .. 259 /\ my \in 0 .. 144
  BY DEF MouseThere, Width, Height
<1> DEFINE A == Control("GO", 220, 15, 32, 12)
           B == Control("UP", 8, 31, 20, 12)
           C == Control("DN", 32, 31, 20, 12)
           D == Control("MODE", 56, 31, 50, 12)
           E == Control("BOOKMARK", 110, 31, 75, 12)
           F == Control("SAVE", 190, 31, 50, 12)
           G == Control("close", 247, 3, 8, 8)
           isA == mx \in 220 .. 252 /\ my \in 15 .. 27
           isB == mx \in 8 .. 28 /\ my \in 31 .. 43
           isC == mx \in 32 .. 52 /\ my \in 31 .. 43
           isD == mx \in 56 .. 106 /\ my \in 31 .. 43
           isE == mx \in 110 .. 185 /\ my \in 31 .. 43
           isF == mx \in 190 .. 240 /\ my \in 31 .. 43
           isG == mx \in 247 .. 254 /\ my \in 3 .. 10
<1>2. \A a : a \in Acts <=> \/ a = "GO" /\ isA
                            \/ a = "UP" /\ isB
                            \/ a = "DN" /\ isC
                            \/ a = "MODE" /\ isD
                            \/ a = "BOOKMARK" /\ isE
                            \/ a = "SAVE" /\ isF
                            \/ a = "close" /\ isG
  <2>1. \A a : a \in BrowserActs <=> \/ a = "GO" /\ isA
                                     \/ a = "UP" /\ isB
                                     \/ a = "DN" /\ isC
                                     \/ a = "MODE" /\ isD
                                     \/ a = "BOOKMARK" /\ isE
                                     \/ a = "SAVE" /\ isF
    <3>1. \A a \in BrowserActs : a \in {"GO", "UP", "DN", "MODE", "BOOKMARK", "SAVE"}
      BY DEF BrowserActs
    <3>2. "GO" \in BrowserActs <=> isA
      BY DEF BrowserActs
    <3>3. "UP" \in BrowserActs <=> isB
      BY DEF BrowserActs
    <3>4. "DN" \in BrowserActs <=> isC
      BY DEF BrowserActs
    <3>5. "MODE" \in BrowserActs <=> isD
      BY DEF BrowserActs
    <3>6. "BOOKMARK" \in BrowserActs <=> isE
      BY DEF BrowserActs
    <3>7. "SAVE" \in BrowserActs <=> isF
      BY DEF BrowserActs
    <3> HIDE DEF isA, isB, isC, isD, isE, isF
    <3> QED
      BY <3>1, <3>2, <3>3, <3>4, <3>5, <3>6, <3>7
  <2>2. \A a : a \in CloseActs <=> a = "close" /\ isG
    BY DEF CloseActs, Covers, CloseButton, Control, Width
  <2>3. Acts = BrowserActs \cup CloseActs
    BY DEF Acts
  <2>4. \A a : a \in Acts <=> a \in BrowserActs \/ a \in CloseActs
    BY <2>3
  <2> HIDE DEF isA, isB, isC, isD, isE, isF, isG
  <2> QED
    BY <2>1, <2>2, <2>4
<1>3. Drawn(surface) = {A, B, C, D, E, F, G}
  BY DEF Drawn, BrowserButtons, CloseButton, Width
<1>4. A.name = "GO" /\ (Covers(A, mx, my) => isA) /\ (isA => Near(A))
  BY <1>1 DEF Covers, Near, Control
<1>5. B.name = "UP" /\ (Covers(B, mx, my) => isB) /\ (isB => Near(B))
  BY <1>1 DEF Covers, Near, Control
<1>6. C.name = "DN" /\ (Covers(C, mx, my) => isC) /\ (isC => Near(C))
  BY <1>1 DEF Covers, Near, Control
<1>7. D.name = "MODE" /\ (Covers(D, mx, my) => isD) /\ (isD => Near(D))
  BY <1>1 DEF Covers, Near, Control
<1>8. E.name = "BOOKMARK" /\ (Covers(E, mx, my) => isE) /\ (isE => Near(E))
  BY <1>1 DEF Covers, Near, Control
<1>9. F.name = "SAVE" /\ (Covers(F, mx, my) => isF) /\ (isF => Near(F))
  BY <1>1 DEF Covers, Near, Control
<1>10. G.name = "close" /\ (Covers(G, mx, my) => isG) /\ (isG => Near(G))
  BY <1>1 DEF Covers, Near, Control
<1>11. \A a, b \in Acts : a = b
  BY <1>1, <1>2
<1> HIDE DEF A, B, C, D, E, F, G, isA, isB, isC, isD, isE, isF, isG
<1>12. \A a \in Acts : \E c \in Drawn(surface) : c.name = a
  BY <1>2, <1>3, <1>4, <1>5, <1>6, <1>7, <1>8, <1>9, <1>10
<1>13. \A c \in Drawn(surface) : Covers(c, mx, my) => c.name \in Acts
  BY <1>2, <1>3, <1>4, <1>5, <1>6, <1>7, <1>8, <1>9, <1>10
<1>14. \A c \in Drawn(surface) \ (SettingsOptions \cup DesktopIcons) : c.name \in Acts => Near(c)
  BY <1>2, <1>3, <1>4, <1>5, <1>6, <1>7, <1>8, <1>9, <1>10
<1> QED
  BY <1>11, <1>12, <1>13, <1>14, AgreeIf

LEMMA SettingsAgree ==
    ASSUME surface = "settings", MouseThere
    PROVE  Agree(Drawn(surface), Acts)
<1>1. mx \in 0 .. 159 /\ my \in 0 .. 124
  BY DEF MouseThere, Width, Height
<1> DEFINE A == Control("wallpaper0", 12, 28, 24, 8)
           B == Control("wallpaper1", 12, 38, 24, 8)
           C == Control("wallpaper2", 12, 48, 24, 8)
           D == Control("speed0", 12, 72, 24, 8)
           E == Control("speed1", 12, 82, 24, 8)
           F == Control("speed2", 12, 92, 24, 8)
           G == Control("APPLY", 12, 106, 45, 12)
           H == Control("close", 147, 3, 8, 8)
           isA == mx \in 12 .. 120 /\ my \in 28 .. 37
           isB == mx \in 12 .. 120 /\ my \in 38 .. 47
           isC == mx \in 12 .. 120 /\ my \in 48 .. 57
           isD == mx \in 12 .. 120 /\ my \in 72 .. 81
           isE == mx \in 12 .. 120 /\ my \in 82 .. 91
           isF == mx \in 12 .. 120 /\ my \in 92 .. 101
           isG == my \in 106 .. 118 /\ mx \in 12 .. 57
           isH == mx \in 147 .. 154 /\ my \in 3 .. 10
<1>2. \A a : a \in Acts <=> \/ a = "wallpaper0" /\ isA
                            \/ a = "wallpaper1" /\ isB
                            \/ a = "wallpaper2" /\ isC
                            \/ a = "speed0" /\ isD
                            \/ a = "speed1" /\ isE
                            \/ a = "speed2" /\ isF
                            \/ a = "APPLY" /\ isG
                            \/ a = "close" /\ isH
  <2>1. \A a : a \in SettingsActs <=> \/ a = "wallpaper0" /\ isA
                                      \/ a = "wallpaper1" /\ isB
                                      \/ a = "wallpaper2" /\ isC
                                      \/ a = "speed0" /\ isD
                                      \/ a = "speed1" /\ isE
                                      \/ a = "speed2" /\ isF
                                      \/ a = "APPLY" /\ isG
    <3>1. \A o : /\ o \in OptionAt(10, 28) => o \in 0 .. 2
                 /\ o \in OptionAt(10, 72) => o \in 0 .. 2
      BY DEF OptionAt
    <3>2. /\ 0 \in OptionAt(10, 28) <=> my \in 28 .. 37
          /\ 0 \in OptionAt(10, 72) <=> my \in 72 .. 81
      BY <1>1 DEF OptionAt
    <3>3. /\ 1 \in OptionAt(10, 28) <=> my \in 38 .. 47
          /\ 1 \in OptionAt(10, 72) <=> my \in 82 .. 91
      BY <1>1 DEF OptionAt
    <3>4. /\ 2 \in OptionAt(10, 28) <=> my \in 48 .. 57
          /\ 2 \in OptionAt(10, 72) <=> my \in 92 .. 101
      BY <1>1 DEF OptionAt
    <3> DEFINE wall == {Wallpapers[o + 1] : o \in OptionAt(10, 28)}
               pace == {Speeds[o + 1] : o \in OptionAt(10, 72)}
               button == IF isG THEN {"APPLY"} ELSE {}
    <3>5. \A a : a \in wall <=> \/ a = "wallpaper0" /\ 0 \in OptionAt(10, 28)
                                \/ a = "wallpaper1" /\ 1 \in OptionAt(10, 28)
                                \/ a = "wallpaper2" /\ 2 \in OptionAt(10, 28)
      <4>1. Wallpapers[0 + 1] = "wallpaper0" /\ Wallpapers[1 + 1] = "wallpaper1"
            /\ Wallpapers[2 + 1] = "wallpaper2"
        BY DEF Wallpapers
      <4>2. \A o \in OptionAt(10, 28) : o = 0 \/ o = 1 \/ o = 2
        BY <3>1
      <4> QED
        BY <4>1, <4>2
    <3>6. \A a : a \in pace <=> \/ a = "speed0" /\ 0 \in OptionAt(10, 72)
                                \/ a = "speed1" /\ 1 \in OptionAt(10, 72)
                                \/ a = "speed2" /\ 2 \in OptionAt(10, 72)
      <4>1. Speeds[0 + 1] = "speed0" /\ Speeds[1 + 1] = "speed1" /\ Speeds[2 + 1] = "speed2"
        BY DEF Speeds
      <4>2. \A o \in OptionAt(10, 72) : o = 0 \/ o = 1 \/ o = 2
        BY <3>1
      <4> QED
        BY <4>1, <4>2
    <3>7. SettingsActs = (IF mx \in 12 .. 120 THEN wall \cup pace ELSE {}) \cup button
      BY DEF SettingsActs
    <3>8. \A a : a \in button <=> a = "APPLY" /\ isG
      OBVIOUS
    <3> HIDE DEF wall, pace, button
    <3>9. \A a : a \in SettingsActs <=> \/ mx \in 12 .. 120 /\ (a \in wall \/ a \in pace)
                                        \/ a \in button
      BY <3>7
    <3> HIDE DEF isG
    <3> QED
      BY <3>2, <3>3, <3>4, <3>5, <3>6, <3>8, <3>9
  <2>2. \A a : a \in CloseActs <=> a = "close" /\ isH
    BY DEF CloseActs, Covers, CloseButton, Control, Width
  <2>3. Acts = SettingsActs \cup CloseActs
    BY DEF Acts
  <2>4. \A a : a \in Acts <=> a \in SettingsActs \/ a \in CloseActs
    BY <2>3
  <2> HIDE DEF isA, isB, isC, isD, isE, isF, isG, isH
  <2> QED
    BY <2>1, <2>2, <2>4
<1>3. Drawn(surface) = {A, B, C, D, E, F, G, H}
  BY DEF Drawn, SettingsButtons, SettingsOptions, CloseButton, Width
<1>4. A.name = "wallpaper0" /\ (Covers(A, mx, my) => isA)
  BY <1>1 DEF Covers, Near, Control
<1>5. B.name = "wallpaper1" /\ (Covers(B, mx, my) => isB)
  BY <1>1 DEF Covers, Near, Control
<1>6. C.name = "wallpaper2" /\ (Covers(C, mx, my) => isC)
  BY <1>1 DEF Covers, Near, Control
<1>7. D.name = "speed0" /\ (Covers(D, mx, my) => isD)
  BY <1>1 DEF Covers, Near, Control
<1>8. E.name = "speed1" /\ (Covers(E, mx, my) => isE)
  BY <1>1 DEF Covers, Near, Control
<1>9. F.name = "speed2" /\ (Covers(F, mx, my) => isF)
  BY <1>1 DEF Covers, Near, Control
<1>10. G.name = "APPLY" /\ (Covers(G, mx, my) => isG) /\ (isG => Near(G))
  BY <1>1 DEF Covers, Near, Control
<1>11. H.name = "close" /\ (Covers(H, mx, my) => isH) /\ (isH => Near(H))
  BY <1>1 DEF Covers, Near, Control
<1>12. \A a, b \in Acts : a = b
  BY <1>1, <1>2
<1> HIDE DEF A, B, C, D, E, F, G, H, isA, isB, isC, isD, isE, isF, isG, isH
<1>13. \A a \in Acts : \E c \in Drawn(surface) : c.name = a
  BY <1>2, <1>3, <1>4, <1>5, <1>6, <1>7, <1>8, <1>9, <1>10, <1>11
<1>14. \A c \in Drawn(surface) : Covers(c, mx, my) => c.name \in Acts
  BY <1>2, <1>3, <1>4, <1>5, <1>6, <1>7, <1>8, <1>9, <1>10, <1>11
<1>15. {A, B, C, D, E, F} \subseteq SettingsOptions
  BY DEF SettingsOptions, A, B, C, D, E, F
<1>16. \A c \in Drawn(surface) \ (SettingsOptions \cup DesktopIcons) : c.name \in Acts => Near(c)
  BY <1>2, <1>3, <1>4, <1>5, <1>6, <1>7, <1>8, <1>9, <1>10, <1>11, <1>15
<1> QED
  BY <1>12, <1>13, <1>14, <1>16, AgreeIf

\* The keys of the calculator have different labels.
CalcChar(r, c) == CalcChars[r + 1][c + 1]

LEMMA CalcCharsDiffer ==
    ASSUME NEW r \in 0 .. 3, NEW c \in 0 .. 3
    PROVE  /\ CalcChar(r, c) # "close"
           /\ \A r2, c2 \in 0 .. 3 : CalcChar(r, c) = CalcChar(r2, c2) => r = r2 /\ c = c2
<1>1. \A k \in 0 .. 3 : k = 0 \/ k = 1 \/ k = 2 \/ k = 3
  OBVIOUS
<1>2. /\ CalcChar(0, 0) = "7" /\ CalcChar(0, 1) = "8" /\ CalcChar(0, 2) = "9"
      /\ CalcChar(0, 3) = "over"
  BY DEF CalcChar, CalcChars
<1>3. /\ CalcChar(1, 0) = "4" /\ CalcChar(1, 1) = "5" /\ CalcChar(1, 2) = "6"
      /\ CalcChar(1, 3) = "times"
  BY DEF CalcChar, CalcChars
<1>4. /\ CalcChar(2, 0) = "1" /\ CalcChar(2, 1) = "2" /\ CalcChar(2, 2) = "3"
      /\ CalcChar(2, 3) = "minus"
  BY DEF CalcChar, CalcChars
<1>5. /\ CalcChar(3, 0) = "C" /\ CalcChar(3, 1) = "0" /\ CalcChar(3, 2) = "equals"
      /\ CalcChar(3, 3) = "plus"
  BY DEF CalcChar, CalcChars
<1> DEFINE Row(k) == CASE k = 0 -> {"7", "8", "9", "over"} [] k = 1 -> {"4", "5", "6", "times"}
                       [] k = 2 -> {"1", "2", "3", "minus"} [] k = 3 -> {"C", "0", "equals", "plus"}
<1>6. \A k \in 0 .. 3 : CalcChar(0, k) \in Row(0) /\ CalcChar(1, k) \in Row(1)
                     /\ CalcChar(2, k) \in Row(2) /\ CalcChar(3, k) \in Row(3)
  BY <1>1, <1>2, <1>3, <1>4, <1>5
<1>7. \A j, k \in 0 .. 3 : CalcChar(j, k) \in Row(j)
  <2> HIDE DEF Row
  <2> QED
    BY <1>1, <1>6
<1>8. \A j, k \in 0 .. 3 : \A a : a \in Row(j) /\ a \in Row(k) => j = k
  <2> SUFFICES ASSUME NEW j \in 0 .. 3, NEW k \in 0 .. 3, NEW a, a \in Row(j), a \in Row(k)
               PROVE  j = k
    OBVIOUS
  <2>1. CASE j = 0
    BY <1>1, <2>1
  <2>2. CASE j = 1
    BY <1>1, <2>2
  <2>3. CASE j = 2
    BY <1>1, <2>3
  <2>4. CASE j = 3
    BY <1>1, <2>4
  <2> QED
    BY <1>1, <2>1, <2>2, <2>3, <2>4
<1>9. \A j \in 0 .. 3 : "close" \notin Row(j)
  BY <1>1
<1> HIDE DEF Row
<1>10. ASSUME NEW r2 \in 0 .. 3, NEW c2 \in 0 .. 3, CalcChar(r, c) = CalcChar(r2, c2)
       PROVE  r = r2 /\ c = c2
  <2>1. r = r2
    BY <1>7, <1>8, <1>10
  <2>2. CASE r = 0
    BY <1>1, <1>2, <1>10, <2>1, <2>2
  <2>3. CASE r = 1
    BY <1>1, <1>3, <1>10, <2>1, <2>3
  <2>4. CASE r = 2
    BY <1>1, <1>4, <1>10, <2>1, <2>4
  <2>5. CASE r = 3
    BY <1>1, <1>5, <1>10, <2>1, <2>5
  <2> QED
    BY <1>1, <2>1, <2>2, <2>3, <2>4, <2>5
<1> QED
  BY <1>7, <1>9, <1>10

LEMMA CalcAgrees ==
    ASSUME surface = "calc", MouseThere
    PROVE  Agree(Drawn(surface), Acts)
<1>1. mx \in 0 .. 139 /\ my \in 0 .. 119
  BY DEF MouseThere, Width, Height
<1> DEFINE close == mx \in 127 .. 134 /\ my \in 3 .. 10
           X == Control("close", 127, 3, 8, 8)
           Button(r, c) == Control(CalcChar(r, c), 6 + c * 34, 36 + r * 20, 24, 14)
           on(r, c) == my \in 36 + 20 * r .. 50 + 20 * r /\ mx \in 6 + 34 * c .. 30 + 34 * c
<1>2. \A a : a \in Acts <=> \/ a = "close" /\ close
                            \/ \E r, c \in 0 .. 3 : on(r, c) /\ a = CalcChar(r, c)
  <2>1. \A a : a \in CalcActs <=> \E r, c \in 0 .. 3 : on(r, c) /\ a = CalcChar(r, c)
    <3>1. \A a : a \in CalcActs <=> \E r \in RowAt, c \in ColAt : a = CalcChars[r + 1][c + 1]
      BY DEF CalcActs
    <3>2. \A r : r \in RowAt <=> r \in 0 .. 3 /\ my \in 36 + 20 * r .. 50 + 20 * r
      BY DEF RowAt
    <3>3. \A c : c \in ColAt <=> c \in 0 .. 3 /\ mx \in 6 + 34 * c .. 30 + 34 * c
      BY DEF ColAt
    <3> QED
      BY <3>1, <3>2, <3>3 DEF CalcChar
  <2>2. \A a : a \in CloseActs <=> a = "close" /\ close
    BY DEF CloseActs, Covers, CloseButton, Control, Width
  <2>3. Acts = CalcActs \cup CloseActs
    BY DEF Acts
  <2>4. \A a : a \in Acts <=> a \in CalcActs \/ a \in CloseActs
    BY <2>3
  <2> HIDE DEF close, on
  <2> QED
    BY <2>1, <2>2, <2>4
<1>3. \A c : c \in Drawn(surface) <=> c = X \/ \E j, k \in 0 .. 3 : c = Button(j, k)
  <2>1. Drawn(surface) = CalcButtons \cup {X}
    BY DEF Drawn, CloseButton, Width
  <2>2. CalcButtons = {Button(j, k) : j \in 0 .. 3, k \in 0 .. 3}
    BY DEF CalcButtons, CalcChar
  <2> HIDE DEF X, Button
  <2> QED
    BY <2>1, <2>2
<1>4. X.name = "close" /\ (Covers(X, mx, my) => close) /\ (close => Near(X))
  BY <1>1 DEF Covers, Near, Control
<1>5. ASSUME NEW j \in 0 .. 3, NEW k \in 0 .. 3
      PROVE  /\ Button(j, k).name = CalcChar(j, k)
             /\ Covers(Button(j, k), mx, my) => on(j, k)
             /\ on(j, k) => Near(Button(j, k))
  BY <1>1 DEF Covers, Near, Control
<1>6. ASSUME NEW j \in 0 .. 3, NEW k \in 0 .. 3, on(j, k)
      PROVE  ~close /\ \A r, c \in 0 .. 3 : on(r, c) => r = j /\ c = k
  BY <1>1, <1>6
<1> HIDE DEF close, X, Button, on
<1>7. \A a, b \in Acts : a = b
  BY <1>2, <1>6
<1>8. \A a \in Acts : \E c \in Drawn(surface) : c.name = a
  BY <1>2, <1>3, <1>4, <1>5
<1>9. \A c \in Drawn(surface) : Covers(c, mx, my) => c.name \in Acts
  BY <1>2, <1>3, <1>4, <1>5
<1>10. ASSUME NEW c \in Drawn(surface), c.name \in Acts PROVE Near(c)
  <2>1. CASE c = X
    <3>1. \A r, k \in 0 .. 3 : CalcChar(r, k) # "close"
      BY CalcCharsDiffer
    <3> QED
      BY <1>2, <1>4, <1>10, <2>1, <3>1
  <2>2. CASE \E j, k \in 0 .. 3 : c = Button(j, k)
    <3>1. PICK j \in 0 .. 3, k \in 0 .. 3 : c = Button(j, k)
      BY <2>2
    <3>2. c.name = CalcChar(j, k) /\ CalcChar(j, k) # "close"
      BY <1>5, <3>1, CalcCharsDiffer
    <3>3. PICK r2 \in 0 .. 3, c2 \in 0 .. 3 : on(r2, c2) /\ CalcChar(j, k) = CalcChar(r2, c2)
      BY <1>2, <1>10, <3>2
    <3>4. j = r2 /\ k = c2
      BY <3>3, CalcCharsDiffer
    <3> QED
      BY <1>5, <3>1, <3>3, <3>4
  <2> QED
    BY <1>3, <2>1, <2>2
<1> QED
  BY <1>7, <1>8, <1>9, <1>10, AgreeIf

LEMMA IconsReact ==
    ASSUME mx \in Nat, my \in Nat
    PROVE  \A a : a \in IconActs <=> \/ a = "SETTINGS" /\ (mx \in 5 .. 55 /\ my \in 20 .. 50)
                                     \/ a = "FILES" /\ (mx \in 5 .. 55 /\ my \in 60 .. 90)
                                     \/ a = "TERMINAL" /\ (mx \in 5 .. 55 /\ my \in 100 .. 130)
                                     \/ a = "SNAKE" /\ (mx \in 5 .. 55 /\ my \in 140 .. 170)
                                     \/ a = "TASKS" /\ (mx \in 75 .. 115 /\ my \in 20 .. 50)
                                     \/ a = "NOTES" /\ (mx \in 75 .. 115 /\ my \in 60 .. 90)
                                     \/ a = "CALC" /\ (mx \in 75 .. 115 /\ my \in 100 .. 130)
                                     \/ a = "BROWSER" /\ (mx \in 75 .. 115 /\ my \in 140 .. 170)
                                     \/ a = "HELLO" /\ (mx \in 145 .. 185 /\ my \in 20 .. 50)
<1> DEFINE one == <<"SETTINGS", "FILES", "TERMINAL", "SNAKE">>
           two == <<"TASKS", "NOTES", "CALC", "BROWSER">>
           three == <<"HELLO">>
           at(r) == my \in 40 * r - 20 .. 40 * r + 10
           In(icons, a) == \E r \in DOMAIN icons : at(r) /\ a = icons[r]
<1>1. \A a : a \in IconActs <=>
              \E col \in IconColumns : mx \in col.left .. col.right /\ In(col.icons, a)
  <2>1. \A icons, a : In(icons, a) <=> a \in {icons[r] : r \in {r \in DOMAIN icons : at(r)}}
    OBVIOUS
  <2>2. IconActs = UNION {{col.icons[r] : r \in {r \in DOMAIN col.icons : at(r)}} :
                            col \in {col \in IconColumns : mx \in col.left .. col.right}}
    BY DEF IconActs
  <2> HIDE DEF at, In
  <2> QED
    BY <2>1, <2>2
<1>2. /\ at(1) <=> my \in 20 .. 50
      /\ at(2) <=> my \in 60 .. 90
      /\ at(3) <=> my \in 100 .. 130
      /\ at(4) <=> my \in 140 .. 170
  OBVIOUS
<1> HIDE DEF at
<1>3. \A a : In(one, a) <=> \/ a = "SETTINGS" /\ at(1)
                            \/ a = "FILES" /\ at(2)
                            \/ a = "TERMINAL" /\ at(3)
                            \/ a = "SNAKE" /\ at(4)
  <2>1. DOMAIN one = {1, 2, 3, 4}
    OBVIOUS
  <2>2. one[1] = "SETTINGS" /\ one[2] = "FILES" /\ one[3] = "TERMINAL" /\ one[4] = "SNAKE"
    OBVIOUS
  <2> HIDE DEF one
  <2> QED
    BY <2>1, <2>2
<1>4. \A a : In(two, a) <=> \/ a = "TASKS" /\ at(1)
                            \/ a = "NOTES" /\ at(2)
                            \/ a = "CALC" /\ at(3)
                            \/ a = "BROWSER" /\ at(4)
  <2>1. DOMAIN two = {1, 2, 3, 4}
    OBVIOUS
  <2>2. two[1] = "TASKS" /\ two[2] = "NOTES" /\ two[3] = "CALC" /\ two[4] = "BROWSER"
    OBVIOUS
  <2> HIDE DEF two
  <2> QED
    BY <2>1, <2>2
<1>5. \A a : In(three, a) <=> a = "HELLO" /\ at(1)
  <2>1. DOMAIN three = {1} /\ three[1] = "HELLO"
    OBVIOUS
  <2> HIDE DEF three
  <2> QED
    BY <2>1
<1> HIDE DEF one, two, three, In
<1>6. \A a : a \in IconActs <=> \/ mx \in 5 .. 55 /\ In(one, a)
                                \/ mx \in 75 .. 115 /\ In(two, a)
                                \/ mx \in 145 .. 185 /\ In(three, a)
  <2> DEFINE L == [left |-> 5, right |-> 55, icons |-> one]
             M2 == [left |-> 75, right |-> 115, icons |-> two]
             R == [left |-> 145, right |-> 185, icons |-> three]
  <2>1. IconColumns = {L, M2, R}
    BY DEF IconColumns, one, two, three
  <2>2. /\ L.left = 5 /\ L.right = 55 /\ L.icons = one
        /\ M2.left = 75 /\ M2.right = 115 /\ M2.icons = two
        /\ R.left = 145 /\ R.right = 185 /\ R.icons = three
    OBVIOUS
  <2> HIDE DEF L, M2, R
  <2> QED
    BY <1>1, <2>1, <2>2
<1> QED
  BY <1>2, <1>3, <1>4, <1>5, <1>6

\* The icons: where they are drawn, one of them at most reacts.
LEMMA IconsDrawn ==
    ASSUME mx \in Nat, my \in Nat
    PROVE  /\ \A a \in IconActs : my < 191 /\ \E c \in DesktopIcons : c.name = a
           /\ \A a, b \in IconActs : a = b
           /\ \A c \in DesktopIcons : Covers(c, mx, my) => my < 191 /\ c.name \in IconActs
           /\ \A c \in DesktopIcons : c.name \in IconNames
<1> DEFINE A == Control("SETTINGS", 15, 25, 10, 10)
           B == Control("FILES", 15, 65, 10, 10)
           C == Control("TERMINAL", 15, 105, 10, 10)
           D == Control("SNAKE", 15, 145, 10, 10)
           E == Control("TASKS", 85, 25, 10, 10)
           F == Control("NOTES", 85, 65, 10, 10)
           G == Control("CALC", 85, 105, 10, 10)
           H == Control("BROWSER", 85, 145, 10, 10)
           I == Control("HELLO", 155, 25, 10, 10)
           isA == mx \in 5 .. 55 /\ my \in 20 .. 50
           isB == mx \in 5 .. 55 /\ my \in 60 .. 90
           isC == mx \in 5 .. 55 /\ my \in 100 .. 130
           isD == mx \in 5 .. 55 /\ my \in 140 .. 170
           isE == mx \in 75 .. 115 /\ my \in 20 .. 50
           isF == mx \in 75 .. 115 /\ my \in 60 .. 90
           isG == mx \in 75 .. 115 /\ my \in 100 .. 130
           isH == mx \in 75 .. 115 /\ my \in 140 .. 170
           isI == mx \in 145 .. 185 /\ my \in 20 .. 50
<1>1. \A a : a \in IconActs <=> \/ a = "SETTINGS" /\ isA
                                \/ a = "FILES" /\ isB
                                \/ a = "TERMINAL" /\ isC
                                \/ a = "SNAKE" /\ isD
                                \/ a = "TASKS" /\ isE
                                \/ a = "NOTES" /\ isF
                                \/ a = "CALC" /\ isG
                                \/ a = "BROWSER" /\ isH
                                \/ a = "HELLO" /\ isI
  BY IconsReact
<1>2. DesktopIcons = {A, B, C, D, E, F, G, H, I}
  BY DEF DesktopIcons
<1>3. /\ A.name = "SETTINGS" /\ "SETTINGS" \in IconNames
      /\ Covers(A, mx, my) => isA
      /\ isA => my < 191
  BY DEF Covers, Control, IconNames
<1>4. /\ B.name = "FILES" /\ "FILES" \in IconNames
      /\ Covers(B, mx, my) => isB
      /\ isB => my < 191
  BY DEF Covers, Control, IconNames
<1>5. /\ C.name = "TERMINAL" /\ "TERMINAL" \in IconNames
      /\ Covers(C, mx, my) => isC
      /\ isC => my < 191
  BY DEF Covers, Control, IconNames
<1>6. /\ D.name = "SNAKE" /\ "SNAKE" \in IconNames
      /\ Covers(D, mx, my) => isD
      /\ isD => my < 191
  BY DEF Covers, Control, IconNames
<1>7. /\ E.name = "TASKS" /\ "TASKS" \in IconNames
      /\ Covers(E, mx, my) => isE
      /\ isE => my < 191
  BY DEF Covers, Control, IconNames
<1>8. /\ F.name = "NOTES" /\ "NOTES" \in IconNames
      /\ Covers(F, mx, my) => isF
      /\ isF => my < 191
  BY DEF Covers, Control, IconNames
<1>9. /\ G.name = "CALC" /\ "CALC" \in IconNames
      /\ Covers(G, mx, my) => isG
      /\ isG => my < 191
  BY DEF Covers, Control, IconNames
<1>10. /\ H.name = "BROWSER" /\ "BROWSER" \in IconNames
       /\ Covers(H, mx, my) => isH
       /\ isH => my < 191
  BY DEF Covers, Control, IconNames
<1>11. /\ I.name = "HELLO" /\ "HELLO" \in IconNames
       /\ Covers(I, mx, my) => isI
       /\ isI => my < 191
  BY DEF Covers, Control, IconNames
<1>12. \A a, b \in IconActs : a = b
  BY <1>1
<1> HIDE DEF A, B, C, D, E, F, G, H, I,
             isA, isB, isC, isD, isE, isF, isG, isH, isI
<1>13. ASSUME NEW a \in IconActs PROVE my < 191 /\ \E c \in DesktopIcons : c.name = a
  <2>1. CASE a = "SETTINGS" /\ isA
    BY <1>2, <1>3, <2>1
  <2>2. CASE a = "FILES" /\ isB
    BY <1>2, <1>4, <2>2
  <2>3. CASE a = "TERMINAL" /\ isC
    BY <1>2, <1>5, <2>3
  <2>4. CASE a = "SNAKE" /\ isD
    BY <1>2, <1>6, <2>4
  <2>5. CASE a = "TASKS" /\ isE
    BY <1>2, <1>7, <2>5
  <2>6. CASE a = "NOTES" /\ isF
    BY <1>2, <1>8, <2>6
  <2>7. CASE a = "CALC" /\ isG
    BY <1>2, <1>9, <2>7
  <2>8. CASE a = "BROWSER" /\ isH
    BY <1>2, <1>10, <2>8
  <2>9. CASE a = "HELLO" /\ isI
    BY <1>2, <1>11, <2>9
  <2> QED
    BY <1>1, <2>1, <2>2, <2>3, <2>4, <2>5, <2>6, <2>7, <2>8, <2>9
<1>14. ASSUME NEW c \in DesktopIcons
       PROVE  /\ Covers(c, mx, my) => my < 191 /\ c.name \in IconActs
              /\ c.name \in IconNames
  <2>1. CASE c = A
    BY <1>1, <1>3, <2>1
  <2>2. CASE c = B
    BY <1>1, <1>4, <2>2
  <2>3. CASE c = C
    BY <1>1, <1>5, <2>3
  <2>4. CASE c = D
    BY <1>1, <1>6, <2>4
  <2>5. CASE c = E
    BY <1>1, <1>7, <2>5
  <2>6. CASE c = F
    BY <1>1, <1>8, <2>6
  <2>7. CASE c = G
    BY <1>1, <1>9, <2>7
  <2>8. CASE c = H
    BY <1>1, <1>10, <2>8
  <2>9. CASE c = I
    BY <1>1, <1>11, <2>9
  <2> QED
    BY <1>2, <2>1, <2>2, <2>3, <2>4, <2>5, <2>6, <2>7, <2>8, <2>9
<1> QED
  BY <1>12, <1>13, <1>14

LEMMA DesktopAgrees ==
    ASSUME surface = "desktop", MouseThere
    PROVE  Agree(Drawn(surface), Acts)
<1>1. mx \in 0 .. 319 /\ my \in 0 .. 199
  BY DEF MouseThere, Width, Height
<1> DEFINE N == Least(Len(Taskbar), 5)
           Button(i) == Control(Taskbar[i], 35 + 46 * (i - 1), 191, 42, 8)
           on(i) == my \in 191 .. 199 /\ mx \in 35 + 46 * (i - 1) .. 76 + 46 * (i - 1)
<1>2. N \in Nat /\ \A i \in 1 .. N : i \in Nat /\ i \in 1 .. Len(Taskbar)
  <2>1. Len(Taskbar) \in Nat
    BY ButtonsAssumption, LenProperties
  <2> QED
    BY <2>1 DEF Least
<1>3. \A a : a \in TaskbarActs <=> \E i \in 1 .. N : on(i) /\ a = Taskbar[i]
  BY DEF TaskbarActs
<1>4. \A c : c \in TaskbarButtons <=> \E i \in 1 .. N : c = Button(i)
  BY DEF TaskbarButtons
<1>5. ASSUME NEW i \in 1 .. N
      PROVE  /\ Button(i).name = Taskbar[i] /\ Taskbar[i] \notin IconNames
             /\ Covers(Button(i), mx, my) => on(i)
             /\ on(i) => Near(Button(i))
             /\ on(i) => my \in 191 .. 199
  <2>1. i \in Nat /\ i \in 1 .. Len(Taskbar)
    BY <1>2
  <2>2. Taskbar[i] \notin IconNames
    BY <2>1, ButtonsAssumption
  <2>3. Button(i).name = Taskbar[i] /\ Button(i).x = 35 + 46 * (i - 1) /\ Button(i).y = 191
        /\ Button(i).w = 42 /\ Button(i).h = 8
    BY DEF Control
  <2>4. (Covers(Button(i), mx, my) => on(i)) /\ (on(i) => Near(Button(i)))
    <3> HIDE DEF Button
    <3> QED
      BY <1>1, <2>1, <2>3 DEF Covers, Near
  <2> QED
    BY <2>2, <2>3, <2>4
<1>6. ASSUME NEW i \in 1 .. N, NEW j \in 1 .. N, on(i), on(j) PROVE i = j
  BY <1>1, <1>2, <1>6
<1>7. \A i, j \in 1 .. N : Taskbar[i] = Taskbar[j] => i = j
  BY <1>2, ButtonsAssumption
<1> HIDE DEF N, Button, on
<1>8. Acts = TaskbarActs \cup (IF TaskbarActs = {} THEN IconActs ELSE {})
  BY DEF Acts
<1>9. Drawn(surface) = DesktopIcons \cup TaskbarButtons
  BY DEF Drawn
<1>10. /\ \A a \in IconActs : my < 191 /\ \E c \in DesktopIcons : c.name = a
       /\ \A a, b \in IconActs : a = b
       /\ \A c \in DesktopIcons : Covers(c, mx, my) => my < 191 /\ c.name \in IconActs
       /\ \A c \in DesktopIcons : c.name \in IconNames
  BY <1>1, IconsDrawn
<1>11. \A a \in Acts : \E c \in Drawn(surface) : c.name = a
  <2>1. \A a \in TaskbarActs : \E c \in TaskbarButtons : c.name = a
    BY <1>3, <1>4, <1>5
  <2> QED
    BY <1>8, <1>9, <1>10, <2>1
<1>12. \A a, b \in Acts : a = b
  <2>1. \A a, b \in TaskbarActs : a = b
    BY <1>3, <1>6
  <2> QED
    BY <1>8, <1>10, <2>1
<1>13. ASSUME NEW c \in Drawn(surface), Covers(c, mx, my) PROVE c.name \in Acts
  <2>1. CASE c \in DesktopIcons
    <3>1. my < 191 /\ c.name \in IconActs
      BY <1>10, <1>13, <2>1
    <3>2. ~ my \in 191 .. 199
      BY <1>1, <3>1
    <3>3. TaskbarActs = {}
      BY <1>3, <1>5, <3>2
    <3> QED
      BY <1>8, <3>1, <3>3
  <2>2. CASE c \in TaskbarButtons
    <3>1. PICK i \in 1 .. N : c = Button(i)
      BY <1>4, <2>2
    <3>2. on(i) /\ c.name = Taskbar[i]
      BY <1>5, <1>13, <3>1
    <3> QED
      BY <1>3, <1>8, <3>2
  <2> QED
    BY <1>9, <2>1, <2>2
<1>14. ASSUME NEW c \in Drawn(surface) \ (SettingsOptions \cup DesktopIcons), c.name \in Acts
       PROVE  Near(c)
  <2>1. PICK i \in 1 .. N : c = Button(i)
    BY <1>4, <1>9
  <2>2. c.name = Taskbar[i] /\ c.name \notin IconNames
    BY <1>5, <2>1
  <2>3. c.name \in TaskbarActs
    BY <1>8, <1>10, <1>14, <2>2
  <2>4. PICK j \in 1 .. N : on(j) /\ c.name = Taskbar[j]
    BY <1>3, <2>3
  <2>5. i = j
    BY <1>7, <2>2, <2>4
  <2> QED
    BY <1>5, <2>1, <2>4, <2>5
<1> QED
  BY <1>11, <1>12, <1>13, <1>14, AgreeIf

\* The inductive invariant: the press acted on what is under the mouse.
ButtonsInv ==
    /\ surface \in Surfaces /\ MouseThere
    /\ pressed \in BOOLEAN
    /\ acted = IF pressed THEN Acts ELSE {}

LEMMA ControlsAgreeWhere ==
    ASSUME surface \in Surfaces, MouseThere
    PROVE  Agree(Drawn(surface), Acts)
  BY NotesAgree, CalcAgrees, SettingsAgree, BrowserAgrees, DesktopAgrees DEF Surfaces

LEMMA ControlsSoundThen ==
    ASSUME ButtonsInv
    PROVE  ControlsSound
<1> USE DEF ButtonsInv
<1>1. Agree(Drawn(surface), Acts)
  BY ControlsAgreeWhere
<1>2. acted \subseteq Acts
  OBVIOUS
<1>3. OneControl
  <2>1. acted \subseteq {c.name : c \in Drawn(surface)} /\ \A a, b \in acted : a = b
    BY <1>1, <1>2 DEF Agree
  <2> QED
    BY <2>1 DEF OneControl, MouseThere
<1>4. ControlsAct
  BY <1>1 DEF ControlsAct, Agree
<1>5. ActsAtTheButton
  BY <1>1, <1>2 DEF ActsAtTheButton, Agree, Near
<1> QED
  BY <1>3, <1>4, <1>5 DEF ControlsSound

LEMMA SurfacesHaveSize ==
    ASSUME NEW s \in Surfaces
    PROVE  Width[s] \in Nat \ {0} /\ Height[s] \in Nat \ {0}
  BY DEF Surfaces, Width, Height

LEMMA ButtonsInvInit == ButtonsInit => ButtonsInv
<1> SUFFICES ASSUME ButtonsInit PROVE ButtonsInv
  OBVIOUS
<1>1. surface \in Surfaces /\ mx = 0 /\ my = 0 /\ pressed = FALSE /\ acted = {}
  BY DEF ButtonsInit
<1>2. MouseThere
  BY <1>1, SurfacesHaveSize DEF MouseThere
<1> QED
  BY <1>1, <1>2 DEF ButtonsInv

LEMMA ButtonsInvStep == ButtonsInv /\ [ButtonsNext]_buttonVars => ButtonsInv'
<1> SUFFICES ASSUME ButtonsInv, [ButtonsNext]_buttonVars PROVE ButtonsInv'
  OBVIOUS
<1>1. surface \in Surfaces /\ Width[surface] \in Nat \ {0} /\ Height[surface] \in Nat \ {0}
  BY SurfacesHaveSize DEF ButtonsInv
<1>2. CASE MouseMoves
  <2>1. mx \in 0 .. Width[surface] - 1 /\ surface' = surface /\ mx' = mx + 1
        /\ mx' < Width[surface] /\ my' = 0
    BY <1>2 DEF ButtonsInv, MouseThere, MouseMoves
  <2>2. pressed' = FALSE /\ acted' = {}
    BY <1>2 DEF MouseMoves
  <2>3. MouseThere'
    BY <1>1, <2>1 DEF MouseThere
  <2> QED
    BY <1>1, <2>1, <2>2, <2>3 DEF ButtonsInv
<1>3. CASE handle_click_event
  <2>1. surface' \in Surfaces /\ MouseThere'
    BY <1>1, <1>3 DEF ButtonsInv, MouseThere, handle_click_event
  <2>2. pressed' = TRUE /\ acted' = Acts'
    BY <1>3 DEF handle_click_event
  <2> QED
    BY <2>1, <2>2 DEF ButtonsInv
<1>4. CASE UNCHANGED buttonVars
  <2>1. Acts' = Acts
    BY <1>4 DEF buttonVars, Acts, NotesActs, CalcActs, RowAt, ColAt, SettingsActs, OptionAt,
                BrowserActs, CloseActs, Covers, TaskbarActs, IconActs
  <2> QED
    BY <1>4, <2>1 DEF ButtonsInv, MouseThere, buttonVars
<1> QED
  BY <1>2, <1>3, <1>4 DEF ButtonsNext

\* What is drawn and what reacts to a press agree, pixel by pixel, on the
\* windows of the editor, the calculator, the settings and the browser and on
\* the desktop, with any windows in the taskbar: one press acts on one control
\* at most, on the one drawn under the mouse, and not far from it
\* (handle_click_event, Notes::handle_click, BrowserApp::handle_click,
\* WindowManager::handle_click).
THEOREM ControlsAgree == ButtonsSpec => []ControlsSound
<1>1. ButtonsInit => ButtonsInv
  BY ButtonsInvInit
<1>2. ButtonsInv /\ [ButtonsNext]_buttonVars => ButtonsInv'
  BY ButtonsInvStep
<1>3. ButtonsInv => ControlsSound
  BY ControlsSoundThen
<1> QED
  BY <1>1, <1>2, <1>3, PTL DEF ButtonsSpec
=============================================================================
