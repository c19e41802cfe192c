--------------------------- MODULE WindowManager ---------------------------
(***************************************************************************)
(* kernel/window_manager.c: the order of the windows, which of them are    *)
(* visible and active, and focus_window.  A state of the windows is a      *)
(* record [order, visible, active]; order is window_order, from the bottom *)
(* to the top.  What an interrupt may see in the middle of focus_window is *)
(* in Scheduler.                                                           *)
(***************************************************************************)
EXTENDS Naturals, Sequences

CONSTANT InitOrder  \* the windows in the order init_windows gives them

(* An instance may leave out windows that it never opens: they would stay  *)
(* invisible.                                                              *)
ASSUME OrderAssumption ==
    /\ InitOrder \in Seq(STRING)
    /\ \A i, j \in 1 .. Len(InitOrder) :
           InitOrder[i] = InitOrder[j] => i = j

NUM_WINDOWS == Len(InitOrder)
Windows == {InitOrder[i] : i \in 1 .. NUM_WINDOWS}

WindowStates == [order : [1 .. NUM_WINDOWS -> Windows],
                 visible : SUBSET Windows, active : SUBSET Windows]

init_windows == [order   |-> [i \in 1 .. NUM_WINDOWS |-> InitOrder[i]],
                 visible |-> {"welcome"} \intersect Windows,
                 active  |-> {"welcome"} \intersect Windows]

IndexOf(order, w) == CHOOSE i \in 1 .. NUM_WINDOWS : order[i] = w

\* The windows above w move down by one, and w goes on top.
Raised(order, w) ==
    [i \in 1 .. NUM_WINDOWS |->
        IF i = NUM_WINDOWS THEN w
        ELSE IF i >= IndexOf(order, w) THEN order[i + 1] ELSE order[i]]

focus_window(wm, w) ==
    [wm EXCEPT !.active = {w}, !.order = Raised(wm.order, w)]

Shown(wm, w) == [wm EXCEPT !.visible = wm.visible \union {w}]
Hidden(wm, w) == [wm EXCEPT !.visible = wm.visible \ {w}, !.active = wm.active \ {w}]

\* The visible window that no other visible window is above.
IsTop(wm, w) ==
    /\ w \in wm.visible
    /\ \A i, j \in 1 .. NUM_WINDOWS :
           wm.order[i] = w /\ j > i => wm.order[j] \notin wm.visible
=============================================================================
