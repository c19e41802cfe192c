------------------------------ MODULE Buttons ------------------------------
(***************************************************************************)
(* Where the controls of the windows and of the desktop are drawn, and     *)
(* where a press of the mouse acts.  The two are written independently of  *)
(* each other in kernel/desktop.c, kernel/browser_app.c, kernel/           *)
(* window_manager.c and apps/notes.c.  The mouse is anywhere in a window   *)
(* (positions are relative to its corner) or on the bare desktop.          *)
(***************************************************************************)
EXTENDS Integers, Sequences

CONSTANTS Taskbar    \* the windows with a taskbar button, in window_order

IconNames == {"SETTINGS", "FILES", "TERMINAL", "SNAKE", "TASKS", "NOTES", "CALC", "BROWSER", "HELLO"}

ASSUME ButtonsAssumption ==
  /\ Taskbar \in Seq(STRING)
  /\ \A i, j \in 1 .. Len(Taskbar) : Taskbar[i] = Taskbar[j] => i = j
  /\ \A i \in 1 .. Len(Taskbar) : Taskbar[i] \notin IconNames

VARIABLES surface,   \* the window under the mouse, or "desktop"
          mx, my,
          pressed,   \* whether the button was pressed where the mouse is
          acted      \* the controls that press acted on

buttonVars == <<surface, mx, my, pressed, acted>>

Surfaces == {"notes", "calc", "settings", "browser", "desktop"}
Width  == [notes |-> 200, calc |-> 140, settings |-> 160, browser |-> 260, desktop |-> 320]
Height == [notes |-> 125, calc |-> 120, settings |-> 125, browser |-> 145, desktop |-> 200]

Control(name, left, top, w, h) == [name |-> name, x |-> left, y |-> top, w |-> w, h |-> h]

Covers(c, px, py) == px \in c.x .. c.x + c.w - 1 /\ py \in c.y .. c.y + c.h - 1

(***************************************************************************)
(* What is drawn.                                                          *)
(***************************************************************************)
NotesButtons ==
  {Control("OPEN", 10, 98, 40, 12), Control("SAVE", 60, 98, 40, 12), Control("CLEAR", 105, 98, 45, 12)}

CalcChars == << <<"7", "8", "9", "over">>, <<"4", "5", "6", "times">>,
                <<"1", "2", "3", "minus">>, <<"C", "0", "equals", "plus">> >>

CalcButtons ==
  {Control(CalcChars[r + 1][c + 1], 6 + c * 34, 36 + r * 20, 24, 14) : r \in 0 .. 3, c \in 0 .. 3}

Wallpapers == <<"wallpaper0", "wallpaper1", "wallpaper2">>
Speeds     == <<"speed0", "speed1", "speed2">>

\* Of an option, its mark: "(x)".
SettingsOptions ==
  {Control("wallpaper0", 12, 28, 24, 8), Control("wallpaper1", 12, 38, 24, 8),
   Control("wallpaper2", 12, 48, 24, 8), Control("speed0", 12, 72, 24, 8),
   Control("speed1", 12, 82, 24, 8), Control("speed2", 12, 92, 24, 8)}

SettingsButtons == SettingsOptions \cup {Control("APPLY", 12, 106, 45, 12)}

BrowserButtons ==
  {Control("GO", 220, 15, 32, 12), Control("UP", 8, 31, 20, 12), Control("DN", 32, 31, 20, 12),
   Control("MODE", 56, 31, 50, 12), Control("BOOKMARK", 110, 31, 75, 12), Control("SAVE", 190, 31, 50, 12)}

\* HELLO is there when HELLO.ELF is on the disk.
DesktopIcons ==
  {Control("SETTINGS", 15, 25, 10, 10), Control("FILES", 15, 65, 10, 10),
   Control("TERMINAL", 15, 105, 10, 10), Control("SNAKE", 15, 145, 10, 10),
   Control("TASKS", 85, 25, 10, 10), Control("NOTES", 85, 65, 10, 10),
   Control("CALC", 85, 105, 10, 10), Control("BROWSER", 85, 145, 10, 10),
   Control("HELLO", 155, 25, 10, 10)}

Least(a, b) == IF a < b THEN a ELSE b

\* At most the five buttons that start at or before column 220.
TaskbarButtons ==
  {Control(Taskbar[i], 35 + 46 * (i - 1), 191, 42, 8) : i \in 1 .. Least(Len(Taskbar), 5)}

CloseButton(p) == Control("close", Width[p] - 13, 3, 8, 8)

Drawn(p) ==
  CASE p = "notes"    -> NotesButtons \cup {CloseButton(p)}
    [] p = "calc"     -> CalcButtons \cup {CloseButton(p)}
    [] p = "settings" -> SettingsButtons \cup {CloseButton(p)}
    [] p = "browser"  -> BrowserButtons \cup {CloseButton(p)}
    [] p = "desktop"  -> DesktopIcons \cup TaskbarButtons

(***************************************************************************)
(* Where a press acts.  Every handler runs, so that several controls may   *)
(* act on one press; the desktop's stop at the first.                      *)
(***************************************************************************)
NotesActs ==
  IF my \notin 98 .. 110 THEN {}
  ELSE {n \in {"OPEN", "SAVE", "CLEAR"} :
          mx \in CASE n = "OPEN" -> 10 .. 50 [] n = "SAVE" -> 60 .. 100 [] n = "CLEAR" -> 105 .. 150}

RowAt_Mut == {r \in 0 .. 3 : my \in 36 + 20 * r .. 60 + 20 * r}

RowAt == {r \in 0 .. 3 : my \in 36 + 20 * r .. 50 + 20 * r}
ColAt == {c \in 0 .. 3 : mx \in 6 + 34 * c .. 30 + 34 * c}

CalcActs == {CalcChars[r + 1][c + 1] : r \in RowAt, c \in ColAt}

OptionAt(rows, first) == {o \in 0 .. 2 : my \in first + rows * o .. first + rows * o + rows - 1}

SettingsActs ==
  (IF mx \in 12 .. 120
   THEN {Wallpapers[o + 1] : o \in OptionAt(10, 28)} \cup {Speeds[o + 1] : o \in OptionAt(10, 72)}
   ELSE {})
  \cup (IF my \in 106 .. 118 /\ mx \in 12 .. 57 THEN {"APPLY"} ELSE {})

BrowserActs ==
  {n \in {"GO", "UP", "DN", "MODE", "BOOKMARK", "SAVE"} :
     CASE n = "GO" -> mx \in 220 .. 252 /\ my \in 15 .. 27
       [] n = "UP" -> mx \in 8 .. 28 /\ my \in 31 .. 43
       [] n = "DN" -> mx \in 32 .. 52 /\ my \in 31 .. 43
       [] n = "MODE" -> mx \in 56 .. 106 /\ my \in 31 .. 43
       [] n = "BOOKMARK" -> mx \in 110 .. 185 /\ my \in 31 .. 43
       [] n = "SAVE" -> mx \in 190 .. 240 /\ my \in 31 .. 43}

CloseActs == IF Covers(CloseButton(surface), mx, my) THEN {"close"} ELSE {}

IconColumns ==
  {[left |-> 5,   right |-> 55,  icons |-> <<"SETTINGS", "FILES", "TERMINAL", "SNAKE">>],
   [left |-> 75,  right |-> 115, icons |-> <<"TASKS", "NOTES", "CALC", "BROWSER">>],
   [left |-> 145, right |-> 185, icons |-> <<"HELLO">>]}

IconActs ==
  UNION {{col.icons[r] : r \in {r \in DOMAIN col.icons : my \in 40 * r - 20 .. 40 * r + 10}} :
           col \in {col \in IconColumns : mx \in col.left .. col.right}}

TaskbarActs ==
  {Taskbar[i] : i \in {i \in 1 .. Least(Len(Taskbar), 5) :
                       my \in 191 .. 199 /\ mx \in 35 + 46 * (i - 1) .. 76 + 46 * (i - 1)}}

Acts ==
  CASE surface = "notes"    -> NotesActs \cup CloseActs
    [] surface = "calc"     -> CalcActs \cup CloseActs
    [] surface = "settings" -> SettingsActs \cup CloseActs
    [] surface = "browser"  -> BrowserActs \cup CloseActs
    [] surface = "desktop"  -> TaskbarActs \cup (IF TaskbarActs = {} THEN IconActs ELSE {})

-----------------------------------------------------------------------------
ButtonsInit == surface \in Surfaces /\ mx = 0 /\ my = 0 /\ pressed = FALSE /\ acted = {}

\* The mouse comes to the next column, and the button is pressed in any row.
MouseMoves ==
  /\ mx' = mx + 1 /\ mx' < Width[surface] /\ my' = 0
  /\ pressed' = FALSE /\ acted' = {} /\ UNCHANGED surface

handle_click_event ==
  /\ ~pressed
  /\ \E row \in 0 .. Height[surface] - 1 : my' = row
  /\ UNCHANGED <<surface, mx>>
  /\ pressed' = TRUE /\ acted' = Acts'

ButtonsNext == MouseMoves \/ handle_click_event

ButtonsSpec == ButtonsInit /\ [][ButtonsNext]_buttonVars

-----------------------------------------------------------------------------
\* One press acts on at most one control: the click handlers, which test one
\* control after another without a return between them, do not overlap.
OneControl ==
  /\ mx \in 0 .. Width[surface] - 1 /\ my \in 0 .. Height[surface] - 1
  /\ acted \subseteq {c.name : c \in Drawn(surface)} /\ \A a, b \in acted : a = b

\* A press on the drawing of a control acts on that control: every pixel of
\* the calculator's, the editor's, the browser's and the settings' buttons, of
\* the icons, of the taskbar and of the close button.
ControlsAct ==
  pressed => \A c \in Drawn(surface) : Covers(c, mx, my) => acted = {c.name}

\* A press acts on a button only on its drawing or the pixel next to it (the
\* handlers use <= where the drawing ends one pixel earlier), so that no button
\* acts for a press nearer to another; icons and options react in a wider area.
ActsAtTheButton ==
  \A c \in Drawn(surface) \ (SettingsOptions \cup DesktopIcons) :
    c.name \in acted => mx \in c.x .. c.x + c.w /\ my \in c.y .. c.y + c.h

\* What is drawn and what acts agree, pixel by pixel.
ControlsSound == OneControl /\ ControlsAct /\ ActsAtTheButton

=============================================================================
