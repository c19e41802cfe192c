----------------------------- MODULE DesktopMC -----------------------------
(***************************************************************************)
(* The desktop and what is in its windows, the parts of the graphical      *)
(* system that share no state: the windows themselves, the packets of the  *)
(* mouse, the controls, the drawing, the terminal, the snake, the          *)
(* calculator and the page of the browser.  As in KernelMC a behaviour     *)
(* explores the part the initial state picks, and the others stay where    *)
(* they are.                                                               *)
(***************************************************************************)
EXTENDS Desktop, Snake, MousePacket, Graphics, Terminal, Calculator,
        BrowserPage, Buttons, TLC

VARIABLE part

deskVars == <<part, vars, mouseVars, buttonVars, frameVars, terminalVars,
              snakeVars, calcVars, pageVars>>

-----------------------------------------------------------------------------
(* Desktop: points on icons, title bars, close buttons, files, the taskbar *)
(* and the background; and, as a part of its own, the windows dragged to   *)
(* the edges of the screen.                                                *)
MCOrder == <<"files", "terminal", "notes", "welcome">>
MCFiles == <<"TXT", "ELF">>
MCPoints ==
    {<<30, 70>>,    \* the icon of FILES
     <<85, 70>>,    \* the icon of NOTES; WELCOME at first
     <<239, 35>>,   \* the close button of WELCOME
     <<25, 25>>,    \* the title bar of FILES
     <<40, 45>>,    \* the first file
     <<40, 195>>,   \* the first and
     <<90, 195>>,   \* the second button of the taskbar
     <<319, 199>>}

Drag == INSTANCE Desktop WITH
    Points <- {<<30, 70>>, <<62, 32>>, <<180, 31>>, <<40, 31>>, <<0, 0>>,
               <<319, 199>>},
    MaxMoves <- 3, MaxLeaves <- 0, MaxLaunches <- 0

\* More visible windows than the taskbar has room for.
MCTaskbar == <<"files", "terminal", "settings", "notes", "calc", "browser">>

\* Positions on every side of the screen.
MCPositions == -3 .. 6
MCSizes == {-1, 0, 1, 2, 5, 9}
MCTexts == {<<"a">>, <<"_">>, <<"A", " ", "a">>, <<"a", "A">>}
MCClips == [min_x : {-2, 0, 1}, max_x : {2, 4, 9}, min_y : {-2, 1}, max_y : {2, 9}]

\* The terminal: every command of the dispatcher is one letter, and two letters
\* spell none.  It is explored as two parts: typing, erasing and recalling lines
\* of up to 2 of 2 letters; and every command, with every length its answer may
\* have.
MCChars == CommandNames \ {"empty"}
MCMeans ==
    [line \in UNION {[1 .. n -> MCChars] : n \in 0 .. 2} |->
        CASE Len(line) = 0 -> "empty" [] Len(line) = 1 -> line[1] [] OTHER -> "unknown"]
TwoLetters == {"about", "clear"}

\* Pages that wrap at every place a line may end.
MCPages ==
    {<<"a", "b", "c">>,
     <<"a", "LF", "b", "LF", "c">>,
     <<"a", "b", "c", "d", "LF", "e", "f", "g">>,
     <<"LF", "a", "b", "c", "d", "e", "f", "g", "h", "i">>,
     <<"HTTP", "CR", "LF", "CR", "LF", "LT", "p", "GT", "a", "LT", "b">>,
     <<"HTTP", "LF", "LF", "a", "GT", "b", "CR", "LF", "c">>,
     <<"HTTP", "LF", "a">>}

-----------------------------------------------------------------------------
Parts == {"desk", "drag", "packet", "controls", "frame", "typing", "answers",
          "game", "calc", "page"}

\* What the unexplored parts are pinned to, where their Init leaves a choice.
Pinned ==
    /\ part # "packet" => packet = [dx |-> 0, dy |-> 0, left |-> FALSE]
    /\ part # "controls" => surface = "notes"
    /\ part # "game" => food = [x |-> 0, y |-> 0]

DeskInit ==
    /\ part \in Parts /\ Pinned
    /\ IF part = "drag" THEN Drag!Init ELSE Init
    /\ MouseInit /\ ButtonsInit /\ FrameInit
    /\ TermInit /\ SnakeInit /\ CalcInit /\ PageInit

AllBut(p) ==
    /\ part = p /\ UNCHANGED part
    /\ p \notin {"desk", "drag"} => UNCHANGED vars
    /\ p # "packet" => UNCHANGED mouseVars
    /\ p # "controls" => UNCHANGED buttonVars
    /\ p # "frame" => UNCHANGED frameVars
    /\ p \notin {"typing", "answers"} => UNCHANGED terminalVars
    /\ p # "game" => UNCHANGED snakeVars
    /\ p # "calc" => UNCHANGED calcVars
    /\ p # "page" => UNCHANGED pageVars

DeskNext ==
    \/ AllBut("desk") /\ Next
    \/ AllBut("drag") /\ Drag!Next
    \/ AllBut("packet") /\ MouseNext
    \/ AllBut("controls") /\ ButtonsNext
    \/ AllBut("frame") /\ FrameNext
    \/ AllBut("typing") /\ TermNext /\ input' \in Seq(TwoLetters) /\ serial' <= 9
    \/ AllBut("answers") /\ TermNext /\ Len(input') <= 1
    \/ AllBut("game") /\ SnakeNext
    \/ AllBut("calc") /\ CalcNext
    \/ AllBut("page") /\ PageNext

DeskSpec == DeskInit /\ [][DeskNext]_deskVars

\* In the part of the answers the recall list decides nothing; in that of the
\* drawing the screen between two swaps.
DeskView ==
    <<part, vars, mouseVars, buttonVars, memory, call,
      IF part = "answers" THEN <<input, history, serial, cleared, echo, command, halted>>
      ELSE terminalVars,
      snakeVars, calcVars, pageVars>>

-----------------------------------------------------------------------------
(* Properties; FocusSound and DragsSound are Desktop's, SnakeSound is      *)
(* Snake's, PacketsSound MousePacket's, FrameSound Graphics',              *)
(* TerminalSound Terminal's, CalculatorSound Calculator's, PageSound       *)
(* BrowserPage's and ControlsSound Buttons'.  Each is about one part,      *)
(* which stays in its initial state while another is explored.             *)

=============================================================================
