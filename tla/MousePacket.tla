---------------------------- MODULE MousePacket ----------------------------
(***************************************************************************)
(* The assembly of PS/2 mouse packets in run_gui_loop (kernel/desktop.c)   *)
(* and the pointer they move (drivers/mouse.c).                            *)
(*                                                                         *)
(* The mouse sends packets of three bytes: buttons, signs and the bit 3    *)
(* that is always set, then the low bytes of the two movements.  The       *)
(* controller passes them on one at a time, in order, among the bytes of   *)
(* the keyboard.  ESC leaves the loop between any two bytes, and the text  *)
(* shell does not read the mouse, so the bytes wait for the next desktop.  *)
(***************************************************************************)
EXTENDS Integers, Sequences

CONSTANTS
    MaxX, MaxY,          \* 319 and 199
    PointerX, PointerY,  \* 160 and 100
    Steps,               \* how far the mouse may move on an axis in one packet
    MaxReturns           \* a bound on how often the desktop is left

ASSUME MouseAssumption ==
    /\ MaxX \in Nat /\ MaxY \in Nat
    /\ PointerX \in 0 .. MaxX /\ PointerY \in 0 .. MaxY
    /\ Steps \subseteq 0 .. 255
    /\ MaxReturns \in Nat

VARIABLES
    wire,           \* the bytes of the packet that are still to be read
    packet,         \* that packet
    mouse_cycle, mouse_byte0, mouse_byte1,
    mouse_x, mouse_y,
    last_mouse_buttons,
    settings_mouse_speed,
    parsed,         \* "none" yet, or whether the last packet parsed is as sent
    mouse_leaves

mouseVars == <<wire, packet, mouse_cycle, mouse_byte0, mouse_byte1, mouse_x,
              mouse_y, last_mouse_buttons, settings_mouse_speed, parsed,
              mouse_leaves>>

Bit(b, k) == (b \div 2 ^ k) % 2 = 1

Moves == Steps \union {-d : d \in Steps}

\* Packets as the mouse means them, and their bytes.
Packets == [dx : Moves, dy : Moves, left : BOOLEAN]
If(p, n) == IF p THEN n ELSE 0
Bytes(p) ==
    <<8 + If(p.left, 1) + If(p.dx < 0, 16) + If(p.dy < 0, 32),
      p.dx % 256, p.dy % 256>>

MouseTypeOK ==
    /\ Len(wire) \in 0 .. 3 /\ packet \in Packets
    /\ mouse_cycle \in 0 .. 2
    /\ mouse_byte0 \in 0 .. 255 /\ mouse_byte1 \in 0 .. 255
    /\ mouse_x \in 0 .. MaxX /\ mouse_y \in 0 .. MaxY
    /\ last_mouse_buttons \in 0 .. 255
    /\ settings_mouse_speed \in 0 .. 2
    /\ parsed \in {"none", "sent", "garbled"}
    /\ mouse_leaves \in 0 .. MaxReturns

MouseInit ==
    /\ wire = <<>>
    /\ packet \in {p \in Packets : p.dx = 0 /\ p.dy = 0 /\ ~p.left}
    /\ mouse_cycle = 0 /\ mouse_byte0 = 0 /\ mouse_byte1 = 0
    /\ mouse_x = PointerX /\ mouse_y = PointerY
    /\ last_mouse_buttons = 0
    /\ settings_mouse_speed = 1
    /\ parsed = "none" /\ mouse_leaves = 0

-----------------------------------------------------------------------------
(* Parsing a packet. *)

\* A movement from its low byte and its sign.
Movement(byte, negative) == IF negative THEN byte - 256 ELSE byte

\* Integer division in C rounds towards zero.
Half(d) == IF d < 0 THEN -((-d) \div 2) ELSE d \div 2

Scaled(d) == CASE settings_mouse_speed = 0 -> Half(d)
               [] settings_mouse_speed = 1 -> d
               [] settings_mouse_speed = 2 -> 2 * d

Clamp(v, high) == IF v < 0 THEN 0 ELSE IF v > high THEN high ELSE v

MouseSends(p) ==
    /\ wire = <<>>
    /\ wire' = Bytes(p) /\ packet' = p
    /\ UNCHANGED <<mouse_cycle, mouse_byte0, mouse_byte1, mouse_x, mouse_y,
                   last_mouse_buttons, settings_mouse_speed, parsed, mouse_leaves>>

FirstByte_Mut(data) ==
    /\ mouse_cycle = 0
    /\ mouse_byte0' = data /\ mouse_cycle' = IF Bit(data, 4) THEN 0 ELSE 1
    /\ UNCHANGED <<mouse_byte1, mouse_x, mouse_y, last_mouse_buttons, parsed>>

FirstByte(data) ==
    /\ mouse_cycle = 0
    /\ IF Bit(data, 3) THEN mouse_byte0' = data /\ mouse_cycle' = 1
                       ELSE UNCHANGED <<mouse_byte0, mouse_cycle>>
    /\ UNCHANGED <<mouse_byte1, mouse_x, mouse_y, last_mouse_buttons, parsed>>

SecondByte(data) ==
    /\ mouse_cycle = 1
    /\ mouse_byte1' = data /\ mouse_cycle' = 2
    /\ UNCHANGED <<mouse_byte0, mouse_x, mouse_y, last_mouse_buttons, parsed>>

ThirdByte(data) ==
    /\ mouse_cycle = 2
    /\ mouse_cycle' = 0
    /\ LET dx == Movement(mouse_byte1, Bit(mouse_byte0, 4))
           dy == Movement(data, Bit(mouse_byte0, 5))
       IN /\ mouse_x' = Clamp(mouse_x + Scaled(dx), MaxX)
          /\ mouse_y' = Clamp(mouse_y - Scaled(dy), MaxY)
          /\ parsed' = IF [dx |-> dx, dy |-> dy, left |-> Bit(mouse_byte0, 0)] = packet
                       THEN "sent" ELSE "garbled"
    /\ last_mouse_buttons' = mouse_byte0
    /\ UNCHANGED <<mouse_byte0, mouse_byte1>>

MouseByte ==
    /\ wire # <<>>
    /\ FirstByte(Head(wire)) \/ SecondByte(Head(wire)) \/ ThirdByte(Head(wire))
    /\ wire' = Tail(wire)
    /\ UNCHANGED <<packet, settings_mouse_speed, mouse_leaves>>

\* The APPLY button of the settings window, between two packets.
Apply(speed) ==
    /\ mouse_cycle = 0
    /\ settings_mouse_speed' = speed
    /\ UNCHANGED <<wire, packet, mouse_cycle, mouse_byte0, mouse_byte1, mouse_x,
                   mouse_y, last_mouse_buttons, parsed, mouse_leaves>>

init_mouse ==
    /\ mouse_x' = PointerX /\ mouse_y' = PointerY
    /\ mouse_cycle' = 0
    /\ last_mouse_buttons' = 0
    /\ UNCHANGED <<mouse_byte0, mouse_byte1>>

\* ESC, and the desktop started again.
StartAgain ==
    /\ mouse_leaves < MaxReturns
    /\ mouse_leaves' = mouse_leaves + 1
    /\ init_mouse
    /\ UNCHANGED <<wire, packet, settings_mouse_speed, parsed>>

MouseNext ==
    \/ \E p \in Packets : MouseSends(p)
    \/ MouseByte
    \/ \E s \in 0 .. 2 : Apply(s)
    \/ StartAgain

MouseSpec == MouseInit /\ [][MouseNext]_mouseVars

-----------------------------------------------------------------------------
(* Properties. *)

\* The bytes of a packet are taken for that packet's: while the desktop is
\* not left the assembly never falls out of step, whatever the keyboard sends
\* in between and whichever bytes happen to have bit 3 set.
InStep == mouse_leaves = 0 => (mouse_cycle + Len(wire)) % 3 = 0

\* A packet the desktop acts upon is one the mouse sent: signs, movements and
\* the button, while the desktop is not left.
ActsOnWhatWasSent == mouse_leaves = 0 => parsed # "garbled"

\* Moving the mouse and moving it back by as much leaves the pointer where it
\* was at every speed, unless an edge of the screen stopped it: halving rounds
\* both ways towards zero.
ThereAndBack ==
    \A d \in Moves : Scaled(d) + Scaled(-d) = 0

\* While the desktop is not left its pointer follows the mouse.
PacketsSound == MouseTypeOK /\ InStep /\ ActsOnWhatWasSent /\ ThereAndBack
=============================================================================
