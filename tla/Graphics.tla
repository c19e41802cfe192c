------------------------------ MODULE Graphics ------------------------------
(***************************************************************************)
(* Drawing into the back buffer (kernel/graphics.c): rectangles, text and  *)
(* clipped text, with positions that may lie outside the screen, and the   *)
(* copy to the screen.  The memory modelled extends past both ends of the  *)
(* buffer.  A glyph that is not a space lights every pixel of its cell.    *)
(***************************************************************************)
EXTENDS Integers, Sequences

CONSTANTS VGA_WIDTH, VGA_HEIGHT,
          CELL,            \* 8: width and height of a glyph
          Colors,
          Positions, Sizes, Texts, Clips   \* arguments of the calls

ASSUME GraphicsAssumption ==
  /\ VGA_WIDTH \in Nat \ {0} /\ VGA_HEIGHT \in Nat \ {0} /\ CELL \in Nat \ {0}
  /\ (VGA_WIDTH * VGA_HEIGHT) % 4 = 0
  /\ Positions \subseteq Int /\ Sizes \subseteq Int
  /\ Texts \subseteq Seq(STRING)
  /\ \A clip \in Clips : {clip.min_x, clip.max_x, clip.min_y, clip.max_y} \subseteq Int

VARIABLES memory,   \* offset from the start of the back buffer -> color
          screen,
          call      \* history variable: the last call

frameVars == <<memory, screen, call>>

VGA_LIMIT == VGA_WIDTH * VGA_HEIGHT
Margin == 2 * VGA_WIDTH
Offsets == -Margin .. VGA_LIMIT + Margin
Black == 0
Min2(a, b) == IF a < b THEN a ELSE b
Max2(a, b) == IF a > b THEN a ELSE b

FrameInit ==
  /\ memory = [o \in Offsets |-> Black] /\ screen = [o \in 0 .. VGA_LIMIT - 1 |-> Black]
  /\ call = [op |-> "none"]

Written(offsets, color) == [o \in Offsets |-> IF o \in offsets THEN color ELSE memory[o]]

(***************************************************************************)
(* draw_rect.                                                              *)
(***************************************************************************)
\* A start left of the screen takes its part off the length, then the length
\* is cut at the far edge.
Clipped_Mut(start, length, limit) ==
  LET s == Max2(start, 0) IN [start |-> s, length |-> Min2(length, limit - s)]

Clipped(start, length, limit) ==
  LET s == Max2(start, 0)
      l == IF start < 0 THEN length + start ELSE length
  IN  [start |-> s, length |-> Min2(l, limit - s)]

RowOffsets(base, width) ==
  IF base >= VGA_LIMIT THEN {} ELSE base .. base + Min2(width, VGA_LIMIT - base) - 1

RectOffsets(x, y, width, height) ==
  LET h == Clipped(x, width, VGA_WIDTH)
      v == Clipped(y, height, VGA_HEIGHT)
  IN  IF h.start >= VGA_WIDTH \/ v.start >= VGA_HEIGHT \/ h.length <= 0 \/ v.length <= 0 THEN {}
      ELSE UNION {RowOffsets((v.start + r) * VGA_WIDTH + h.start, h.length) : r \in 0 .. v.length - 1}

draw_rect(x, y, width, height, color) ==
  /\ memory' = Written(RectOffsets(x, y, width, height), color)
  /\ call' = [op |-> "rect", x |-> x, y |-> y, width |-> width, height |-> height, color |-> color]
  /\ UNCHANGED screen

(***************************************************************************)
(* draw_char and draw_char_clipped: lower case is drawn as upper case; a   *)
(* character above 'Z' (which the underscore is) or below ' ' is not drawn.*)
(***************************************************************************)
Upper(c) == IF c = "a" THEN "A" ELSE c
HasGlyph(c) == Upper(c) \in {" ", "A"}
Lit(c) == Upper(c) = "A"

WholeScreen == [min_x |-> 0, max_x |-> VGA_WIDTH, min_y |-> 0, max_y |-> VGA_HEIGHT]

Kept(p, clip) ==
  /\ p[1] >= clip.min_x /\ p[1] < clip.max_x /\ p[1] >= 0 /\ p[1] < VGA_WIDTH
  /\ p[2] >= clip.min_y /\ p[2] < clip.max_y /\ p[2] >= 0 /\ p[2] < VGA_HEIGHT

\* SAFE_WRITE
Safe(o) == o >= 0 /\ o < VGA_LIMIT

CharOffsets(x, y, c, clip) ==
  IF ~HasGlyph(c) \/ ~Lit(c) THEN {}
  ELSE {o \in {p[2] * VGA_WIDTH + p[1] :
                 p \in {p \in (x .. x + CELL - 1) \X (y .. y + CELL - 1) : Kept(p, clip)}} : Safe(o)}

(***************************************************************************)
(* draw_text and draw_text_clipped: a character right of the clip ends the *)
(* loop, one left of it is skipped.                                        *)
(***************************************************************************)
Skipped(x, clip) == x + CELL <= clip.min_x

TextOffsets(x, y, str, clip) ==
  UNION {CharOffsets(x + CELL * (i - 1), y, str[i], clip) :
           i \in {i \in DOMAIN str : /\ x + CELL * (i - 1) < clip.max_x
                                     /\ ~Skipped(x + CELL * (i - 1), clip)}}

draw_text(x, y, str, color) ==
  /\ memory' = Written(UNION {CharOffsets(x + CELL * (i - 1), y, str[i], WholeScreen) : i \in DOMAIN str}, color)
  /\ call' = [op |-> "text", x |-> x, y |-> y, str |-> str, clip |-> WholeScreen, color |-> color]
  /\ UNCHANGED screen

draw_text_clipped(x, y, str, color, clip) ==
  /\ memory' = Written(TextOffsets(x, y, str, clip), color)
  /\ call' = [op |-> "text", x |-> x, y |-> y, str |-> str, clip |-> clip, color |-> color]
  /\ UNCHANGED screen

(***************************************************************************)
(* Both whole-buffer loops go over double words.                           *)
(***************************************************************************)
Dwords == 0 .. VGA_LIMIT \div 4 - 1
BytesOf(dwords) == {o \in 0 .. VGA_LIMIT - 1 : o \div 4 \in dwords}

clear_backbuffer ==
  /\ memory' = Written(BytesOf(Dwords), Black)
  /\ call' = [op |-> "clear"] /\ UNCHANGED screen

Copied == BytesOf(Dwords)

swap_buffers ==
  /\ screen' = [o \in DOMAIN screen |-> IF o \in Copied THEN memory[o] ELSE screen[o]]
  /\ call' = [op |-> "swap"] /\ UNCHANGED memory

\* A frame here is a clearing, one call, and the swap.
FrameNext ==
  \/ call.op \in {"none", "swap"} /\ clear_backbuffer
  \/ /\ call.op = "clear"
     /\ \E x, y \in Positions, color \in Colors :
          \/ \E width, height \in Sizes : draw_rect(x, y, width, height, color)
          \/ \E str \in Texts : draw_text(x, y, str, color)
          \/ \E str \in Texts, clip \in Clips : draw_text_clipped(x, y, str, color, clip)
  \/ call.op \in {"rect", "text"} /\ swap_buffers

FrameSpec == FrameInit /\ [][FrameNext]_frameVars

-----------------------------------------------------------------------------
\* No drawing reaches memory outside the back buffer, whatever its position
\* and size (graphics.c: "Prevents stray writes from corrupting memory past
\* 0x50000+64000").
NoStrayWrites == \A o \in Offsets \ (0 .. VGA_LIMIT - 1) : memory[o] = Black

At(px, py) == memory[py * VGA_WIDTH + px]

\* A rectangle colors exactly the pixels of the screen it covers, also when it
\* starts left of or above the screen: it does not wrap into the next row.
RectIsItsPart ==
  call.op = "rect" =>
    \A px \in 0 .. VGA_WIDTH - 1, py \in 0 .. VGA_HEIGHT - 1 :
      At(px, py) = IF px \in call.x .. call.x + call.width - 1 /\ py \in call.y .. call.y + call.height - 1
                   THEN call.color ELSE Black

\* Text colors exactly the pixels of its characters that are on the screen and
\* within the clip: half a character at the edge is half drawn.
TextIsItsPart ==
  call.op = "text" =>
    \A px \in 0 .. VGA_WIDTH - 1, py \in 0 .. VGA_HEIGHT - 1 :
      At(px, py) = IF /\ px >= call.clip.min_x /\ px < call.clip.max_x
                      /\ py >= call.clip.min_y /\ py < call.clip.max_y
                      /\ py \in call.y .. call.y + CELL - 1
                      /\ \E i \in DOMAIN call.str :
                           /\ px \in call.x + CELL * (i - 1) .. call.x + CELL * i - 1
                           /\ Lit(call.str[i])
                   THEN call.color ELSE Black

\* After the swap the screen shows the whole back buffer.
ScreenIsTheFrame == call.op = "swap" => \A o \in DOMAIN screen : screen[o] = memory[o]

\* A frame is what was drawn of it, and nothing else is touched.
FrameSound == NoStrayWrites /\ RectIsItsPart /\ TextIsItsPart /\ ScreenIsTheFrame

=============================================================================
