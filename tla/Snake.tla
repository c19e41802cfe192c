------------------------------- MODULE Snake -------------------------------
(***************************************************************************)
(* The snake game (apps/snake.c).  Its keys arrive whenever the window has *)
(* the focus; the snake moves while it is drawn, when enough ticks have    *)
(* passed since its last move.  snake_rand is any number.                  *)
(***************************************************************************)
EXTENDS Integers, Sequences, FiniteSets

CONSTANTS BOARD_W, BOARD_H,
          StartX, StartY,     \* where snake_init puts the head (10, 5)
          MaxLen              \* bound of the runs on the snake's length

ASSUME SnakeAssumption ==
  /\ BOARD_W \in Nat \ {0} /\ BOARD_H \in Nat \ {0}
  /\ StartX \in 2 .. BOARD_W - 1 /\ StartY \in 0 .. BOARD_H - 1
  /\ MaxLen \in 3 .. BOARD_W * BOARD_H

VARIABLES snake_body,   \* the array; its first snake_len cells are the snake
          snake_len,
          snake_dir,    \* 0 up, 1 right, 2 down, 3 left
          food,
          game_over,
          due,          \* more than 3 ticks have passed since last_tick
          trail         \* history variable: the head's places, newest first

snakeVars == <<snake_body, snake_len, snake_dir, food, game_over, due, trail>>

Cells == [x : 0 .. BOARD_W - 1, y : 0 .. BOARD_H - 1]

Around == [x : -1 .. BOARD_W, y : -1 .. BOARD_H]

Segments == 1 .. MaxLen

(***************************************************************************)
(* snake_init: three segments.  The array's other cells keep what they     *)
(* held, at first zero.                                                    *)
(***************************************************************************)
StartBody(old) ==
  [i \in Segments |-> IF i <= 3 THEN [x |-> StartX - (i - 1), y |-> StartY] ELSE old[i]]

StartTrail == [i \in 1 .. 3 |-> [x |-> StartX - (i - 1), y |-> StartY]]

SnakeInit ==
  /\ snake_body = StartBody([i \in Segments |-> [x |-> 0, y |-> 0]])
  /\ snake_len = 3 /\ snake_dir = 1 /\ food \in Cells
  /\ game_over = FALSE /\ due = FALSE
  /\ trail = StartTrail

Restart ==
  /\ snake_body' = StartBody(snake_body)
  /\ snake_len' = 3 /\ snake_dir' = 1 /\ food' \in Cells
  /\ game_over' = FALSE /\ due' = FALSE
  /\ trail' = StartTrail

(***************************************************************************)
(* snake_handle_key: an arrow that is not opposite to snake_dir.           *)
(***************************************************************************)
Turn(dir) ==
  /\ snake_dir # (dir + 2) % 4
  /\ snake_dir' = dir
  /\ UNCHANGED <<snake_body, snake_len, food, game_over, due, trail>>

\* Time passes until the next move is due.
Ticks ==
  /\ ~due
  /\ due' = TRUE
  /\ UNCHANGED <<snake_body, snake_len, snake_dir, food, game_over, trail>>

(***************************************************************************)
(* draw_snake_content.                                                     *)
(***************************************************************************)
Ahead(p) ==
  CASE snake_dir = 0 -> [p EXCEPT !.y = @ - 1]
    [] snake_dir = 1 -> [p EXCEPT !.x = @ + 1]
    [] snake_dir = 2 -> [p EXCEPT !.y = @ + 1]
    [] snake_dir = 3 -> [p EXCEPT !.x = @ - 1]

\* The array with every segment of the snake at its predecessor's place.
Shifted(head) ==
  [i \in Segments |-> IF i = 1 THEN head
                      ELSE IF i <= snake_len THEN snake_body[i - 1] ELSE snake_body[i]]

Collides_Mut(body) == body[1] \notin Cells

Collides(body) ==
  body[1] \notin Cells \/ \E i \in 2 .. snake_len : body[i] = body[1]

Eats(body) == body[1] = food

Grown == IF snake_len < MaxLen THEN snake_len + 1 ELSE snake_len

Move ==
  LET body == Shifted(Ahead(snake_body[1]))
      len  == IF Eats(body) THEN Grown ELSE snake_len
  IN  /\ ~game_over /\ due
      /\ due' = FALSE
      /\ snake_body' = body
      /\ game_over' = Collides(body)
      /\ snake_len' = len
      /\ IF Eats(body) THEN food' \in Cells ELSE UNCHANGED food
      /\ trail' = <<body[1]>> \o SubSeq(trail, 1, IF Len(trail) < MaxLen THEN Len(trail)
                                                  ELSE MaxLen - 1)
      /\ UNCHANGED snake_dir

SnakeNext ==
  \/ \E dir \in 0 .. 3 : Turn(dir)
  \/ Restart
  \/ Ticks
  \/ Move

SnakeSpec == SnakeInit /\ [][SnakeNext]_snakeVars

-----------------------------------------------------------------------------
(***************************************************************************)
(* Properties.                                                             *)
(***************************************************************************)
SnakeTypeOK ==
  /\ snake_body \in [Segments -> Around]
  /\ snake_len \in 3 .. MaxLen /\ snake_dir \in 0 .. 3 /\ food \in Cells
  /\ game_over \in BOOLEAN /\ due \in BOOLEAN

\* The snake is where its head has been: each segment stands where the head
\* stood that many moves ago.  A segment that was just grown has no place yet;
\* it gets one with the next move.
BodyIsTrail ==
  \A i \in 1 .. snake_len - 1 : i <= Len(trail) => snake_body[i] = trail[i]

\* While the game goes on, the head is on the board and on no other segment,
\* whatever keys came between two moves.
AliveMeansFree ==
  ~game_over =>
    /\ snake_body[1] \in Cells
    /\ \A i \in 2 .. snake_len - 1 : snake_body[i] # snake_body[1]

\* The snake follows its head, and the game goes on only while it is free.
SnakeSound == SnakeTypeOK /\ BodyIsTrail /\ AliveMeansFree
=============================================================================
