----------------------------- MODULE Calculator -----------------------------
(***************************************************************************)
(* The calculator window (calc_press, calc_handle_key and the calculator's *)
(* part of handle_click_event in kernel/desktop.c).  Numbers are digits on *)
(* the display and signed machine integers behind it; the source's have 32 *)
(* bits and the display takes 15 digits, so that typing can exceed them.   *)
(***************************************************************************)
EXTENDS Integers, Sequences

CONSTANTS Digits,      \* the digits that are pressed
          DISPLAY,     \* digits the display takes (15)
          HALF         \* 2^31: integers are -HALF .. HALF - 1

ASSUME CalculatorAssumption ==
  Digits \subseteq 0 .. 9 /\ DISPLAY \in Nat \ {0} /\ HALF \in Nat /\ HALF > 9

\* The characters + - * and / of calc_op.
Operators == {"plus", "minus", "times", "over"}

VARIABLES display,     \* [neg |-> a minus sign stands first, digits |-> ...]
          error,       \* the display reads Err
          val1, val2,
          op,          \* calc_op, "none" for 0
          has_result,
          fault,       \* the division trapped: INT_MIN / -1
          exact        \* history variable: the result in unbounded arithmetic of the
                       \* operands as typed, or Unknown

calcVars == <<display, error, val1, val2, op, has_result, fault, exact>>

Unknown == [known |-> FALSE, left |-> 0, value |-> 0]

Empty == [neg |-> FALSE, digits |-> <<>>]

CalcInit ==
  /\ display = Empty /\ error = FALSE /\ val1 = 0 /\ val2 = 0 /\ op = "none"
  /\ has_result = FALSE /\ fault = FALSE /\ exact = Unknown

\* A signed integer of the machine's width.
Int32(n) == ((n + HALF) % (2 * HALF)) - HALF

\* The number on the display as it is read digit by digit; Err reads as 0.
Value32(digits) ==
  LET v[i \in 0 .. Len(digits)] == IF i = 0 THEN 0 ELSE Int32(v[i - 1] * 10 + digits[i])
  IN  v[Len(digits)]

Read(d) == IF d.neg THEN Int32(-Value32(d.digits)) ELSE Value32(d.digits)

\* The same number, unbounded.
Value(digits) ==
  LET v[i \in 0 .. Len(digits)] == IF i = 0 THEN 0 ELSE v[i - 1] * 10 + digits[i]
  IN  v[Len(digits)]

Meant(d) == IF d.neg THEN -Value(d.digits) ELSE Value(d.digits)

InRange(n) == n \in -HALF .. HALF - 1

(***************************************************************************)
(* calc_press, key by key.                                                 *)
(***************************************************************************)
Digit(c) ==
  LET shown == IF has_result THEN Empty ELSE display
  IN  /\ ~fault
      /\ display' = IF Len(shown.digits) + (IF shown.neg THEN 1 ELSE 0) < DISPLAY
                    THEN [shown EXCEPT !.digits = Append(@, c)] ELSE shown
      /\ error' = (error /\ ~has_result)
      /\ has_result' = FALSE
      /\ UNCHANGED <<val1, val2, op, fault, exact>>

Operator(c) ==
  /\ ~fault
  /\ val1' = Read(display)
  /\ op' = c
  /\ display' = Empty /\ error' = FALSE /\ has_result' = FALSE
  /\ exact' = [known |-> InRange(Meant(display)), left |-> Meant(display), value |-> 0]
  /\ UNCHANGED <<val2, fault>>

\* C's division rounds toward zero.
Truncated(a, b) ==
  LET q == (IF a < 0 THEN -a ELSE a) \div (IF b < 0 THEN -b ELSE b)
  IN  IF (a < 0) = (b < 0) THEN q ELSE -q

Result(a, c, b) ==
  CASE c = "plus" -> a + b
    [] c = "minus" -> a - b
    [] c = "times" -> a * b
    [] c = "over" -> Truncated(a, b)

\* The digits of a result, most significant first.  -HALF stays negative when
\* its sign is changed, and has none.
DigitsOf_Mut(n) ==
  LET F[k \in 0 .. HALF] == IF k < 10 THEN <<k>> ELSE <<k % 10>> \o F[k \div 10]
  IN  IF n < 0 THEN <<>> ELSE F[n]

DigitsOf(n) ==
  LET F[k \in 0 .. HALF] == IF k < 10 THEN <<k>> ELSE Append(F[k \div 10], k % 10)
  IN  IF n < 0 THEN <<>> ELSE F[n]

DisplayOf(res) == [neg |-> res < 0, digits |-> DigitsOf(IF res < 0 THEN Int32(-res) ELSE res)]

\* What idiv does when the quotient does not fit.
Traps(a, b) == a = -HALF /\ b = -1

EqualsNothing ==
  /\ ~fault /\ op = "none"
  /\ UNCHANGED calcVars

DividesByZero(b) == op = "over" /\ b = 0

Equals ==
  LET b == Read(display)
  IN  /\ ~fault /\ op # "none" /\ ~DividesByZero(b)
      /\ val2' = b
      /\ IF op = "over" /\ Traps(val1, b)
         THEN /\ fault' = TRUE
              /\ UNCHANGED <<display, op, has_result, exact>>
         ELSE /\ display' = DisplayOf(Int32(Result(val1, op, b)))
              /\ op' = "none" /\ has_result' = TRUE
              /\ exact' = [exact EXCEPT !.known = @ /\ InRange(Meant(display)),
                                        !.value = IF exact.known /\ InRange(Meant(display))
                                                  THEN Result(exact.left, op, Meant(display))
                                                  ELSE 0]
              /\ UNCHANGED fault
      /\ UNCHANGED <<error, val1>>

EqualsErr ==
  /\ ~fault /\ op # "none" /\ DividesByZero(Read(display))
  /\ val2' = 0
  /\ display' = Empty /\ error' = TRUE
  /\ op' = "none" /\ has_result' = TRUE
  /\ exact' = Unknown
  /\ UNCHANGED <<val1, fault>>

Clear ==
  /\ ~fault
  /\ display' = Empty /\ error' = FALSE /\ val1' = 0 /\ val2' = 0 /\ op' = "none"
  /\ has_result' = FALSE /\ exact' = Unknown
  /\ UNCHANGED fault

(***************************************************************************)
(* calc_handle_key: the keys of the number row, Enter, and the keypad's    *)
(* operators press the same buttons as the mouse.                          *)
(***************************************************************************)
KeyPresses(scancode) ==
  CASE scancode = 11 -> "zero"
    [] scancode \in 2 .. 10 -> "digit"
    [] scancode \in {12, 74} -> "minus"
    [] scancode \in {13, 28} -> "equals"
    [] scancode = 46 -> "C"
    [] scancode = 55 -> "times"
    [] scancode = 78 -> "plus"
    [] scancode = 53 -> "over"
    [] OTHER -> "nothing"

DigitOfKey(scancode) == IF scancode = 11 THEN 0 ELSE scancode - 1

calc_press(button, d) ==
  \/ button \in {"zero", "digit"} /\ d \in Digits /\ Digit(d)
  \/ button \in Operators /\ Operator(button)
  \/ button = "equals" /\ (Equals \/ EqualsErr \/ EqualsNothing)
  \/ button = "C" /\ Clear

KeyOrClick == \E scancode \in 2 .. 80 : calc_press(KeyPresses(scancode), DigitOfKey(scancode))

CalcNext == KeyOrClick

CalcSpec == CalcInit /\ [][CalcNext]_calcVars

-----------------------------------------------------------------------------
(***************************************************************************)
(* Properties.                                                             *)
(***************************************************************************)
CalcTypeOK ==
  /\ display \in [neg : BOOLEAN, digits : Seq(0 .. 9)]
  /\ val1 \in -HALF .. HALF - 1 /\ val2 \in -HALF .. HALF - 1
  /\ op \in Operators \cup {"none"}
  /\ error \in BOOLEAN /\ has_result \in BOOLEAN /\ fault \in BOOLEAN

\* When both operands and the result fit the machine's integers, the display
\* shows the exact result, leading digit first and with its sign.
ResultIsExact ==
  (has_result /\ ~error /\ exact.known /\ InRange(exact.value) /\ exact.value # -HALF)
    => Meant(display) = exact.value

\* A result is never an empty display, but for the one number that has no
\* positive counterpart.
ResultHasDigits ==
  (has_result /\ ~error /\ display.digits = <<>>) => display.neg

\* The display shows the result of the sum that was typed.
CalculatorSound == CalcTypeOK /\ ResultIsExact /\ ResultHasDigits
=============================================================================
