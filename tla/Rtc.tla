-------------------------------- MODULE Rtc --------------------------------
(***************************************************************************)
(* Reading the clock chip (kernel/rtc.c) while it counts: the wait for the *)
(* end of an update, three registers read one after another, and the       *)
(* conversion from the chip's format.  Clock states are minutes of a day.  *)
(***************************************************************************)
EXTENDS Integers

CONSTANTS Bcd,        \* whether the chip counts in BCD (bit 2 of register B is 0)
          TwelveHour  \* whether it counts hours 1..12 with a PM bit (bit 1 is 0)

ASSUME RtcAssumption == {Bcd, TwelveHour} \subseteq BOOLEAN

VARIABLES clock, uip,           \* the chip: minute of the day, update in progress
          read_pc, minute, hour,     \* the reader's locals
          hours, minutes,       \* what it returned
          late,                 \* history variable: the wait ended while an update was due
          stood                 \* history variable: what the clock stood at since then

clockVars == <<clock, uip, read_pc, minute, hour, hours, minutes, late, stood>>

Coded(n) == IF Bcd THEN (n \div 10) * 16 + (n % 10) ELSE n

\* The chip's hour register: 12, 1..11, each with bit 7 after noon.
HourRegister ==
  LET h == clock \div 60
  IN  IF ~TwelveHour THEN Coded(h)
      ELSE Coded(IF h % 12 = 0 THEN 12 ELSE h % 12) + (IF h >= 12 THEN 128 ELSE 0)

\* A day around its turns: every hour's last and first minute.
Times == {t \in 0 .. 1439 : t % 60 \in {0, 1, 59}}

ClockInit ==
  /\ clock \in Times /\ uip = FALSE /\ read_pc = "wait"
  /\ minute = 0 /\ hour = 0 /\ hours = clock \div 60 /\ minutes = clock % 60
  /\ late = FALSE /\ stood = {clock}

(***************************************************************************)
(* The chip.  The flag is up for 244 microseconds before the registers     *)
(* change, which is longer than a reader that is not held up needs.        *)
(***************************************************************************)
FlagRises ==
  /\ ~uip /\ (clock + 1) % 1440 \in Times /\ uip' = TRUE
  /\ UNCHANGED <<clock, read_pc, minute, hour, hours, minutes, late, stood>>

Update ==
  /\ uip /\ (read_pc \in {"wait", "done"} \/ late)
  /\ clock' = (clock + 1) % 1440
  /\ uip' = FALSE
  /\ stood' = IF read_pc \in {"wait", "done"} THEN {clock'} ELSE stood \cup {clock'}
  /\ UNCHANGED <<read_pc, minute, hour, hours, minutes, late>>

(***************************************************************************)
(* read_rtc.                                                               *)
(***************************************************************************)
Waits_Mut == read_pc = "wait"

Waits == read_pc = "wait" /\ ~uip

WaitEnds ==
  /\ Waits
  /\ read_pc' = "minute" /\ late' = uip /\ stood' = {clock}
  /\ UNCHANGED <<clock, uip, minute, hour, hours, minutes>>

ReadMinute ==
  /\ read_pc = "minute" /\ minute' = Coded(clock % 60) /\ read_pc' = "hour"
  /\ UNCHANGED <<clock, uip, hour, hours, minutes, late, stood>>

ReadHour ==
  /\ read_pc = "hour" /\ hour' = HourRegister /\ read_pc' = "convert"
  /\ UNCHANGED <<clock, uip, minute, hours, minutes, late, stood>>

Decimal(reg) == IF Bcd THEN (reg \div 16) * 10 + (reg % 16) ELSE reg

AfternoonBit(h) == (h \div 128) % 2 = 1
To24(h) == IF TwelveHour /\ AfternoonBit(h) THEN ((h % 128) + 12) % 24 ELSE h

Convert ==
  /\ read_pc = "convert" /\ read_pc' = "done"
  /\ minutes' = Decimal(minute) /\ hours' = To24(Decimal(hour))
  /\ UNCHANGED <<clock, uip, minute, hour, late, stood>>

Again ==
  /\ read_pc = "done" /\ read_pc' = "wait"
  /\ UNCHANGED <<clock, uip, minute, hour, hours, minutes, late, stood>>

ClockNext == FlagRises \/ Update \/ WaitEnds \/ ReadMinute \/ ReadHour \/ Convert \/ Again

ClockSpec == ClockInit /\ [][ClockNext]_clockVars

-----------------------------------------------------------------------------
\* The time returned is one the clock stood at while it was read, never the
\* minute of one hour with another hour (09:59 read as 10:59).
ReadIsATime == [][Convert => 60 * hours' + minutes' \in stood]_clockVars

\* What the taskbar shows has two digits: hours / 10 and minutes / 10 are
\* digits.
TwoDigits == hours \in 0 .. 23 /\ minutes \in 0 .. 59

\* The taskbar shows a time the clock stood at while it was read.
ClockIsRead == []TwoDigits /\ ReadIsATime

=============================================================================
