----------------------------- MODULE SleepTiming -----------------------------
(***************************************************************************)
(* How long a sleep lasts.  scheduler_switch decrements the counters of    *)
(* all sleepers, and it runs not only for IRQ0 but also for the `int $32`  *)
(* of sys_sleep and process_exit and after a page fault.  The history      *)
(* variables below count real timer interrupts, to compare them with what  *)
(* the sleeper asked for.                                                  *)
(***************************************************************************)
EXTENDS Scheduler

VARIABLES
    asked,      \* asked[i]: the argument of the last sleep of slot i
    elapsed     \* elapsed[i]: timer interrupts taken during that sleep

sleepVars == <<vars, asked, elapsed>>

SleepTypeOK ==
    /\ TypeOK
    /\ asked \in [Slots -> Nat]
    /\ elapsed \in [Slots -> Nat]

SleepInit ==
    /\ Init
    /\ asked = [i \in Slots |-> 0]
    /\ elapsed = [i \in Slots |-> 0]

FallAsleep(t) ==
    /\ asked' = [asked EXCEPT ![current_process] = t]
    /\ elapsed' = [elapsed EXCEPT ![current_process] = 0]

CountTick ==
    /\ elapsed' = [i \in Slots |-> IF state[i] = "SLEEPING" THEN elapsed[i] + 1
                                                            ELSE elapsed[i]]
    /\ UNCHANGED asked

(* A new process starts with a clean history. *)
Forget == /\ asked' = [i \in Slots |-> IF state'[i] = "UNUSED" THEN 0 ELSE asked[i]]
          /\ elapsed' = [i \in Slots |-> IF state'[i] = "UNUSED" THEN 0 ELSE elapsed[i]]

SleepNext ==
    \/ TimerIrq /\ CountTick
    \/ \E t \in SleepTicks : Sleep(t) /\ FallAsleep(t)
    \/ \E t \in SystemSleepTicks : SystemSleep(t) /\ FallAsleep(t)
    \/ Exit /\ Forget
    \/ UserPageFault /\ Forget
    \/ KernelPageFault /\ Forget
    \/ ProgramStep /\ Forget
    \/ LoadFile /\ Forget
    \/ LoadStep /\ Forget
    \/ (\E w \in Windows : FocusBegin(w)) /\ Forget

SleepSpec == SleepInit /\ [][SleepNext]_sleepVars

(* No process oversleeps: the counter of a sleeper and the timer interrupts it
   has seen never add up to more than it asked for, whatever the other
   processes do, so the sleep is over within that many interrupts. *)
NeverOversleeps ==
    \A i \in Slots :
        state[i] = "SLEEPING" =>
            /\ sleep_ticks[i] > 0
            /\ elapsed[i] + sleep_ticks[i] < asked[i]

=============================================================================
