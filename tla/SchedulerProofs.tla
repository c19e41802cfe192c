--------------------------- MODULE SchedulerProofs ---------------------------
(***************************************************************************)
(* What TLAPS proves of Scheduler and of SleepTiming, for every size of    *)
(* the process table and of the heap, every set of windows and every       *)
(* choice of sleep arguments.                                              *)
(***************************************************************************)
EXTENDS SleepTiming, TLAPS

-----------------------------------------------------------------------------
(* The table after a switch.  `left` is what the interrupted code made of its
   own state: RUNNING for an interrupt, SLEEPING or TERMINATED for a system
   call.  Nothing here depends on the sleep counters, which only decide which
   sleepers wake up. *)

Leaves == {"RUNNING", "SLEEPING", "TERMINATED"}

AfterTick(woken, left) ==
    /\ woken \in [Slots -> ProcessState]
    /\ \A i \in Slots \ {current_process} :
          \/ state[i] # "TERMINATED" /\ woken[i] = state[i]
          \/ state[i] = "TERMINATED" /\ woken[i] = "UNUSED"
          \/ state[i] = "SLEEPING" /\ woken[i] = "READY"
    /\ \/ left = "RUNNING" /\ woken[current_process] = "READY"
       \/ left = "SLEEPING" /\ woken[current_process] \in {"SLEEPING", "READY"}
       \/ left = "TERMINATED" /\ woken[current_process] = "TERMINATED"

(* A step that switches away from a process that became `left`. *)
SwitchStep(left) ==
    \E sl \in [Slots -> Nat] :
        Switch([state EXCEPT ![current_process] = left], sl)

(* The slots a switch gives back. *)
Reapable == {i \in Slots \ {current_process} : state[i] = "TERMINATED"}

(* Every switch, restated with AfterTick and Reapable: the lemma that hides
   the passes of scheduler_switch over the table from the other proofs. *)
LEMMA SwitchEffect ==
    ASSUME TypeOK, NEW left \in Leaves, SwitchStep(left)
    PROVE  /\ sleep_ticks' \in [Slots -> Nat]
           /\ \E woken : /\ AfterTick(woken, left)
                         /\ current_process' \in Slots
                         /\ Selected(woken, current_process')
                         /\ state' = [woken EXCEPT ![current_process'] = "RUNNING"]
                         /\ Resume(current_process')
           /\ esp' = [esp EXCEPT ![current_process] = InterruptStack]
           /\ ReleaseDead(Reapable)
           /\ UNCHANGED <<id, ring, cr3, kernel_stack_top, next_pid, next_block,
                          unlisted, loadVars, halted>>
<1> DEFINE st == [state EXCEPT ![current_process] = left]
<1>1. PICK sl \in [Slots -> Nat] : Switch(st, sl)
  BY DEF SwitchStep
<1> DEFINE preempted == Preempted(st)
           reaped    == Reaped(preempted)
           ticked    == Ticked(reaped, sl)
           woken     == Woken(reaped, ticked)
<1>2. /\ st \in [Slots -> ProcessState]
      /\ st[current_process] = left
      /\ \A i \in Slots \ {current_process} : st[i] = state[i]
  BY DEF TypeOK, Leaves, ProcessState
<1>3. /\ preempted \in [Slots -> ProcessState]
      /\ preempted[current_process] = IF left = "RUNNING" THEN "READY" ELSE left
      /\ \A i \in Slots \ {current_process} : preempted[i] = state[i]
  <2> HIDE DEF st
  <2> QED BY <1>2 DEF Preempted, TypeOK, Leaves, ProcessState
<1>4. /\ reaped \in [Slots -> ProcessState]
      /\ reaped[current_process] = preempted[current_process]
      /\ \A i \in Slots \ {current_process} :
            reaped[i] = IF state[i] = "TERMINATED" THEN "UNUSED" ELSE state[i]
  <2> HIDE DEF preempted
  <2> QED BY <1>3 DEF Reaped, Dead, TypeOK, ProcessState
<1>5. ticked \in [Slots -> Nat]
  <2> HIDE DEF reaped
  <2> QED BY <1>4 DEF Ticked
<1>6. /\ woken \in [Slots -> ProcessState]
      /\ \A i \in Slots : \/ woken[i] = reaped[i]
                          \/ reaped[i] = "SLEEPING" /\ woken[i] = "READY"
  <2> HIDE DEF reaped, ticked
  <2> QED BY <1>4 DEF Woken, ProcessState
<1>7. AfterTick(woken, left)
  <2> HIDE DEF reaped, preempted, woken
  <2> QED BY <1>3, <1>4, <1>6 DEF AfterTick, TypeOK, Leaves
<1>8. /\ sleep_ticks' = ticked
      /\ \E next \in Slots : /\ Selected(woken, next)
                             /\ current_process' = next
                             /\ state' = [woken EXCEPT ![next] = "RUNNING"]
                             /\ Resume(next)
      /\ esp' = [esp EXCEPT ![current_process] = InterruptStack]
      /\ ReleaseDead(Dead(preempted))
      /\ UNCHANGED <<id, ring, cr3, kernel_stack_top, next_pid, next_block,
                     unlisted, loadVars, halted>>
  BY <1>1, Zenon DEF Switch
<1>9. Dead(preempted) = Reapable
  <2> HIDE DEF preempted
  <2> QED BY <1>3 DEF Dead, Reapable
<1> HIDE DEF woken, ticked, preempted
<1> QED BY <1>5, <1>7, <1>8, <1>9, Zenon

-----------------------------------------------------------------------------
(* Control: who runs, and what load_program is doing meanwhile. *)

SystemTaskLives ==
    /\ state[0] \in {"READY", "RUNNING", "SLEEPING"}
    /\ ring[0] = 0

Control ==
    /\ TypeOK
    /\ RunningIsCurrent
    /\ HalfBuiltNeverRuns
    /\ LoaderNotPreempted
    /\ SystemTaskLives

(* Inside load_program the only way to leave the CPU is an interrupt, and the
   system task never terminates. *)
Switches ==
    \E left \in Leaves :
        /\ SwitchStep(left)
        /\ pc # "idle" => left = "RUNNING"
        /\ current_process = 0 => left # "TERMINATED"

SwitchAction ==
    \/ TimerIrq
    \/ \E t \in SleepTicks : Sleep(t)
    \/ \E t \in SystemSleepTicks : SystemSleep(t)
    \/ Exit
    \/ UserPageFault

(* Every handler that calls scheduler_switch is a Switches step. *)
LEMMA SwitchActions ==
    ASSUME Control, SwitchAction
    PROVE  Switches
<1> USE DEF Control, Switches, SwitchStep, Leaves
<1>1. CASE TimerIrq
  <2>1. state = [state EXCEPT ![current_process] = "RUNNING"]
    BY DEF TypeOK, RunningIsCurrent
  <2>2. sleep_ticks \in [Slots -> Nat] /\ Switch(state, sleep_ticks)
    BY <1>1 DEF TimerIrq, TypeOK
  <2> QED BY <2>1, <2>2, Zenon
<1>2. CASE \E t \in SleepTicks : Sleep(t)
  <2>1. PICK t \in SleepTicks : Sleep(t)
    BY <1>2
  <2>2. [sleep_ticks EXCEPT ![current_process] = t] \in [Slots -> Nat]
    BY ConstantsAssumption DEF TypeOK
  <2>3. Switch([state EXCEPT ![current_process] = "SLEEPING"],
               [sleep_ticks EXCEPT ![current_process] = t])
    BY <2>1, Zenon DEF Sleep
  <2>4. pc = "idle" /\ current_process # 0
    BY <2>1 DEF Sleep, LoaderNotPreempted
  <2> QED BY <2>2, <2>3, <2>4, Zenon
<1>3. CASE \E t \in SystemSleepTicks : SystemSleep(t)
  <2>1. PICK t \in SystemSleepTicks : SystemSleep(t)
    BY <1>3
  <2>2. current_process = 0 /\ pc = "idle"
    BY <2>1, Zenon DEF SystemSleep
  <2>3. [sleep_ticks EXCEPT ![0] = t] \in [Slots -> Nat]
    BY <2>2, ConstantsAssumption DEF TypeOK
  <2>4. Switch([state EXCEPT ![0] = "SLEEPING"], [sleep_ticks EXCEPT ![0] = t])
    BY <2>1, Zenon DEF SystemSleep
  <2> QED BY <2>2, <2>3, <2>4, Zenon
<1>4. CASE Exit
  <2>1. Switch([state EXCEPT ![current_process] = "TERMINATED"], sleep_ticks)
    BY <1>4, Zenon DEF Exit
  <2>2. pc = "idle" /\ current_process # 0
    BY <1>4 DEF Exit, LoaderNotPreempted
  <2>3. sleep_ticks \in [Slots -> Nat]
    BY DEF TypeOK
  <2> QED BY <2>1, <2>2, <2>3, Zenon
<1>5. CASE UserPageFault
  <2>1. Switch([state EXCEPT ![current_process] = "TERMINATED"], sleep_ticks)
    BY <1>5, Zenon DEF UserPageFault
  <2>2. pc = "idle" /\ current_process # 0
    BY <1>5 DEF UserPageFault, LoaderNotPreempted, SystemTaskLives
  <2>3. sleep_ticks \in [Slots -> Nat]
    BY DEF TypeOK
  <2> QED BY <2>1, <2>2, <2>3, Zenon
<1> QED BY <1>1, <1>2, <1>3, <1>4, <1>5 DEF SwitchAction

(* While the system task is runnable nothing else is selected: it alone has
   PRIO_HIGH. *)
LEMMA SystemTaskFirst ==
    ASSUME NEW woken \in [Slots -> ProcessState], NEW next \in Slots,
           woken[0] = "READY", Selected(woken, next)
    PROVE  next = 0
<1>1. 0 \in Slots
  BY ConstantsAssumption DEF Slots
<1>2. 0 \in Runnable(woken)
  BY <1>1 DEF Runnable
<1>3. \A i \in Slots : i # 0 => priority(i) < priority(0)
  BY DEF priority
<1>4. next \in Candidates(woken)
  BY <1>2 DEF Selected
<1>5. priority(0) <= priority(next)
  BY <1>2, <1>4 DEF Candidates
<1> QED BY <1>3, <1>5 DEF priority

(* What is selected is READY or CREATED, or it is the system task. *)
LEMMA SelectedIsRunnable ==
    ASSUME NEW woken \in [Slots -> ProcessState], NEW next \in Slots,
           Selected(woken, next)
    PROVE  woken[next] \in {"READY", "CREATED", "RUNNING"} \/ next = 0
BY DEF Selected, Candidates, Runnable

(* A switch keeps Control. *)
LEMMA SwitchControl ==
    ASSUME Control, Switches
    PROVE  /\ RunningIsCurrent' /\ HalfBuiltNeverRuns'
           /\ LoaderNotPreempted' /\ SystemTaskLives'
           /\ state' \in [Slots -> ProcessState]
           /\ sleep_ticks' \in [Slots -> Nat]
           /\ current_process' \in Slots
<1>1. PICK left \in Leaves : /\ SwitchStep(left)
                             /\ pc # "idle" => left = "RUNNING"
                             /\ current_process = 0 => left # "TERMINATED"
  BY Zenon DEF Switches
<1>2. TypeOK
  BY DEF Control
<1>3. /\ sleep_ticks' \in [Slots -> Nat]
      /\ \E woken : /\ AfterTick(woken, left)
                    /\ current_process' \in Slots
                    /\ Selected(woken, current_process')
                    /\ state' = [woken EXCEPT ![current_process'] = "RUNNING"]
  BY <1>1, <1>2, SwitchEffect
<1>4. PICK woken : /\ AfterTick(woken, left)
                   /\ current_process' \in Slots
                   /\ Selected(woken, current_process')
                   /\ state' = [woken EXCEPT ![current_process'] = "RUNNING"]
  BY <1>3
<1>5. UNCHANGED <<ring, pc, slot>>
  BY <1>1 DEF SwitchStep, Switch, loadVars
<1>6. 0 \in Slots
  BY ConstantsAssumption DEF Slots
<1>7. /\ woken \in [Slots -> ProcessState]
      /\ \A i \in Slots : woken[i] # "RUNNING"
      /\ \A i \in Slots : woken[i] = "CREATED" <=> state[i] = "CREATED"
      /\ woken[0] \in {"READY", "SLEEPING"}
      /\ left = "RUNNING" => woken[current_process] = "READY"
  BY <1>1, <1>2, <1>4, <1>6
     DEF AfterTick, Control, RunningIsCurrent, SystemTaskLives, TypeOK, Leaves
<1>8. pc # "idle" => current_process' = 0
  <2> SUFFICES ASSUME pc # "idle" PROVE current_process' = 0
    OBVIOUS
  <2>1. current_process = 0
    BY DEF Control, LoaderNotPreempted
  <2>2. woken[0] = "READY"
    BY <1>1, <1>7, <2>1
  <2> QED BY <1>4, <1>7, <2>2, SystemTaskFirst
<1>9. woken[current_process'] # "CREATED"
  <2> SUFFICES ASSUME woken[current_process'] = "CREATED" PROVE FALSE
    OBVIOUS
  <2>1. Building
    BY <1>4, <1>7 DEF Control, HalfBuiltNeverRuns
  <2> QED BY <1>7, <1>8, <2>1 DEF Building
<1>10. RunningIsCurrent'
  BY <1>4, <1>7 DEF RunningIsCurrent
<1>11. HalfBuiltNeverRuns'
  BY <1>4, <1>5, <1>7, <1>9 DEF HalfBuiltNeverRuns, Building, Control
<1>12. LoaderNotPreempted'
  BY <1>5, <1>8 DEF LoaderNotPreempted
<1>13. SystemTaskLives'
  BY <1>4, <1>5, <1>6, <1>7 DEF SystemTaskLives, Control
<1>14. state' \in [Slots -> ProcessState]
  BY <1>4, <1>7 DEF ProcessState
<1> QED BY <1>3, <1>4, <1>10, <1>11, <1>12, <1>13, <1>14

(* A switch keeps the types: what it frees are blocks, what it loads into the
   CPU comes from the table. *)
LEMMA SwitchTypes ==
    ASSUME Control, Switches
    PROVE  TypeOK'
<1>1. PICK left \in Leaves : SwitchStep(left)
  BY Zenon DEF Switches
<1>2. /\ esp' = [esp EXCEPT ![current_process] = InterruptStack]
      /\ ReleaseDead(Reapable)
      /\ UNCHANGED <<id, ring, cr3, kernel_stack_top, next_pid, next_block,
                     unlisted, loadVars, halted>>
      /\ Resume(current_process')
  BY <1>1, SwitchEffect DEF Control
<1>4. Reapable \subseteq Slots
  BY DEF Reapable
<1>5. TypeOK
  BY DEF Control
<1>6. /\ state' \in [Slots -> ProcessState] /\ sleep_ticks' \in [Slots -> Nat]
      /\ current_process' \in Slots
  BY SwitchControl
<1>7. 0 \in Blocks
  BY ConstantsAssumption DEF Blocks
<1>8. esp' \in [Slots -> Blocks]
  BY <1>2, <1>5 DEF TypeOK, InterruptStack
<1>9. ReleasedBlocks(Reapable) \subseteq Blocks
  <2>1. \A i \in Reapable : {stack_mem[i], user_stack_mem[i], entry_point[i]}
                            \cup alloced_blocks[i] \subseteq Blocks
    BY <1>4, <1>5 DEF TypeOK
  <2> QED BY <2>1 DEF ReleasedBlocks
<1>10. /\ freed' \in SUBSET Blocks
       /\ stack_mem' \in [Slots -> Blocks]
       /\ user_stack_mem' \in [Slots -> Blocks]
       /\ entry_point' \in [Slots -> Blocks]
       /\ alloced_blocks' \in [Slots -> SUBSET Blocks]
       /\ app_blocks' \in [Slots -> SUBSET Blocks]
       /\ window_pid' \in [Windows -> Nat]
  BY <1>2, <1>5, <1>7, <1>9 DEF ReleaseDead, TypeOK
<1>11. cpu_stack' \in Blocks /\ cpu_cr3' \in Blocks /\ tss_esp0' \in Blocks
  BY <1>2, <1>5, <1>6, <1>8 DEF Resume, TypeOK
<1> QED BY <1>2, <1>5, <1>6, <1>8, <1>10, <1>11 DEF TypeOK, loadVars

-----------------------------------------------------------------------------
(* The steps of load_program. *)

(* process_create and process_create_elf: the part they share. *)
LEMMA BuildControl ==
    ASSUME Control, NEW i \in Slots, NEW need \in {1, 2},
           NEW extra \in SUBSET Blocks, NEW onFailure \in SUBSET Blocks,
           BuildProcess(i, need, extra, onFailure),
           current_process = 0,
           i # 0,
           \A j \in Slots : state[j] = "CREATED" => j = i,
           ring' \in [Slots -> {0, 3}], ring'[0] = 0,
           cr3' \in [Slots -> Blocks],
           entry_point' \in [Slots -> Blocks],
           alloced_blocks' \in [Slots -> SUBSET Blocks]
    PROVE  Control'
<1> DEFINE got == IF FreeBlocks >= need THEN need ELSE FreeBlocks
           ok  == got = need
<1>1. TypeOK
  BY DEF Control
<1>2. /\ got \in 0 .. 2 /\ next_block + got \in 1 .. HeapBlocks + 1
      /\ got >= 1 => next_block \in Blocks
      /\ got = 2 => next_block + 1 \in Blocks
      /\ next_block .. next_block + got - 1 \subseteq Blocks
      /\ 0 \in Blocks
  BY <1>1, ConstantsAssumption DEF TypeOK, FreeBlocks, Blocks
<1>3. /\ id' = [id EXCEPT ![i] = next_pid]
      /\ next_pid' = next_pid + 1
      /\ sleep_ticks' = [sleep_ticks EXCEPT ![i] = 0]
      /\ stack_mem' =
             [stack_mem EXCEPT ![i] = IF got >= 1 THEN next_block ELSE 0]
      /\ kernel_stack_top' =
             [kernel_stack_top EXCEPT ![i] = IF got >= 1 THEN next_block ELSE @]
      /\ user_stack_mem' =
             [user_stack_mem EXCEPT ![i] =
                 IF ok /\ need = 2 THEN next_block + 1 ELSE 0]
      /\ next_block' = next_block + got
      /\ esp' = [esp EXCEPT ![i] = IF ok THEN next_block ELSE @]
      /\ state' = [state EXCEPT ![i] = IF ok THEN "READY" ELSE "UNUSED"]
      /\ \/ ok /\ pc' = "link" /\ slot' = i /\ code' = 0
            /\ freed' = freed \cup extra
         \/ ~ok /\ pc' = "idle" /\ slot' = 0 /\ code' = 0
            /\ freed' = freed \cup (extra \cup onFailure \cup
                                    (next_block .. next_block + got - 1))
      /\ UNCHANGED <<app_blocks, current_process, cpuVars, windowVars, halted>>
  BY DEF BuildProcess, Return, Bump
<1>4. ok => got >= 1
  OBVIOUS
<1> HIDE DEF got, ok
<1>5. 0 \in Slots
  BY ConstantsAssumption DEF Slots
<1>6. TypeOK'
  <2>1. /\ id' \in [Slots -> Nat] /\ next_pid' \in Nat
        /\ sleep_ticks' \in [Slots -> Nat]
        /\ stack_mem' \in [Slots -> Blocks]
        /\ kernel_stack_top' \in [Slots -> Blocks]
        /\ esp' \in [Slots -> Blocks]
        /\ state' \in [Slots -> ProcessState]
    BY <1>1, <1>2, <1>3, <1>4 DEF TypeOK, ProcessState
  <2>2. user_stack_mem' \in [Slots -> Blocks]
    BY <1>1, <1>2, <1>3 DEF TypeOK, ok
  <2>3. /\ next_block' \in 1 .. HeapBlocks + 1
        /\ freed' \in SUBSET Blocks
        /\ pc' \in {"idle", "link"} /\ slot' \in Slots /\ code' \in Blocks
    BY <1>1, <1>2, <1>3, <1>5 DEF TypeOK
  <2> QED BY <1>1, <1>3, <2>1, <2>2, <2>3 DEF TypeOK, cpuVars, windowVars
<1>7. RunningIsCurrent'
  BY <1>1, <1>3 DEF Control, RunningIsCurrent, TypeOK
<1>8. HalfBuiltNeverRuns' /\ LoaderNotPreempted'
  BY <1>1, <1>3 DEF HalfBuiltNeverRuns, LoaderNotPreempted, Building, TypeOK
<1>9. SystemTaskLives'
  BY <1>1, <1>3, <1>5 DEF Control, SystemTaskLives, TypeOK
<1> QED BY <1>6, <1>7, <1>8, <1>9 DEF Control

(* A free slot is not the system task's. *)
LEMMA UnusedSlot ==
    ASSUME Control, NEW i \in Slots, state[i] = "UNUSED"
    PROVE  i # 0
BY DEF Control, SystemTaskLives

(* Every other step of the system task keeps Control. *)
LEMMA LoadControl ==
    ASSUME Control, LoadFile \/ LoadStep \/ \E w \in Windows : FocusBegin(w)
    PROVE  Control'
<1> USE DEF SystemAt
<1>1. TypeOK
  BY DEF Control
<1>2. 0 \in Slots /\ 0 \in Blocks
  BY ConstantsAssumption DEF Slots, Blocks
<1>3. HasCode => code \in Blocks
  BY <1>1 DEF TypeOK
<1>4. CASE LoadFile
  <2>1. code' \in Blocks /\ next_block' \in 1 .. HeapBlocks + 1
    BY <1>1, <1>4, ConstantsAssumption
       DEF LoadFile, FreeBlocks, Bump, TypeOK, Blocks
  <2> QED
    BY <1>1, <1>4, <2>1
       DEF LoadFile, Control, TypeOK, RunningIsCurrent, HalfBuiltNeverRuns,
           LoaderNotPreempted, SystemTaskLives, Building, tableVars, schedVars,
           cpuVars, windowVars
<1>5. CASE LoadFails
  BY <1>1, <1>2, <1>5
     DEF LoadFails, Return, Control, TypeOK, RunningIsCurrent,
         HalfBuiltNeverRuns, LoaderNotPreempted, SystemTaskLives, Building,
         tableVars, schedVars, cpuVars, windowVars
<1>6. CASE \E r \in {0, 3} : CreateFlat(r)
  <2>1. PICK r \in {0, 3}, i \in Slots :
          /\ current_process = 0 /\ pc = "loaded"
          /\ state[i] = "UNUSED"
          /\ ring' = [ring EXCEPT ![i] = r]
          /\ cr3' = [cr3 EXCEPT ![i] = 0]
          /\ entry_point' = [entry_point EXCEPT ![i] = code]
          /\ alloced_blocks' = [alloced_blocks EXCEPT ![i] = {}]
          /\ BuildProcess(i, IF r = 3 THEN 2 ELSE 1, {}, {code})
    BY <1>6, Zenon DEF CreateFlat, FirstUnused
  <2>2. i # 0
    BY <2>1, UnusedSlot
  <2>3. \A j \in Slots : state[j] # "CREATED"
    BY <2>1 DEF Control, HalfBuiltNeverRuns, Building
  <2>4. /\ ring' \in [Slots -> {0, 3}] /\ ring'[0] = 0
        /\ cr3' \in [Slots -> Blocks]
        /\ entry_point' \in [Slots -> Blocks]
        /\ alloced_blocks' \in [Slots -> SUBSET Blocks]
    BY <1>1, <1>2, <2>1, <2>2 DEF TypeOK, Control, SystemTaskLives
  <2>5. {code} \in SUBSET Blocks
    BY <1>1 DEF TypeOK
  <2> DEFINE need == IF r = 3 THEN 2 ELSE 1
  <2>6. need \in {1, 2} /\ BuildProcess(i, need, {}, {code})
    BY <2>1
  <2> HIDE DEF need
  <2> QED BY <2>1, <2>2, <2>3, <2>4, <2>5, <2>6, BuildControl
<1>7. CASE ReserveSlot
  <2>1. PICK i \in Slots : /\ state[i] = "UNUSED"
                           /\ state' = [state EXCEPT ![i] = "CREATED"]
                           /\ slot' = i
    BY <1>7 DEF ReserveSlot, FirstUnused
  <2>2. i # 0
    BY <2>1, UnusedSlot
  <2> QED
    BY <1>1, <1>2, <1>7, <2>1, <2>2
       DEF ReserveSlot, Control, TypeOK, RunningIsCurrent, HalfBuiltNeverRuns,
           LoaderNotPreempted, SystemTaskLives, Building, ProcessState,
           tableVars, cpuVars, heapVars, windowVars
<1>8. CASE CreateDirectory \/ MapPage
  <2>1. /\ TrackBlock /\ current_process = 0
        /\ pc \in {"reserved", "mapping"}
        /\ cr3' = [cr3 EXCEPT ![slot] = next_block] \/ cr3' = cr3
    BY <1>8 DEF CreateDirectory, MapPage
  <2>2. next_block \in Blocks /\ next_block' \in 1 .. HeapBlocks + 1
    BY <1>1, <2>1, ConstantsAssumption
       DEF TrackBlock, FreeBlocks, Bump, TypeOK, Blocks
  <2>3. /\ cr3' \in [Slots -> Blocks]
        /\ alloced_blocks' \in [Slots -> SUBSET Blocks]
    BY <1>1, <2>1, <2>2 DEF TrackBlock, TypeOK
  <2> QED
    BY <1>1, <2>1, <2>2, <2>3
       DEF TrackBlock, Control, TypeOK, RunningIsCurrent, HalfBuiltNeverRuns,
           LoaderNotPreempted, SystemTaskLives, Building, schedVars, cpuVars,
           windowVars
<1>9. CASE ElfRejected
  <2>1. slot # 0
    BY <1>1, <1>9
       DEF ElfRejected, Control, HalfBuiltNeverRuns, Building, SystemTaskLives,
           TypeOK
  <2> QED
    BY <1>1, <1>2, <1>9, <2>1
       DEF ElfRejected, Return, Control, TypeOK, RunningIsCurrent,
           HalfBuiltNeverRuns, LoaderNotPreempted, SystemTaskLives, Building,
           ProcessState, tableVars, cpuVars, windowVars
<1>10. CASE CreateElf
  <2>1. /\ current_process = 0 /\ pc = "mapping"
        /\ ring' = [ring EXCEPT ![slot] = 3]
        /\ cr3' = cr3
        /\ entry_point' = [entry_point EXCEPT ![slot] = 0]
        /\ alloced_blocks' =
              [alloced_blocks EXCEPT ![slot] =
                  IF FreeBlocks >= 2 THEN @ \cup {next_block + 1} ELSE @]
        /\ BuildProcess(slot, 2, {code}, {})
    BY <1>10 DEF CreateElf
  <2>2. /\ slot \in Slots /\ slot # 0
        /\ \A j \in Slots : state[j] = "CREATED" => j = slot
    BY <1>1, <1>2, <2>1
       DEF Control, HalfBuiltNeverRuns, Building, SystemTaskLives, TypeOK
  <2>3. FreeBlocks >= 2 => next_block + 1 \in Blocks
    BY <1>1, ConstantsAssumption DEF FreeBlocks, Blocks, TypeOK
  <2>4. /\ ring' \in [Slots -> {0, 3}] /\ ring'[0] = 0
        /\ cr3' \in [Slots -> Blocks]
        /\ entry_point' \in [Slots -> Blocks]
        /\ alloced_blocks' \in [Slots -> SUBSET Blocks]
    BY <1>1, <1>2, <2>1, <2>2, <2>3 DEF TypeOK, Control, SystemTaskLives
  <2>5. {code} \in SUBSET Blocks
    BY <1>1 DEF TypeOK
  <2> QED BY <2>1, <2>2, <2>4, <2>5, BuildControl
<1>11. CASE LinkWindow \/ FocusEnd \/ \E w \in Windows : FocusBegin(w)
  <2>1. /\ UNCHANGED <<tableVars, schedVars, cpuVars, heapVars, code, next_pid,
                       halted>>
        /\ current_process = 0 /\ pc \in {"idle", "link", "focus"}
        /\ pc' \in {"idle", "focus"} /\ slot' \in {0, slot}
        /\ unlisted' \in SUBSET Windows
        /\ \/ window_pid' = window_pid
           \/ \E w \in Windows : window_pid' = [window_pid EXCEPT ![w] = id[slot]]
    BY <1>1, <1>11 DEF LinkWindow, FocusBegin, FocusEnd, TypeOK, windowVars
  <2>2. window_pid' \in [Windows -> Nat]
    BY <1>1, <2>1 DEF TypeOK
  <2>3. TypeOK'
    BY <1>1, <1>2, <2>1, <2>2 DEF TypeOK, tableVars, schedVars, cpuVars, heapVars
  <2>4. HalfBuiltNeverRuns' /\ LoaderNotPreempted'
    BY <2>1
       DEF Control, HalfBuiltNeverRuns, LoaderNotPreempted, Building, schedVars
  <2>5. RunningIsCurrent' /\ SystemTaskLives'
    BY <2>1
       DEF Control, RunningIsCurrent, SystemTaskLives, schedVars, tableVars
  <2> QED BY <2>3, <2>4, <2>5 DEF Control
<1> QED
  BY <1>4, <1>5, <1>6, <1>7, <1>8, <1>9, <1>10, <1>11 DEF LoadStep

(* The steps of programs: they only touch the heap and what they own of it. *)
LEMMA ProgramControl ==
    ASSUME Control, ProgramStep
    PROVE  Control'
<1>1. TypeOK
  BY DEF Control
<1>2. /\ UNCHANGED <<id, ring, cr3, stack_mem, kernel_stack_top, user_stack_mem,
                     entry_point, schedVars, cpuVars, windowVars, loadVars,
                     next_pid, halted>>
      /\ next_block' \in 1 .. HeapBlocks + 1
      /\ alloced_blocks' \in [Slots -> SUBSET Blocks]
      /\ app_blocks' \in [Slots -> SUBSET Blocks]
      /\ freed' \in SUBSET Blocks
  <2>1. CASE \E n \in 1 .. HeapBlocks : UserMalloc(n)
    <3>1. PICK n \in 1 .. HeapBlocks : UserMalloc(n)
      BY <2>1
    <3>2. /\ next_block .. next_block + n - 1 \subseteq Blocks
          /\ next_block + n \in 1 .. HeapBlocks + 1
      BY <1>1, <3>1, ConstantsAssumption
         DEF UserMalloc, FreeBlocks, TypeOK, Blocks
    <3> QED BY <1>1, <3>1, <3>2 DEF UserMalloc, Bump, TypeOK
  <2>2. CASE FlatMalloc
    <3>1. next_block \in Blocks /\ next_block + 1 \in 1 .. HeapBlocks + 1
      BY <1>1, <2>2, ConstantsAssumption
         DEF FlatMalloc, FreeBlocks, TypeOK, Blocks
    <3> QED BY <1>1, <2>2, <3>1 DEF FlatMalloc, Bump, TypeOK
  <2>3. CASE FlatFree
    <3>1. current_process \in Slots /\ app_blocks[current_process] \subseteq Blocks
      BY <1>1 DEF TypeOK
    <3> QED BY <1>1, <2>3, <3>1 DEF FlatFree, TypeOK
  <2> QED BY <2>1, <2>2, <2>3 DEF ProgramStep
<1>3. TypeOK'
  BY <1>1, <1>2 DEF TypeOK, schedVars, cpuVars, windowVars, loadVars
<1>4. HalfBuiltNeverRuns' /\ LoaderNotPreempted'
  BY <1>2
     DEF Control, HalfBuiltNeverRuns, LoaderNotPreempted, Building, schedVars,
         loadVars
<1>5. RunningIsCurrent' /\ SystemTaskLives'
  BY <1>2 DEF Control, RunningIsCurrent, SystemTaskLives, schedVars
<1> QED BY <1>3, <1>4, <1>5 DEF Control

(* Control holds of the table process_init sets up. *)
LEMMA InitControl == Init => Control
<1> SUFFICES ASSUME Init PROVE Control
  OBVIOUS
<1> USE DEF Init
<1>1. 0 \in Slots /\ 0 \in Blocks
  BY ConstantsAssumption DEF Slots, Blocks
<1>2. TypeOK
  <2>1. /\ state \in [Slots -> ProcessState]
        /\ next_block \in 1 .. HeapBlocks + 1
        /\ alloced_blocks \in [Slots -> SUBSET Blocks]
        /\ app_blocks \in [Slots -> SUBSET Blocks]
        /\ window_pid \in [Windows -> Nat]
    BY ConstantsAssumption DEF ProcessState
  <2> QED BY <1>1, <2>1 DEF TypeOK
<1>3. RunningIsCurrent /\ SystemTaskLives
  BY <1>1 DEF RunningIsCurrent, SystemTaskLives
<1>4. HalfBuiltNeverRuns /\ LoaderNotPreempted
  BY DEF HalfBuiltNeverRuns, LoaderNotPreempted, Building
<1> QED BY <1>2, <1>3, <1>4 DEF Control

(* Every step keeps Control. *)
LEMMA NextControl == Control /\ [Next]_vars => Control'
<1> SUFFICES ASSUME Control, [Next]_vars PROVE Control'
  OBVIOUS
<1>1. CASE SwitchAction
  BY <1>1, SwitchActions, SwitchControl, SwitchTypes DEF Control
<1>2. CASE KernelPageFault
  BY <1>2
     DEF KernelPageFault, Control, TypeOK, RunningIsCurrent, HalfBuiltNeverRuns,
         LoaderNotPreempted, SystemTaskLives, Building, tableVars, schedVars,
         cpuVars, heapVars, windowVars, loadVars
<1>3. CASE LoadFile \/ LoadStep \/ \E w \in Windows : FocusBegin(w)
  BY <1>3, LoadControl
<1>5. CASE ProgramStep
  BY <1>5, ProgramControl
<1>4. CASE UNCHANGED vars
  BY <1>4
     DEF vars, Control, TypeOK, RunningIsCurrent, HalfBuiltNeverRuns,
         LoaderNotPreempted, SystemTaskLives, Building, tableVars, schedVars,
         cpuVars, heapVars, windowVars, loadVars
<1> QED BY <1>1, <1>2, <1>3, <1>4, <1>5 DEF Next, SwitchAction

(* Control is an invariant: in particular scheduler_switch always leaves one
   process RUNNING, never dispatches a slot that load_program is still
   building, and never takes the CPU from the system task inside it. *)
THEOREM ControlInvariant == Spec => []Control
<1>1. Init => Control
  BY InitControl
<1>2. Control /\ [Next]_vars => Control'
  BY NextControl
<1> QED BY <1>1, <1>2, PTL DEF Spec

(* Type correctness of the process table, the heap and the CPU context. *)
THEOREM TypeCorrect == Spec => []TypeOK
BY ControlInvariant, PTL DEF Control

-----------------------------------------------------------------------------
(* Context: the stacks. *)

StackIsTop == \A i \in Slots : Live(i) => stack_mem[i] = kernel_stack_top[i]

CpuOfCurrent ==
    /\ cpu_stack = kernel_stack_top[current_process]
    /\ tss_esp0 = kernel_stack_top[current_process]
    /\ cpu_cr3 = cr3[current_process]

Context == StackIsTop /\ CpuOfCurrent /\ SavedFrames

(* What a switch does to a slot it does not reap, and what it selects. *)
LEMMA SwitchSlots ==
    ASSUME Control, Switches
    PROVE  /\ \A i \in Slots \ Reapable :
                  /\ Live(i) <=> Live(i)'
                  /\ state'[i] \in {"READY", "SLEEPING"} /\ i # current_process
                        => state[i] \in {"READY", "SLEEPING"}
           /\ \A i \in Reapable : state'[i] = "UNUSED"
           /\ current_process' \notin Reapable
           /\ current_process' # current_process =>
                  state[current_process'] \in {"READY", "SLEEPING"}
<1>1. PICK left \in Leaves : /\ SwitchStep(left)
                             /\ current_process = 0 => left # "TERMINATED"
  BY Zenon DEF Switches
<1>2. TypeOK /\ RunningIsCurrent
  BY DEF Control
<1>3. PICK woken : /\ AfterTick(woken, left)
                   /\ current_process' \in Slots
                   /\ Selected(woken, current_process')
                   /\ state' = [woken EXCEPT ![current_process'] = "RUNNING"]
  BY <1>1, <1>2, SwitchEffect
<1>4. HalfBuiltNeverRuns'
  BY SwitchControl
<1>5. 0 \in Slots
  BY ConstantsAssumption DEF Slots
<1>6. /\ woken \in [Slots -> ProcessState]
      /\ woken[current_process] \in {"READY", "SLEEPING", "TERMINATED"}
      /\ \A i \in Slots \ {current_process} : state[i] # "RUNNING"
      /\ state[current_process] = "RUNNING"
  BY <1>2, <1>3 DEF AfterTick, TypeOK, RunningIsCurrent, Leaves
<1>7. woken[current_process'] \in {"READY", "CREATED", "RUNNING"}
        \/ current_process' = 0
  BY <1>3, <1>6, SelectedIsRunnable
<1>8. woken[current_process'] \in {"READY", "SLEEPING"}
  <2>1. woken[0] \in {"READY", "SLEEPING"}
    BY <1>1, <1>3, <1>5, <1>6 DEF AfterTick, Control, SystemTaskLives, Leaves
  <2>2. woken[current_process'] # "CREATED"
    <3> SUFFICES ASSUME woken[current_process'] = "CREATED" PROVE FALSE
      OBVIOUS
    <3>1. current_process' # current_process
      BY <1>6
    <3>2. state[current_process'] = "CREATED"
      BY <1>3, <3>1 DEF AfterTick
    <3>3. Building /\ UNCHANGED <<pc, slot>>
      BY <1>1, <1>3, <3>2
         DEF Control, HalfBuiltNeverRuns, SwitchStep, Switch, loadVars
    <3>4. current_process' = 0
      BY <3>3, SwitchControl DEF LoaderNotPreempted, Building
    <3> QED BY <3>2, <3>4 DEF Control, SystemTaskLives
  <2>3. woken[current_process'] # "RUNNING"
    BY <1>3, <1>6 DEF AfterTick
  <2> QED BY <1>7, <2>1, <2>2, <2>3
<1> QED
  BY <1>2, <1>3, <1>6, <1>8 DEF AfterTick, Live, Reapable, TypeOK

(* A switch keeps Context. *)
LEMMA SwitchContext ==
    ASSUME Control, Context, Switches
    PROVE  Context'
<1>1. PICK left \in Leaves : SwitchStep(left)
  BY Zenon DEF Switches
<1>2. /\ esp' = [esp EXCEPT ![current_process] = InterruptStack]
      /\ stack_mem' =
            [i \in Slots |-> IF i \in Reapable THEN 0 ELSE stack_mem[i]]
      /\ UNCHANGED <<cr3, kernel_stack_top>>
      /\ Resume(current_process')
      /\ current_process' \in Slots
  BY <1>1, SwitchEffect DEF Control, ReleaseDead
<1>3. TypeOK /\ RunningIsCurrent /\ current_process \in Slots
  BY DEF Control, TypeOK
<1>4. /\ Live(current_process) /\ current_process \notin Reapable
      /\ InterruptStack = stack_mem[current_process]
  BY <1>3
     DEF Live, Reapable, RunningIsCurrent, InterruptStack, Context, CpuOfCurrent,
         StackIsTop
<1>5. StackIsTop'
  <2> SUFFICES ASSUME NEW i \in Slots, Live(i)'
               PROVE  stack_mem'[i] = kernel_stack_top'[i]
    BY DEF StackIsTop
  <2>1. i \notin Reapable /\ Live(i)
    BY SwitchSlots DEF Live
  <2> QED BY <1>2, <2>1 DEF Context, StackIsTop
<1>6. \A i \in Slots \ Reapable :
          i = current_process \/ state[i] \in {"READY", "SLEEPING"}
              => esp'[i] = stack_mem'[i]
  BY <1>2, <1>3, <1>4 DEF Context, SavedFrames, TypeOK
<1>7. SavedFrames'
  <2> SUFFICES ASSUME NEW i \in Slots, state'[i] \in {"READY", "SLEEPING"}
               PROVE  esp'[i] = stack_mem'[i]
    BY DEF SavedFrames
  <2>1. i \notin Reapable
    BY SwitchSlots
  <2> QED BY <1>6, <2>1, SwitchSlots
<1>8. CpuOfCurrent'
  <2>1. /\ current_process' \in Slots \ Reapable
        /\ esp'[current_process'] = stack_mem'[current_process']
    BY <1>2, <1>6, SwitchSlots
  <2>2. stack_mem'[current_process'] = kernel_stack_top'[current_process']
    <3>1. state'[current_process'] = "RUNNING"
      BY <1>2, SwitchControl DEF RunningIsCurrent
    <3> QED BY <1>2, <1>5, <3>1 DEF StackIsTop, Live
  <2> QED BY <1>2, <2>1, <2>2 DEF CpuOfCurrent, Resume
<1> QED BY <1>5, <1>7, <1>8 DEF Context

(* The slot that CreateFlat or CreateElf builds, and what else they do. *)
BuildStep(i, need, extra, onFailure) ==
    /\ need \in {1, 2} /\ extra \in SUBSET {code} /\ onFailure \in SUBSET {code}
    /\ extra \cup onFailure = {code}
    /\ SystemAt("loaded") \/ SystemAt("mapping")
    /\ i # 0 /\ ~Live(i)
    /\ ring' \in [Slots -> {0, 3}]
    /\ \A j \in Slots \ {i} :
          /\ ring'[j] = ring[j] /\ cr3'[j] = cr3[j]
          /\ entry_point'[j] = entry_point[j]
          /\ alloced_blocks'[j] = alloced_blocks[j]
    /\ BuildProcess(i, need, extra, onFailure)

LEMMA BuildSteps ==
    ASSUME Control, (\E r \in {0, 3} : CreateFlat(r)) \/ CreateElf
    PROVE  \E i \in Slots, need \in {1, 2},
              extra \in SUBSET {code}, onFailure \in SUBSET {code} :
               /\ BuildStep(i, need, extra, onFailure)
               /\ \/ /\ alloced_blocks'[i] = {} /\ cr3'[i] = 0
                     /\ entry_point'[i] = code /\ extra = {}
                  \/ /\ alloced_blocks'[i] =
                           IF FreeBlocks >= need
                           THEN alloced_blocks[i] \cup {next_block + 1}
                           ELSE alloced_blocks[i]
                     /\ pc = "mapping" /\ i = slot
                     /\ cr3'[i] = cr3[i] /\ entry_point'[i] = 0
                     /\ need = 2 /\ extra = {code}
<1>1. TypeOK
  BY DEF Control
<1>2. CASE \E r \in {0, 3} : CreateFlat(r)
  <2>1. PICK r \in {0, 3}, i \in Slots :
          /\ SystemAt("loaded")
          /\ state[i] = "UNUSED"
          /\ ring' = [ring EXCEPT ![i] = r]
          /\ cr3' = [cr3 EXCEPT ![i] = 0]
          /\ entry_point' = [entry_point EXCEPT ![i] = code]
          /\ alloced_blocks' = [alloced_blocks EXCEPT ![i] = {}]
          /\ BuildProcess(i, IF r = 3 THEN 2 ELSE 1, {}, {code})
    BY <1>2, Zenon DEF CreateFlat, FirstUnused
  <2> DEFINE need == IF r = 3 THEN 2 ELSE 1
  <2>2. need \in {1, 2} /\ BuildProcess(i, need, {}, {code})
    BY <2>1
  <2> HIDE DEF need
  <2>3. i # 0 /\ ~Live(i)
    BY <2>1, UnusedSlot DEF Live
  <2>4. BuildStep(i, need, {}, {code})
    BY <1>1, <2>1, <2>2, <2>3 DEF BuildStep, TypeOK
  <2>5. alloced_blocks'[i] = {} /\ cr3'[i] = 0 /\ entry_point'[i] = code
    BY <1>1, <2>1 DEF TypeOK
  <2> QED BY <2>2, <2>4, <2>5
<1>3. CASE CreateElf
  <2>1. /\ SystemAt("mapping")
        /\ ring' = [ring EXCEPT ![slot] = 3]
        /\ cr3' = cr3
        /\ entry_point' = [entry_point EXCEPT ![slot] = 0]
        /\ alloced_blocks' =
              [alloced_blocks EXCEPT ![slot] =
                  IF FreeBlocks >= 2 THEN @ \cup {next_block + 1} ELSE @]
        /\ BuildProcess(slot, 2, {code}, {})
    BY <1>3 DEF CreateElf
  <2>2. slot \in Slots /\ slot # 0 /\ ~Live(slot)
    BY <1>1, <2>1
       DEF Control, HalfBuiltNeverRuns, Building, SystemTaskLives, TypeOK, Live,
           SystemAt
  <2>3. BuildStep(slot, 2, {code}, {})
    BY <1>1, <2>1, <2>2 DEF BuildStep, TypeOK
  <2>4. /\ alloced_blocks'[slot] = IF FreeBlocks >= 2
                                   THEN alloced_blocks[slot] \cup {next_block + 1}
                                   ELSE alloced_blocks[slot]
        /\ entry_point'[slot] = 0
    BY <1>1, <2>1, <2>2 DEF TypeOK
  <2> QED BY <2>1, <2>2, <2>3, <2>4 DEF SystemAt
<1> QED BY <1>2, <1>3

(* What BuildProcess leaves behind, in slot i and in the others. *)
LEMMA Built ==
    ASSUME Control, NEW i \in Slots, NEW need, NEW extra, NEW onFailure,
           BuildStep(i, need, extra, onFailure)
    PROVE  /\ \A j \in Slots \ {i} :
                 /\ state'[j] = state[j] /\ esp'[j] = esp[j] /\ id'[j] = id[j]
                 /\ stack_mem'[j] = stack_mem[j]
                 /\ kernel_stack_top'[j] = kernel_stack_top[j]
                 /\ user_stack_mem'[j] = user_stack_mem[j]
           /\ current_process = 0 /\ ~Building'/\ ~HasCode'
           /\ UNCHANGED <<app_blocks, current_process, cpuVars, windowVars, halted>>
           /\ id'[i] = next_pid /\ next_pid' = next_pid + 1
           /\ \/ /\ FreeBlocks >= need
                 /\ state'[i] = "READY" /\ pc' = "link" /\ slot' = i
                 /\ esp'[i] = next_block /\ stack_mem'[i] = next_block
                 /\ kernel_stack_top'[i] = next_block
                 /\ user_stack_mem'[i] = IF need = 2 THEN next_block + 1 ELSE 0
                 /\ next_block' = next_block + need
                 /\ freed' = freed \cup extra
              \/ /\ ~(FreeBlocks >= need)
                 /\ state'[i] = "UNUSED" /\ pc' = "idle"
                 /\ next_block' = next_block + FreeBlocks
                 /\ freed' = freed \cup {code}
                                   \cup (next_block .. next_block' - 1)
<1>1. TypeOK
  BY DEF Control
<1>2. BuildProcess(i, need, extra, onFailure) /\ need \in {1, 2}
      /\ current_process = 0 /\ extra \cup onFailure = {code}
  BY DEF BuildStep, SystemAt
<1>3. FreeBlocks \in Nat /\ next_block \in Nat
  BY <1>1, ConstantsAssumption DEF TypeOK, FreeBlocks
<1>4. /\ UNCHANGED <<app_blocks, current_process, cpuVars, windowVars, halted>>
      /\ next_pid' = next_pid + 1 /\ id' = [id EXCEPT ![i] = next_pid]
  BY <1>2 DEF BuildProcess
<1>5. CASE FreeBlocks >= need
  BY <1>1, <1>2, <1>3, <1>4, <1>5
     DEF BuildProcess, Bump, TypeOK, Building, HasCode
<1>6. CASE ~(FreeBlocks >= need)
  BY <1>1, <1>2, <1>3, <1>4, <1>6
     DEF BuildProcess, Return, Bump, TypeOK, Building, HasCode
<1> QED BY <1>5, <1>6

(* The steps of the system task keep Context: the slot they touch is not in
   use, or becomes READY with its frame on its own new stack. *)
LEMMA LoadContext ==
    ASSUME Control, Context, LoadFile \/ LoadStep \/ \E w \in Windows : FocusBegin(w)
    PROVE  Context'
<1>1. TypeOK /\ RunningIsCurrent
  BY DEF Control
<1>2. CASE (\E r \in {0, 3} : CreateFlat(r)) \/ CreateElf
  <2>1. PICK i \in Slots, need \in {1, 2},
             extra \in SUBSET {code}, onFailure \in SUBSET {code} :
               BuildStep(i, need, extra, onFailure)
    BY <1>2, BuildSteps
  <2>2. i # current_process /\ cr3'[current_process] = cr3[current_process]
    BY <1>1, <2>1, Built DEF BuildStep, TypeOK
  <2>3. CpuOfCurrent'
    BY <1>1, <2>1, <2>2, Built DEF Context, CpuOfCurrent, cpuVars, TypeOK
  <2>4. StackIsTop'
    <3> SUFFICES ASSUME NEW j \in Slots, Live(j)'
                 PROVE  stack_mem'[j] = kernel_stack_top'[j]
      BY DEF StackIsTop
    <3>1. CASE j = i
      BY <2>1, <3>1, Built DEF Live
    <3>2. CASE j # i
      BY <2>1, <3>2, Built DEF Live, Context, StackIsTop
    <3> QED BY <3>1, <3>2
  <2>5. SavedFrames'
    <3> SUFFICES ASSUME NEW j \in Slots, state'[j] \in {"READY", "SLEEPING"}
                 PROVE  esp'[j] = stack_mem'[j]
      BY DEF SavedFrames
    <3>1. CASE j = i
      BY <2>1, <3>1, Built
    <3>2. CASE j # i
      BY <2>1, <3>2, Built DEF Context, SavedFrames
    <3> QED BY <3>1, <3>2
  <2> QED BY <2>3, <2>4, <2>5 DEF Context
<1>3. CASE ReserveSlot \/ ElfRejected
  <2>1. /\ UNCHANGED <<tableVars, esp, current_process, cpuVars>>
        /\ \E i \in Slots : state' = [state EXCEPT ![i] = "CREATED"]
                         \/ state' = [state EXCEPT ![i] = "UNUSED"]
    BY <1>1, <1>3 DEF ReserveSlot, ElfRejected, TypeOK
  <2> QED
    BY <1>1, <2>1
       DEF Context, StackIsTop, CpuOfCurrent, SavedFrames, Live, tableVars,
           cpuVars, TypeOK
<1>4. CASE CreateDirectory \/ MapPage
  <2>1. /\ UNCHANGED <<stack_mem, kernel_stack_top, schedVars, cpuVars>>
        /\ \A j \in Slots \ {slot} : cr3'[j] = cr3[j]
        /\ Building /\ current_process = 0
    BY <1>1, <1>4
       DEF CreateDirectory, MapPage, TrackBlock, Building, SystemAt, TypeOK
  <2>2. current_process # slot
    BY <1>1, <2>1
       DEF Control, HalfBuiltNeverRuns, SystemTaskLives, TypeOK
  <2> QED
    BY <1>1, <2>1, <2>2
       DEF Context, StackIsTop, CpuOfCurrent, SavedFrames, Live, schedVars,
           cpuVars, TypeOK
<1>5. CASE \/ LoadFile \/ LoadFails \/ LinkWindow \/ FocusEnd
           \/ \E w \in Windows : FocusBegin(w)
  <2>1. UNCHANGED <<tableVars, schedVars, cpuVars>>
    BY <1>5 DEF LoadFile, LoadFails, LinkWindow, FocusBegin, FocusEnd
  <2> QED
    BY <2>1
       DEF Context, StackIsTop, CpuOfCurrent, SavedFrames, Live, tableVars,
           schedVars, cpuVars
<1> QED BY <1>2, <1>3, <1>4, <1>5 DEF LoadStep

(* Context holds at boot and is kept by every step. *)
LEMMA InitContext == Init => Context
BY ConstantsAssumption
   DEF Init, Context, StackIsTop, CpuOfCurrent, SavedFrames, Slots

LEMMA NextContext == Control /\ Context /\ [Next]_vars => Context'
<1> SUFFICES ASSUME Control, Context, [Next]_vars PROVE Context'
  OBVIOUS
<1>1. CASE SwitchAction
  BY <1>1, SwitchActions, SwitchContext
<1>2. CASE LoadFile \/ LoadStep \/ \E w \in Windows : FocusBegin(w)
  BY <1>2, LoadContext
<1>3. CASE ProgramStep \/ KernelPageFault \/ UNCHANGED vars
  <2>1. UNCHANGED <<cr3, stack_mem, kernel_stack_top, schedVars, cpuVars>>
    BY <1>3
       DEF ProgramStep, UserMalloc, FlatMalloc, FlatFree, KernelPageFault, vars,
           tableVars
  <2> QED
    BY <2>1
       DEF Context, StackIsTop, CpuOfCurrent, SavedFrames, Live, schedVars,
           cpuVars
<1> QED BY <1>1, <1>2, <1>3 DEF Next, SwitchAction

-----------------------------------------------------------------------------
(* Memory: who answers for which block. *)

BlocksHandedOut ==
    /\ freed \subseteq 1 .. next_block - 1
    /\ \A i \in Slots : Holds(i) \subseteq 1 .. next_block - 1
    /\ HasCode => code \in 1 .. next_block - 1

DirectoryTracked ==
    \A i \in Slots :
        Live(i) \/ (pc = "mapping" /\ i = slot)
            => cr3[i] \in alloced_blocks[i] \cup {0}

OnlyLiveAllocate == \A i \in Slots : ~Live(i) => app_blocks[i] = {}

AppBlocksApart == \A i \in Slots : app_blocks[i] \cap Owned(i) = {}

Memory ==
    /\ OnlyLiveAllocate
    /\ AppBlocksApart
    /\ BlocksHandedOut
    /\ NoUseAfterFree
    /\ SingleOwner
    /\ DirectoryTracked

(* Reaping frees what the dead slots hold, and nothing else. *)
LEMMA SwitchMemory ==
    ASSUME Control, Memory, Switches
    PROVE  Memory'
<1>1. PICK left \in Leaves : SwitchStep(left)
  BY Zenon DEF Switches
<1>2. TypeOK
  BY DEF Control
<1>3. /\ ReleaseDead(Reapable)
      /\ UNCHANGED <<cr3, next_block, pc, slot, code>>
  BY <1>1, <1>2, SwitchEffect DEF loadVars
<1>4. Reapable \subseteq Slots /\ \A i \in Reapable : Live(i)
  BY DEF Reapable, Live
<1>5. \A i \in Slots \ Reapable : Holds(i)' = Holds(i)
  <2> SUFFICES ASSUME NEW i \in Slots \ Reapable PROVE Holds(i)' = Holds(i)
    OBVIOUS
  <2>1. Live(i)' <=> Live(i)
    BY SwitchSlots
  <2>2. /\ stack_mem'[i] = stack_mem[i]
        /\ user_stack_mem'[i] = user_stack_mem[i]
        /\ entry_point'[i] = entry_point[i]
        /\ alloced_blocks'[i] = alloced_blocks[i]
        /\ app_blocks'[i] = app_blocks[i]
    BY <1>3 DEF ReleaseDead
  <2> QED BY <2>1, <2>2 DEF Holds, Owned
<1>6. \A i \in Reapable : Holds(i)' = {}
  <2> SUFFICES ASSUME NEW i \in Reapable PROVE Holds(i)' = {}
    OBVIOUS
  <2>1. ~Live(i)'
    BY SwitchSlots DEF Live
  <2>2. alloced_blocks'[i] = {}
    BY <1>3, <1>4 DEF ReleaseDead
  <2> QED BY <2>1, <2>2 DEF Holds
<1>7. freed' \subseteq freed \cup UNION {Holds(i) : i \in Reapable}
  <2>1. ReleasedBlocks(Reapable) = UNION {Owned(i) : i \in Reapable}
    BY DEF ReleasedBlocks, Owned
  <2>2. \A i \in Reapable : Owned(i) \subseteq Holds(i)
    BY <1>4 DEF Holds
  <2> QED BY <1>3, <2>1, <2>2 DEF ReleaseDead
<1>8. HasCode' = HasCode /\ code' = code
  BY <1>3 DEF HasCode
<1>9. BlocksHandedOut'
  BY <1>3, <1>4, <1>5, <1>6, <1>7, <1>8 DEF Memory, BlocksHandedOut
<1>10. NoUseAfterFree'
  <2>1. \A i \in Slots : Holds(i)' \cap freed' = {}
    BY <1>4, <1>5, <1>6, <1>7 DEF Memory, NoUseAfterFree, SingleOwner
  <2>2. HasCode' => code' \notin freed'
    BY <1>4, <1>7, <1>8 DEF Memory, NoUseAfterFree, SingleOwner
  <2> QED BY <2>1, <2>2 DEF NoUseAfterFree
<1>11. SingleOwner'
  BY <1>5, <1>6, <1>8 DEF Memory, SingleOwner
<1>12. DirectoryTracked'
  <2> SUFFICES ASSUME NEW i \in Slots,
                      Live(i)' \/ (pc' = "mapping" /\ i = slot')
               PROVE  cr3'[i] \in alloced_blocks'[i] \cup {0}
    BY DEF DirectoryTracked
  <2>1. i \notin Reapable
    BY <1>3, SwitchSlots
       DEF Live, Reapable, Control, HalfBuiltNeverRuns, Building
  <2>2. Live(i) \/ (pc = "mapping" /\ i = slot)
    BY <1>3, <2>1, SwitchSlots
  <2>3. alloced_blocks'[i] = alloced_blocks[i]
    BY <1>3, <2>1 DEF ReleaseDead
  <2> QED BY <1>3, <2>2, <2>3 DEF Memory, DirectoryTracked
<1>13. OnlyLiveAllocate'
  <2> SUFFICES ASSUME NEW i \in Slots, ~Live(i)' PROVE app_blocks'[i] = {}
    BY DEF OnlyLiveAllocate
  <2>1. CASE i \in Reapable
    BY <1>3, <2>1 DEF ReleaseDead
  <2>2. CASE i \notin Reapable
    BY <1>3, <2>2, SwitchSlots DEF ReleaseDead, Memory, OnlyLiveAllocate
  <2> QED BY <2>1, <2>2
<1>14. AppBlocksApart'
  <2> SUFFICES ASSUME NEW i \in Slots PROVE app_blocks'[i] \cap Owned(i)' = {}
    BY DEF AppBlocksApart
  <2>1. CASE i \in Reapable
    BY <1>3, <2>1 DEF ReleaseDead
  <2>2. CASE i \notin Reapable
    <3>1. app_blocks'[i] = app_blocks[i] /\ Owned(i)' = Owned(i)
      BY <1>3, <2>2 DEF ReleaseDead, Owned
    <3> QED BY <3>1 DEF Memory, AppBlocksApart
  <2> QED BY <2>1, <2>2
<1> QED BY <1>9, <1>10, <1>11, <1>12, <1>13, <1>14 DEF Memory

(* What a slot that is built holds afterwards: what it held before, the blocks
   just taken and, for a flat binary, the file; nothing of it is freed. *)
LEMMA BuiltHolds ==
    ASSUME Control, Memory, (\E r \in {0, 3} : CreateFlat(r)) \/ CreateElf
    PROVE  /\ ~HasCode' /\ pc' # "mapping" /\ HasCode
           /\ next_block' \in Nat /\ next_block <= next_block'
           /\ freed' \subseteq freed \cup {code} \cup (next_block .. next_block' - 1)
           /\ \E i \in Slots :
                 /\ \A j \in Slots \ {i} :
                       /\ Holds(j)' = Holds(j) /\ Live(j)' = Live(j)
                       /\ Owned(j)' = Owned(j)
                       /\ cr3'[j] = cr3[j] /\ alloced_blocks'[j] = alloced_blocks[j]
                 /\ Holds(i)' \subseteq Holds(i) \cup {code}
                                   \cup (next_block .. next_block' - 1)
                 /\ Holds(i)' \cap freed' = {}
                 /\ Live(i)' => cr3'[i] \in alloced_blocks'[i] \cup {0}
                 /\ ~Live(i)
           /\ app_blocks' = app_blocks
<1>1. TypeOK /\ FreeBlocks \in Nat /\ next_block \in Nat
  BY ConstantsAssumption DEF Control, TypeOK, FreeBlocks
<1>2. PICK i \in Slots, need \in {1, 2},
           extra \in SUBSET {code}, onFailure \in SUBSET {code} :
             /\ BuildStep(i, need, extra, onFailure)
             /\ \/ /\ alloced_blocks'[i] = {} /\ cr3'[i] = 0
                   /\ entry_point'[i] = code /\ extra = {}
                \/ /\ alloced_blocks'[i] =
                         IF FreeBlocks >= need
                         THEN alloced_blocks[i] \cup {next_block + 1}
                         ELSE alloced_blocks[i]
                   /\ pc = "mapping" /\ i = slot
                   /\ cr3'[i] = cr3[i] /\ entry_point'[i] = 0
                   /\ need = 2 /\ extra = {code}
  BY BuildSteps
<1>3. /\ Holds(i) = alloced_blocks[i] /\ HasCode
      /\ app_blocks' = app_blocks /\ app_blocks[i] = {} /\ ~Live(i)
  BY <1>2, Built
     DEF BuildStep, Holds, HasCode, SystemAt, Memory, OnlyLiveAllocate
<1>4. /\ Holds(i) \subseteq 1 .. next_block - 1 /\ code \in 1 .. next_block - 1
      /\ freed \subseteq 1 .. next_block - 1
      /\ code \notin Holds(i) /\ code \notin freed /\ Holds(i) \cap freed = {}
  BY <1>3 DEF Memory, BlocksHandedOut, SingleOwner, NoUseAfterFree
<1>5. \A j \in Slots \ {i} :
         /\ Holds(j)' = Holds(j) /\ Live(j)' = Live(j)
         /\ Owned(j)' = Owned(j)
         /\ cr3'[j] = cr3[j] /\ alloced_blocks'[j] = alloced_blocks[j]
  <2> SUFFICES ASSUME NEW j \in Slots \ {i}
               PROVE  /\ Holds(j)' = Holds(j) /\ Live(j)' = Live(j)
                      /\ Owned(j)' = Owned(j)
                      /\ cr3'[j] = cr3[j] /\ alloced_blocks'[j] = alloced_blocks[j]
    OBVIOUS
  <2>1. /\ state'[j] = state[j] /\ stack_mem'[j] = stack_mem[j]
        /\ user_stack_mem'[j] = user_stack_mem[j]
        /\ app_blocks'[j] = app_blocks[j]
    BY <1>2, Built
  <2>2. /\ cr3'[j] = cr3[j] /\ entry_point'[j] = entry_point[j]
        /\ alloced_blocks'[j] = alloced_blocks[j]
    BY <1>2 DEF BuildStep
  <2> QED BY <2>1, <2>2 DEF Holds, Owned, Live
<1>6. ~HasCode' /\ pc' # "mapping"
  BY <1>2, Built DEF Building
<1>7. CASE FreeBlocks >= need
  <2>1. /\ state'[i] = "READY" /\ stack_mem'[i] = next_block
        /\ user_stack_mem'[i] = IF need = 2 THEN next_block + 1 ELSE 0
        /\ next_block' = next_block + need
        /\ freed' = freed \cup extra
    BY <1>2, <1>7, Built
  <2>2. Holds(i)' = ({next_block, user_stack_mem'[i], entry_point'[i]}
                        \cup alloced_blocks'[i]) \ {0}
    BY <1>3, <2>1 DEF Holds, Owned, Live
  <2>3. next_block .. next_block' - 1 =
            IF need = 2 THEN {next_block, next_block + 1} ELSE {next_block}
    <3>1. CASE need = 1
      BY <1>1, <2>1, <3>1
    <3>2. CASE need = 2
      BY <1>1, <2>1, <3>2
    <3> QED BY <3>1, <3>2
  <2>4. next_block' \in Nat /\ next_block <= next_block'
    BY <1>1, <2>1
  <2>5. CASE alloced_blocks'[i] = {} /\ cr3'[i] = 0 /\ entry_point'[i] = code
                /\ extra = {}
    <3>1. Holds(i)' \subseteq {code} \cup (next_block .. next_block' - 1)
      BY <2>1, <2>2, <2>3, <2>5
    <3>2. Holds(i)' \cap freed' = {}
      BY <1>1, <1>4, <2>1, <2>5, <3>1
    <3> QED BY <1>3, <1>5, <1>6, <2>1, <2>4, <2>5, <3>1, <3>2
  <2>6. CASE /\ alloced_blocks'[i] = alloced_blocks[i] \cup {next_block + 1}
             /\ pc = "mapping" /\ i = slot
             /\ cr3'[i] = cr3[i] /\ entry_point'[i] = 0
             /\ need = 2 /\ extra = {code}
    <3>1. Holds(i)' \subseteq Holds(i) \cup (next_block .. next_block' - 1)
      BY <1>3, <2>1, <2>2, <2>3, <2>6
    <3>2. Holds(i)' \cap freed' = {}
      BY <1>1, <1>4, <2>1, <2>6, <3>1
    <3>3. cr3'[i] \in alloced_blocks'[i] \cup {0}
      BY <2>6 DEF Memory, DirectoryTracked
    <3> QED BY <1>3, <1>5, <1>6, <2>1, <2>4, <2>6, <3>1, <3>2, <3>3
  <2> QED BY <1>2, <1>7, <2>5, <2>6
<1>8. CASE ~(FreeBlocks >= need)
  <2>1. /\ state'[i] = "UNUSED"
        /\ next_block' = next_block + FreeBlocks
        /\ freed' = freed \cup {code} \cup (next_block .. next_block' - 1)
    BY <1>2, <1>8, Built
  <2>2. ~Live(i)' /\ Holds(i)' \subseteq Holds(i)
    BY <1>2, <1>3, <1>8, <2>1 DEF Holds, Live
  <2>3. next_block' \in Nat /\ next_block <= next_block'
    BY <1>1, <2>1
  <2>4. Holds(i)' \cap freed' = {}
    BY <1>1, <1>4, <2>1, <2>2
  <2> QED BY <1>3, <1>5, <1>6, <2>1, <2>2, <2>3, <2>4
<1> QED BY <1>7, <1>8

(* The blocks handed out between two positions of the bump pointer. *)
LEMMA NewBlocks ==
    ASSUME NEW a \in Nat, NEW b \in Nat, a >= 1, a <= b
    PROVE  /\ 1 .. a - 1 \subseteq 1 .. b - 1
           /\ a .. b - 1 \subseteq 1 .. b - 1
           /\ (a .. b - 1) \cap (1 .. a - 1) = {}
OBVIOUS

(* The steps of the system task keep Memory. *)
LEMMA LoadMemory ==
    ASSUME Control, Memory, LoadFile \/ LoadStep \/ \E w \in Windows : FocusBegin(w)
    PROVE  Memory'
<1> USE DEF SystemAt
<1>1. TypeOK /\ next_block \in Nat \ {0}
  BY DEF Control, TypeOK
<1>2. CASE (\E r \in {0, 3} : CreateFlat(r)) \/ CreateElf
  <2>1. /\ ~HasCode' /\ pc' # "mapping" /\ HasCode
        /\ next_block' \in Nat /\ next_block <= next_block'
        /\ freed' \subseteq freed \cup {code} \cup (next_block .. next_block' - 1)
    BY <1>2, BuiltHolds
  <2>2. PICK i \in Slots :
           /\ \A j \in Slots \ {i} :
                 /\ Holds(j)' = Holds(j) /\ Live(j)' = Live(j)
                 /\ Owned(j)' = Owned(j)
                 /\ cr3'[j] = cr3[j] /\ alloced_blocks'[j] = alloced_blocks[j]
           /\ Holds(i)' \subseteq Holds(i) \cup {code}
                             \cup (next_block .. next_block' - 1)
           /\ Holds(i)' \cap freed' = {}
           /\ Live(i)' => cr3'[i] \in alloced_blocks'[i] \cup {0}
           /\ ~Live(i)
    BY <1>2, BuiltHolds
  <2>3. /\ code \in 1 .. next_block - 1 /\ freed \subseteq 1 .. next_block - 1
        /\ \A j \in Slots : /\ Holds(j) \subseteq 1 .. next_block - 1
                            /\ code \notin Holds(j)
                            /\ Holds(j) \cap freed = {}
    BY <2>1 DEF Memory, BlocksHandedOut, SingleOwner, NoUseAfterFree
  <2> DEFINE new == next_block .. next_block' - 1
  <2>8. /\ 1 .. next_block - 1 \subseteq 1 .. next_block' - 1
        /\ new \subseteq 1 .. next_block' - 1
        /\ new \cap (1 .. next_block - 1) = {}
    <3>1. /\ next_block \in Nat /\ next_block >= 1
          /\ next_block' \in Nat /\ next_block <= next_block'
      BY <1>1, <2>1
    <3> QED BY <3>1, NewBlocks
  <2> HIDE DEF new
  <2>9. /\ freed' \subseteq freed \cup {code} \cup new
        /\ Holds(i)' \subseteq Holds(i) \cup {code} \cup new
    BY <2>1, <2>2 DEF new
  <2>4. BlocksHandedOut'
    BY <2>1, <2>2, <2>3, <2>8, <2>9 DEF BlocksHandedOut
  <2>5. NoUseAfterFree'
    BY <2>1, <2>2, <2>3, <2>8, <2>9 DEF NoUseAfterFree
  <2>6. SingleOwner'
    <3>1. \A j \in Slots \ {i} : Holds(i)' \cap Holds(j)' = {}
      BY <2>2, <2>3, <2>8, <2>9 DEF Memory, SingleOwner
    <3>2. \A j, k \in Slots \ {i} : j # k => Holds(j)' \cap Holds(k)' = {}
      BY <2>2 DEF Memory, SingleOwner
    <3> QED BY <2>1, <3>1, <3>2 DEF SingleOwner
  <2>7. DirectoryTracked'
    BY <2>1, <2>2 DEF Memory, DirectoryTracked
  <2>10. OnlyLiveAllocate'
    BY <1>2, <2>2, BuiltHolds DEF Memory, OnlyLiveAllocate
  <2>11. AppBlocksApart'
    <3>1. app_blocks' = app_blocks /\ app_blocks[i] = {}
      BY <1>2, <2>2, BuiltHolds DEF Memory, OnlyLiveAllocate
    <3> QED BY <2>2, <3>1 DEF Memory, AppBlocksApart
  <2> QED BY <2>4, <2>5, <2>6, <2>7, <2>10, <2>11 DEF Memory
<1>3. CASE LoadFile
  <2>1. /\ code' = next_block /\ next_block' = next_block + 1
        /\ UNCHANGED <<tableVars, schedVars, freed, slot>>
        /\ pc' = "loaded" /\ ~HasCode
    BY <1>3 DEF LoadFile, Bump, HasCode
  <2>2. \A i \in Slots : Holds(i)' = Holds(i) /\ Live(i)' = Live(i)
    BY <2>1 DEF Holds, Owned, Live, tableVars, schedVars
  <2>3. DirectoryTracked'
    BY <2>1, <2>2 DEF Memory, DirectoryTracked, tableVars
  <2>4. BlocksHandedOut'
    <3>1. /\ code' \in 1 .. next_block' - 1
          /\ 1 .. next_block - 1 \subseteq 1 .. next_block' - 1
      BY <1>1, <2>1
    <3> QED BY <2>1, <2>2, <3>1 DEF Memory, BlocksHandedOut
  <2>5. NoUseAfterFree' /\ SingleOwner'
    BY <1>1, <2>1, <2>2
       DEF Memory, BlocksHandedOut, NoUseAfterFree, SingleOwner
  <2>6. OnlyLiveAllocate' /\ AppBlocksApart'
    BY <2>1, <2>2 DEF Memory, OnlyLiveAllocate, AppBlocksApart, Owned, tableVars
  <2> QED BY <2>3, <2>4, <2>5, <2>6 DEF Memory
<1>4. CASE LoadFails \/ ElfRejected
  <2>1. /\ freed' = freed \cup {code} /\ pc' = "idle"
        /\ UNCHANGED <<tableVars, next_block>> /\ HasCode
        /\ \A i \in Slots : Live(i)' = Live(i)
    BY <1>1, <1>4
       DEF LoadFails, ElfRejected, Return, HasCode, schedVars, Live, TypeOK,
           Control, HalfBuiltNeverRuns, Building
  <2>2. \A i \in Slots : Holds(i)' = Holds(i)
    BY <2>1 DEF Holds, Owned, tableVars
  <2>3. ~HasCode'
    BY <2>1 DEF HasCode
  <2>4. DirectoryTracked'
    BY <2>1 DEF Memory, DirectoryTracked, tableVars
  <2>5. BlocksHandedOut' /\ NoUseAfterFree' /\ SingleOwner'
    BY <2>1, <2>2, <2>3
       DEF Memory, BlocksHandedOut, NoUseAfterFree, SingleOwner
  <2>6. OnlyLiveAllocate' /\ AppBlocksApart'
    BY <2>1 DEF Memory, OnlyLiveAllocate, AppBlocksApart, Owned, tableVars
  <2> QED BY <2>4, <2>5, <2>6 DEF Memory
<1>5. CASE ReserveSlot
  <2>1. PICK i \in Slots :
          /\ state[i] = "UNUSED" /\ state' = [state EXCEPT ![i] = "CREATED"]
    BY <1>5 DEF ReserveSlot, FirstUnused
  <2>2. /\ UNCHANGED <<tableVars, heapVars, code>>
        /\ pc = "loaded" /\ pc' = "reserved"
    BY <1>5 DEF ReserveSlot
  <2>3. \A j \in Slots : Live(j)' = Live(j)
    BY <1>1, <2>1 DEF Live, TypeOK
  <2>4. \A j \in Slots : Holds(j)' = Holds(j)
    BY <2>2, <2>3 DEF Holds, Owned, tableVars
  <2>5. DirectoryTracked'
    BY <2>2, <2>3 DEF Memory, DirectoryTracked, tableVars
  <2>6. BlocksHandedOut' /\ NoUseAfterFree' /\ SingleOwner'
    BY <2>2, <2>4
       DEF Memory, BlocksHandedOut, NoUseAfterFree, SingleOwner, HasCode, heapVars
  <2>7. OnlyLiveAllocate' /\ AppBlocksApart'
    BY <2>2, <2>3 DEF Memory, OnlyLiveAllocate, AppBlocksApart, Owned, tableVars
  <2> QED BY <2>5, <2>6, <2>7 DEF Memory
<1>6. CASE CreateDirectory \/ MapPage
  <2> PICK s \in Slots : s = slot
    BY <1>1 DEF TypeOK
  <2>1. /\ TrackBlock /\ pc \in {"reserved", "mapping"}
        /\ \/ pc = "reserved" /\ cr3' = [cr3 EXCEPT ![s] = next_block]
           \/ pc = "mapping" /\ cr3' = cr3
    BY <1>6 DEF CreateDirectory, MapPage
  <2>2. /\ alloced_blocks' = [alloced_blocks EXCEPT ![s] = @ \cup {next_block}]
        /\ next_block' = next_block + 1 /\ pc' = "mapping" /\ slot' = s
        /\ UNCHANGED <<stack_mem, user_stack_mem, entry_point, app_blocks, state,
                       freed, code>>
    BY <2>1 DEF TrackBlock, Bump, schedVars
  <2>3. ~Live(s) /\ HasCode
    BY <2>1 DEF Control, HalfBuiltNeverRuns, Building, Live, HasCode
  <2>4. /\ \A j \in Slots : Live(j)' = Live(j)
        /\ \A j \in Slots \ {s} : Holds(j)' = Holds(j)
        /\ Holds(s)' = Holds(s) \cup {next_block}
    BY <1>1, <2>2, <2>3 DEF Holds, Owned, Live, TypeOK
  <2>5. DirectoryTracked'
    <3>1. cr3'[s] \in alloced_blocks'[s] \cup {0}
      BY <1>1, <2>1, <2>2, <2>3 DEF Memory, DirectoryTracked, TypeOK
    <3>2. \A j \in Slots \ {s} : /\ cr3'[j] = cr3[j]
                                 /\ alloced_blocks'[j] = alloced_blocks[j]
      BY <1>1, <2>1, <2>2 DEF TypeOK
    <3> QED BY <2>2, <2>4, <3>1, <3>2 DEF Memory, DirectoryTracked
  <2>6. /\ freed \subseteq 1 .. next_block - 1 /\ code \in 1 .. next_block - 1
        /\ \A j \in Slots : /\ Holds(j) \subseteq 1 .. next_block - 1
                            /\ code \notin Holds(j)
                            /\ Holds(j) \cap freed = {}
        /\ code \notin freed
    BY <2>3 DEF Memory, BlocksHandedOut, SingleOwner, NoUseAfterFree
  <2>7. /\ next_block \in 1 .. next_block' - 1
        /\ next_block \notin 1 .. next_block - 1
        /\ 1 .. next_block - 1 \subseteq 1 .. next_block' - 1
    BY <1>1, <2>2
  <2>8. BlocksHandedOut' /\ NoUseAfterFree'
    BY <2>2, <2>4, <2>6, <2>7 DEF BlocksHandedOut, NoUseAfterFree
  <2>9. SingleOwner'
    <3>1. \A j \in Slots \ {s} : Holds(s)' \cap Holds(j)' = {}
      BY <2>4, <2>6, <2>7 DEF Memory, SingleOwner
    <3>2. \A j, k \in Slots \ {s} : j # k => Holds(j)' \cap Holds(k)' = {}
      BY <2>4 DEF Memory, SingleOwner
    <3>3. \A j, k \in Slots : j # k => Holds(j)' \cap Holds(k)' = {}
      BY <3>1, <3>2
    <3>4. \A j \in Slots : code' \notin Holds(j)'
      BY <2>2, <2>4, <2>6, <2>7
    <3> QED BY <3>3, <3>4 DEF SingleOwner
  <2>10. OnlyLiveAllocate'
    BY <2>2, <2>4 DEF Memory, OnlyLiveAllocate
  <2>11. AppBlocksApart'
    <3>1. app_blocks' = app_blocks /\ app_blocks[s] = {}
      BY <2>2, <2>3 DEF Memory, OnlyLiveAllocate
    <3>2. \A j \in Slots \ {s} : Owned(j)' = Owned(j)
      BY <1>1, <2>2 DEF Owned, TypeOK
    <3> QED BY <3>1, <3>2 DEF Memory, AppBlocksApart
  <2> QED BY <2>5, <2>8, <2>9, <2>10, <2>11 DEF Memory
<1>7. CASE LinkWindow \/ FocusEnd \/ \E w \in Windows : FocusBegin(w)
  <2>1. /\ UNCHANGED <<tableVars, schedVars, heapVars, code>>
        /\ ~HasCode' /\ pc' # "mapping"
    BY <1>7 DEF LinkWindow, FocusBegin, FocusEnd, HasCode
  <2>2. \A i \in Slots : Holds(i)' = Holds(i) /\ Live(i)' = Live(i)
    BY <2>1 DEF Holds, Owned, Live, tableVars, schedVars
  <2> QED
    BY <2>1, <2>2
       DEF Memory, OnlyLiveAllocate, AppBlocksApart, Owned, BlocksHandedOut,
           NoUseAfterFree, SingleOwner, DirectoryTracked, tableVars, heapVars
<1> QED BY <1>2, <1>3, <1>4, <1>5, <1>6, <1>7 DEF LoadStep

(* A program takes new blocks, or gives back one of its own. *)
LEMMA ProgramMemory ==
    ASSUME Control, Memory, ProgramStep
    PROVE  Memory'
<1> PICK c \in Slots : c = current_process
  BY DEF Control, TypeOK
<1>1. /\ next_block \in Nat /\ next_block >= 1 /\ TypeOK
      /\ Live(c) /\ HeapBlocks \in Nat
  BY ConstantsAssumption DEF Control, TypeOK, RunningIsCurrent, Live
<1>2. /\ UNCHANGED <<cr3, stack_mem, user_stack_mem, entry_point, state, pc, slot,
                     code>>
      /\ \A i \in Slots \ {c} : /\ alloced_blocks'[i] = alloced_blocks[i]
                               /\ app_blocks'[i] = app_blocks[i]
  BY <1>1
     DEF ProgramStep, UserMalloc, FlatMalloc, FlatFree, schedVars, loadVars,
         TypeOK
<1>3. /\ \A i \in Slots : Live(i)' = Live(i)
      /\ \A i \in Slots \ {c} : Holds(i)' = Holds(i)
      /\ HasCode' = HasCode
  BY <1>2 DEF Holds, Owned, Live, HasCode
<1>4. OnlyLiveAllocate'
  BY <1>1, <1>2, <1>3 DEF Memory, OnlyLiveAllocate
<1>5. CASE (\E n \in 1 .. HeapBlocks : UserMalloc(n)) \/ FlatMalloc
  <2>1. PICK n \in Nat :
          /\ next_block' = next_block + n /\ freed' = freed
          /\ Holds(c)' \subseteq Holds(c) \cup (next_block .. next_block' - 1)
          /\ alloced_blocks[c] \subseteq alloced_blocks'[c]
          /\ \/ /\ app_blocks' = app_blocks
                /\ Owned(c)' \subseteq Owned(c) \cup (next_block .. next_block' - 1)
             \/ /\ Owned(c)' = Owned(c)
                /\ app_blocks'[c] \subseteq
                      app_blocks[c] \cup (next_block .. next_block' - 1)
    <3>1. CASE \E n \in 1 .. HeapBlocks : UserMalloc(n)
      <4>1. PICK n \in 1 .. HeapBlocks : UserMalloc(n)
        BY <3>1
      <4>2. /\ next_block' = next_block + n /\ freed' = freed
            /\ app_blocks' = app_blocks
            /\ alloced_blocks'[c] =
                   alloced_blocks[c] \cup (next_block .. next_block' - 1)
        BY <1>1, <4>1 DEF UserMalloc, Bump, TypeOK
      <4>3. Holds(c)' \subseteq Holds(c) \cup (next_block .. next_block' - 1)
        BY <1>1, <1>2, <1>3, <4>2 DEF Holds, Owned
      <4>4. Owned(c)' \subseteq Owned(c) \cup (next_block .. next_block' - 1)
        BY <1>2, <4>2 DEF Owned
      <4> QED BY <4>2, <4>3, <4>4
    <3>2. CASE FlatMalloc
      <4>1. /\ next_block' = next_block + 1 /\ freed' = freed
            /\ alloced_blocks' = alloced_blocks
            /\ app_blocks'[c] = app_blocks[c] \cup {next_block}
        BY <1>1, <3>2 DEF FlatMalloc, Bump, TypeOK
      <4>2. next_block \in next_block .. next_block' - 1
        BY <1>1, <4>1
      <4>3. Holds(c)' \subseteq Holds(c) \cup (next_block .. next_block' - 1)
        BY <1>1, <1>2, <1>3, <4>1, <4>2 DEF Holds, Owned
      <4>4. Owned(c)' = Owned(c)
        BY <1>2, <4>1 DEF Owned
      <4> QED BY <4>1, <4>2, <4>3, <4>4
    <3> QED BY <1>5, <3>1, <3>2
  <2> DEFINE new == next_block .. next_block' - 1
  <2>2. next_block' \in Nat /\ next_block <= next_block'
    BY <1>1, <2>1
  <2>3. /\ 1 .. next_block - 1 \subseteq 1 .. next_block' - 1
        /\ new \subseteq 1 .. next_block' - 1
        /\ new \cap (1 .. next_block - 1) = {}
    BY <1>1, <2>2, NewBlocks
  <2> HIDE DEF new
  <2>4. Holds(c)' \subseteq Holds(c) \cup new
    BY <2>1 DEF new
  <2>5. /\ freed \subseteq 1 .. next_block - 1
        /\ HasCode => code \in 1 .. next_block - 1
        /\ \A j \in Slots : /\ Holds(j) \subseteq 1 .. next_block - 1
                            /\ HasCode => code \notin Holds(j)
                            /\ Holds(j) \cap freed = {}
    BY DEF Memory, BlocksHandedOut, SingleOwner, NoUseAfterFree
  <2>6. BlocksHandedOut'
    BY <1>2, <1>3, <2>1, <2>3, <2>4, <2>5 DEF BlocksHandedOut
  <2>7. NoUseAfterFree'
    BY <1>2, <1>3, <2>1, <2>3, <2>4, <2>5 DEF Memory, NoUseAfterFree
  <2>8. SingleOwner'
    <3>1. \A j \in Slots \ {c} : Holds(c)' \cap Holds(j)' = {}
      BY <1>3, <2>3, <2>4, <2>5 DEF Memory, SingleOwner
    <3>2. \A j, k \in Slots \ {c} : j # k => Holds(j)' \cap Holds(k)' = {}
      BY <1>3 DEF Memory, SingleOwner
    <3>3. HasCode' => \A j \in Slots : code' \notin Holds(j)'
      BY <1>2, <1>3, <2>3, <2>4, <2>5
    <3>4. \A j, k \in Slots : j # k => Holds(j)' \cap Holds(k)' = {}
      BY <3>1, <3>2
    <3> QED BY <3>3, <3>4 DEF SingleOwner
  <2>9. DirectoryTracked'
    BY <1>2, <1>3, <2>1 DEF Memory, DirectoryTracked
  <2>10. AppBlocksApart'
    <3>1. \A j \in Slots \ {c} : Owned(j)' = Owned(j)
      BY <1>2 DEF Owned
    <3>2. app_blocks[c] \cup Owned(c) = Holds(c)
      BY <1>1 DEF Holds
    <3>3. app_blocks'[c] \cap Owned(c)' = {}
      BY <2>1, <2>3, <2>5, <3>2 DEF new, Memory, AppBlocksApart
    <3> QED BY <1>2, <3>1, <3>3 DEF Memory, AppBlocksApart
  <2> QED BY <1>4, <2>6, <2>7, <2>8, <2>9, <2>10 DEF Memory
<1>6. CASE FlatFree
  <2>1. PICK b \in app_blocks[c] :
          /\ freed' = freed \cup {b} /\ app_blocks'[c] = app_blocks[c] \ {b}
          /\ UNCHANGED <<alloced_blocks, next_block>>
    BY <1>1, <1>6 DEF FlatFree, TypeOK
  <2>2. b \in Holds(c)
    BY <1>1 DEF Holds
  <2>3. Holds(c)' \subseteq Holds(c)
    BY <1>1, <1>2, <1>3, <2>1 DEF Holds, Owned
  <2>4. BlocksHandedOut'
    BY <1>2, <1>3, <2>1, <2>2, <2>3 DEF Memory, BlocksHandedOut
  <2>5. b \notin Holds(c)'
    <3>1. Owned(c)' = Owned(c) /\ b \notin Owned(c)
      BY <1>2, <2>1 DEF Owned, Memory, AppBlocksApart
    <3> QED BY <1>1, <1>3, <2>1, <3>1 DEF Holds
  <2>6. NoUseAfterFree'
    BY <1>2, <1>3, <2>1, <2>2, <2>3, <2>5 DEF Memory, NoUseAfterFree, SingleOwner
  <2>7. SingleOwner'
    BY <1>2, <1>3, <2>3 DEF Memory, SingleOwner
  <2>8. DirectoryTracked'
    BY <1>2, <1>3, <2>1 DEF Memory, DirectoryTracked
  <2>9. AppBlocksApart'
    BY <1>2, <2>1 DEF Owned, Memory, AppBlocksApart
  <2> QED BY <1>4, <2>4, <2>6, <2>7, <2>8, <2>9 DEF Memory
<1> QED BY <1>5, <1>6 DEF ProgramStep

(* Memory holds at boot and is kept by every step. *)
LEMMA InitMemory == Init => Memory
BY ConstantsAssumption
   DEF Init, Memory, OnlyLiveAllocate, AppBlocksApart, BlocksHandedOut,
       NoUseAfterFree, SingleOwner, DirectoryTracked, Holds, Owned, Live, HasCode

LEMMA NextMemory == Control /\ Memory /\ [Next]_vars => Memory'
<1> SUFFICES ASSUME Control, Memory, [Next]_vars PROVE Memory'
  OBVIOUS
<1>1. CASE SwitchAction
  BY <1>1, SwitchActions, SwitchMemory
<1>2. CASE LoadFile \/ LoadStep \/ \E w \in Windows : FocusBegin(w)
  BY <1>2, LoadMemory
<1>3. CASE KernelPageFault \/ UNCHANGED vars
  <2>1. UNCHANGED <<tableVars, schedVars, heapVars, loadVars>>
    BY <1>3 DEF KernelPageFault, vars
  <2>2. \A i \in Slots : Holds(i)' = Holds(i) /\ Live(i)' = Live(i)
    BY <2>1 DEF Holds, Owned, Live, tableVars, schedVars
  <2> QED
    BY <2>1, <2>2
       DEF Memory, OnlyLiveAllocate, AppBlocksApart, Owned, BlocksHandedOut,
           NoUseAfterFree, SingleOwner, DirectoryTracked, HasCode, tableVars,
           heapVars, loadVars
<1>4. CASE ProgramStep
  BY <1>4, ProgramMemory
<1> QED BY <1>1, <1>2, <1>3, <1>4 DEF Next, SwitchAction

-----------------------------------------------------------------------------
(* Pids: two processes never share one, and 0 is never linked to a window. *)

Pids ==
    /\ next_pid >= 1
    /\ \A i \in Slots : Live(i) => id[i] < next_pid
    /\ \A i, j \in Slots : Live(i) /\ Live(j) /\ i # j => id[i] # id[j]
    /\ pc = "link" => id[slot] # 0

LEMMA InitPids == Init => Pids
BY ConstantsAssumption DEF Init, Pids, Live, Slots

(* A switch neither creates a process nor renames one. *)
LEMMA SwitchPids ==
    ASSUME Control, Pids, Switches
    PROVE  Pids'
<1>1. PICK left \in Leaves : SwitchStep(left)
  BY Zenon DEF Switches
<1>2. UNCHANGED <<id, next_pid, pc, slot>>
  BY <1>1, SwitchEffect DEF Control, loadVars
<1>3. \A i \in Slots : Live(i)' => Live(i)
  BY SwitchSlots DEF Live
<1> QED BY <1>2, <1>3 DEF Pids

LEMMA LoadPids ==
    ASSUME Control, Pids, LoadFile \/ LoadStep \/ \E w \in Windows : FocusBegin(w)
    PROVE  Pids'
<1>1. TypeOK
  BY DEF Control
<1>2. CASE (\E r \in {0, 3} : CreateFlat(r)) \/ CreateElf
  <2>1. PICK i \in Slots, need \in {1, 2},
             extra \in SUBSET {code}, onFailure \in SUBSET {code} :
               BuildStep(i, need, extra, onFailure)
    BY <1>2, BuildSteps
  <2>2. /\ \A j \in Slots \ {i} : id'[j] = id[j] /\ state'[j] = state[j]
        /\ id'[i] = next_pid /\ next_pid' = next_pid + 1
        /\ (pc' = "link" /\ slot' = i) \/ pc' = "idle"
    BY <2>1, Built
  <2>3. next_pid \in Nat /\ \A j \in Slots : id[j] \in Nat
    BY <1>1 DEF TypeOK
  <2>4. \A j \in Slots : Live(j)' => j = i \/ Live(j)
    BY <2>2 DEF Live
  <2> QED BY <2>2, <2>3, <2>4 DEF Pids
<1>3. CASE ~((\E r \in {0, 3} : CreateFlat(r)) \/ CreateElf)
  <2>1. UNCHANGED <<id, next_pid>> /\ pc' # "link"
    BY <1>3
       DEF LoadFile, LoadStep, LoadFails, ReserveSlot, CreateDirectory, MapPage,
           TrackBlock, ElfRejected, Return, LinkWindow, FocusBegin, FocusEnd,
           tableVars
  <2>2. \A j \in Slots : Live(j)' => Live(j)
    BY <1>1, <1>3
       DEF LoadFile, LoadStep, LoadFails, ReserveSlot, CreateDirectory, MapPage,
           TrackBlock, ElfRejected, LinkWindow, FocusBegin, FocusEnd,
           schedVars, Live, TypeOK
  <2> QED BY <2>1, <2>2 DEF Pids
<1> QED BY <1>2, <1>3

LEMMA NextPids == Control /\ Pids /\ [Next]_vars => Pids'
<1> SUFFICES ASSUME Control, Pids, [Next]_vars PROVE Pids'
  OBVIOUS
<1>1. CASE SwitchAction
  BY <1>1, SwitchActions, SwitchPids
<1>2. CASE LoadFile \/ LoadStep \/ \E w \in Windows : FocusBegin(w)
  BY <1>2, LoadPids
<1>3. CASE KernelPageFault \/ UNCHANGED vars
  <2>1. UNCHANGED <<tableVars, schedVars, loadVars, next_pid>>
    BY <1>3 DEF KernelPageFault, vars
  <2> QED BY <2>1 DEF Pids, Live, tableVars, schedVars, loadVars
<1>4. CASE ProgramStep
  <2>1. UNCHANGED <<id, next_pid, schedVars, loadVars>>
    BY <1>4 DEF ProgramStep, UserMalloc, FlatMalloc, FlatFree
  <2> QED BY <2>1 DEF Pids, Live, schedVars, loadVars
<1> QED BY <1>1, <1>2, <1>3, <1>4 DEF Next, SwitchAction

-----------------------------------------------------------------------------
(* The inductive invariant, and what follows from it. *)

IndInv == Control /\ Context /\ Memory /\ Pids

(* The conjunction of the four groups is an invariant. *)
THEOREM Invariance == Spec => []IndInv
<1>1. Init => IndInv
  BY InitControl, InitContext, InitMemory, InitPids DEF IndInv
<1>2. IndInv /\ [Next]_vars => IndInv'
  BY NextControl, NextContext, NextMemory, NextPids DEF IndInv
<1> QED BY <1>1, <1>2, PTL DEF Spec

(* scheduler_switch leaves exactly one process RUNNING: the current one. *)
THEOREM OneRunning == Spec => []RunningIsCurrent
BY Invariance, PTL DEF IndInv, Control

(* A half-built process is never dispatched: CREATED is runnable, but the only
   slot in that state is the one the system task is building. *)
THEOREM HalfBuiltSafe == Spec => []HalfBuiltNeverRuns
BY Invariance, PTL DEF IndInv, Control

(* load_program and focus_window run without locks and need none: no other
   process runs while the system task is inside them. *)
THEOREM LoaderUndisturbed == Spec => []LoaderNotPreempted
BY Invariance, PTL DEF IndInv, Control

(* A process resumes on the frame saved on its own kernel stack. *)
THEOREM FramesSaved == Spec => []SavedFrames
BY Invariance, PTL DEF IndInv, Context

(* Stack, TSS.esp0 and CR3 change together and never point into freed memory. *)
THEOREM CpuContextRight == Spec => []CpuContext
<1>1. IndInv => CpuContext
  <2> SUFFICES ASSUME IndInv PROVE CpuContext
    OBVIOUS
  <2> USE DEF IndInv
  <2>1. /\ current_process \in Slots /\ Live(current_process)
        /\ next_block \in Nat /\ 0 \notin freed
    BY DEF Control, TypeOK, RunningIsCurrent, Live, Memory, BlocksHandedOut
  <2>2. CpuOfCurrent /\ cpu_stack = stack_mem[current_process]
    BY <2>1 DEF Context, StackIsTop, CpuOfCurrent
  <2>3. Owned(current_process) \cap freed = {}
    BY <2>1 DEF Memory, NoUseAfterFree, Holds
  <2>4. /\ stack_mem[current_process] \in Owned(current_process) \cup {0}
        /\ cr3[current_process] \in Owned(current_process) \cup {0}
    BY <2>1 DEF Memory, DirectoryTracked, Owned
  <2> QED BY <2>1, <2>2, <2>3, <2>4 DEF CpuContext, CpuOfCurrent
<1> QED BY <1>1, Invariance, PTL

(* A context switch keeps the stacks, the address space and the table in step. *)
THEOREM ContextsAreKept == Spec => []ContextIsKept
BY OneRunning, FramesSaved, CpuContextRight, PTL DEF ContextIsKept

(* A process under construction is seen by load_program alone. *)
THEOREM LoadsArePrivate == Spec => []LoadIsPrivate
BY HalfBuiltSafe, LoaderUndisturbed, PTL DEF LoadIsPrivate

(* No kfree of scheduler_switch or load_program hits a block in use. *)
THEOREM FreesAreSafe == Spec => []NoUseAfterFree
BY Invariance, PTL DEF IndInv, Memory

(* No block has two owners. *)
THEOREM OwnersAreUnique == Spec => []SingleOwner
BY Invariance, PTL DEF IndInv, Memory

(* Every block is freed once, and none that is still used. *)
THEOREM MemoryIsSafe == Spec => []MemorySafe
BY TypeCorrect, FreesAreSafe, OwnersAreUnique, PTL DEF MemorySafe

(* A process that terminated never runs again; reaping it frees all it had. *)
THEOREM TheDeadStayDead == Spec => DeadStaysDead
<1> DEFINE Stays ==
        \A i \in Slots : state[i] = "TERMINATED" =>
            \/ state'[i] = "TERMINATED"
            \/ state'[i] = "UNUSED" /\ Owned(i) \subseteq freed'
<1>1. IndInv /\ [Next]_vars => [Stays]_vars
  <2> SUFFICES ASSUME IndInv, [Next]_vars, NEW i \in Slots,
                      state[i] = "TERMINATED"
               PROVE  \/ state'[i] = "TERMINATED"
                      \/ state'[i] = "UNUSED" /\ Owned(i) \subseteq freed'
    OBVIOUS
  <2> USE DEF IndInv
  <2>1. CASE SwitchAction
    <3>1. Switches
      BY <2>1, SwitchActions
    <3>2. PICK left \in Leaves : SwitchStep(left)
      BY <3>1, Zenon DEF Switches
    <3>3. i \in Reapable
      BY DEF Reapable, Control, RunningIsCurrent
    <3>4. freed' = freed \cup ReleasedBlocks(Reapable)
      BY <3>2, SwitchEffect DEF Control, ReleaseDead
    <3>5. Owned(i) \subseteq ReleasedBlocks(Reapable)
      BY <3>3 DEF Owned, ReleasedBlocks
    <3> QED BY <3>1, <3>3, <3>4, <3>5, SwitchSlots
  <2>2. CASE (\E r \in {0, 3} : CreateFlat(r)) \/ CreateElf
    <3>1. PICK j \in Slots, need \in {1, 2},
               extra \in SUBSET {code}, onFailure \in SUBSET {code} :
                 BuildStep(j, need, extra, onFailure)
      BY <2>2, BuildSteps
    <3> QED BY <3>1, Built DEF BuildStep, Live
  <2>3. CASE LoadFile \/ LoadStep \/ \E w \in Windows : FocusBegin(w)
    <3>1. \/ UNCHANGED state
          \/ \E j \in Slots : /\ state[j] # "TERMINATED"
                              /\ \E x : state' = [state EXCEPT ![j] = x]
          \/ (\E r \in {0, 3} : CreateFlat(r)) \/ CreateElf
      BY <2>3
         DEF LoadFile, LoadStep, LoadFails, ReserveSlot, FirstUnused,
             CreateDirectory, MapPage, TrackBlock, ElfRejected, LinkWindow,
             FocusBegin, FocusEnd, schedVars, Control, TypeOK,
             HalfBuiltNeverRuns, Building, SystemAt
    <3> QED BY <2>2, <3>1 DEF Control, TypeOK
  <2>4. CASE KernelPageFault \/ UNCHANGED vars
    BY <2>4 DEF KernelPageFault, vars, schedVars
  <2>5. CASE ProgramStep
    BY <2>5 DEF ProgramStep, UserMalloc, FlatMalloc, FlatFree, schedVars
  <2> QED BY <2>1, <2>3, <2>4, <2>5 DEF Next, SwitchAction
<1>2. DeadStaysDead <=> [][Stays]_vars
  BY DEF DeadStaysDead
<1> HIDE DEF Stays
<1> QED BY <1>1, <1>2, Invariance, PTL DEF Spec

(* A window is closed by the scheduler only when its process is gone. *)
THEOREM WindowsOfTheLive == Spec => LiveKeepsWindow
<1> DEFINE Keeps ==
        \A w \in Windows : window_pid[w] # 0 /\ window_pid'[w] = 0 =>
            \A i \in Slots : Live(i)' => id'[i] # window_pid[w]
<1>1. IndInv /\ [Next]_vars => [Keeps]_vars
  <2> SUFFICES ASSUME IndInv, [Next]_vars, NEW w \in Windows,
                      window_pid[w] # 0, window_pid'[w] = 0,
                      NEW i \in Slots, Live(i)'
               PROVE  id'[i] # window_pid[w]
    OBVIOUS
  <2> USE DEF IndInv
  <2>1. CASE SwitchAction
    <3>1. Switches
      BY <2>1, SwitchActions
    <3>2. PICK left \in Leaves : SwitchStep(left)
      BY <3>1, Zenon DEF Switches
    <3>3. ReleaseDead(Reapable) /\ id' = id
      BY <3>2, SwitchEffect DEF Control
    <3>4. PICK j \in Reapable : window_pid[w] = id[j]
      BY <3>3 DEF ReleaseDead, ClosedWindows
    <3>5. i \notin Reapable /\ Live(i)
      BY <3>1, SwitchSlots DEF Live
    <3>6. j \in Slots /\ Live(j)
      BY <3>4 DEF Reapable, Live
    <3> QED BY <3>3, <3>4, <3>5, <3>6 DEF Pids
  <2>2. CASE LinkWindow
    <3>1. PICK v \in Windows : window_pid' = [window_pid EXCEPT ![v] = id[slot]]
      BY <2>2 DEF LinkWindow, windowVars
    <3>2. id[slot] # 0
      BY <2>2 DEF LinkWindow, SystemAt, Pids
    <3> QED BY <3>1, <3>2 DEF Control, TypeOK
  <2>3. CASE (\E r \in {0, 3} : CreateFlat(r)) \/ CreateElf
    <3>1. PICK j \in Slots, need \in {1, 2},
               extra \in SUBSET {code}, onFailure \in SUBSET {code} :
                 BuildStep(j, need, extra, onFailure)
      BY <2>3, BuildSteps
    <3> QED BY <3>1, Built DEF windowVars
  <2>4. CASE (LoadFile \/ LoadStep \/ \E v \in Windows : FocusBegin(v))
                /\ ~LinkWindow
                /\ ~((\E r \in {0, 3} : CreateFlat(r)) \/ CreateElf)
    BY <2>4
       DEF LoadFile, LoadStep, LoadFails, ReserveSlot, CreateDirectory, MapPage,
           TrackBlock, ElfRejected, FocusBegin, FocusEnd, windowVars
  <2>5. CASE KernelPageFault \/ UNCHANGED vars
    BY <2>5 DEF KernelPageFault, vars, windowVars
  <2>6. CASE ProgramStep
    BY <2>6 DEF ProgramStep, UserMalloc, FlatMalloc, FlatFree, windowVars
  <2> QED BY <2>1, <2>2, <2>3, <2>4, <2>5, <2>6 DEF Next, SwitchAction
<1>2. LiveKeepsWindow <=> [][Keeps]_vars
  BY DEF LiveKeepsWindow
<1> HIDE DEF Keeps
<1> QED BY <1>1, <1>2, Invariance, PTL DEF Spec

(* Reaping takes from the dead and from nobody else. *)
THEOREM ReapingIsRight == Spec => ReapsOnlyTheDead
BY TheDeadStayDead, WindowsOfTheLive DEF ReapsOnlyTheDead

-----------------------------------------------------------------------------
(* How long a sleep lasts (module SleepTiming). *)

SleepInv ==
    /\ Control
    /\ SleepTypeOK
    /\ NeverOversleeps

(* Who is asleep after a switch was asleep before it, or is the process that
   called it, and one tick has been taken from its counter. *)
LEMMA SwitchSleepers ==
    ASSUME TypeOK, NEW left \in Leaves, NEW sl \in [Slots -> Nat],
           Switch([state EXCEPT ![current_process] = left], sl),
           NEW i \in Slots, state'[i] = "SLEEPING"
    PROVE  /\ sl[i] \in Nat /\ sl[i] > 1 /\ sleep_ticks'[i] = sl[i] - 1
           /\ IF i = current_process THEN left = "SLEEPING" ELSE state[i] = "SLEEPING"
<1> DEFINE st == [state EXCEPT ![current_process] = left]
           preempted == Preempted(st)
           reaped    == Reaped(preempted)
           ticked    == Ticked(reaped, sl)
           woken     == Woken(reaped, ticked)
<1>1. st \in [Slots -> ProcessState] /\ st[current_process] = left
      /\ \A j \in Slots \ {current_process} : st[j] = state[j]
  BY DEF TypeOK, Leaves, ProcessState
<1>2. PICK next \in Slots : state' = [woken EXCEPT ![next] = "RUNNING"]
  BY Zenon DEF Switch
<1>3. sleep_ticks' = ticked
  BY Zenon DEF Switch
<1>4. woken[i] = "SLEEPING"
  <2>1. woken = [j \in Slots |-> woken[j]]
    BY DEF Woken
  <2> HIDE DEF woken
  <2> QED
    BY <1>2, <2>1
<1>5. reaped[i] = "SLEEPING" /\ ticked[i] # 0
  <2> HIDE DEF reaped, ticked
  <2> QED
    BY <1>4 DEF Woken
<1>6. sl[i] > 0 /\ ticked[i] = sl[i] - 1 /\ sl[i] \in Nat
  <2>1. sl[i] \in Nat /\ ticked[i] = IF sl[i] > 0 THEN sl[i] - 1 ELSE sl[i]
    <3> HIDE DEF reaped
    <3> QED
      BY <1>5 DEF Ticked
  <2> HIDE DEF ticked
  <2> QED
    BY <1>5, <2>1
<1>7. preempted[i] = "SLEEPING"
  <2> HIDE DEF preempted
  <2> QED
    BY <1>5 DEF Reaped
<1>8. IF i = current_process THEN left = "SLEEPING" ELSE state[i] = "SLEEPING"
  <2>1. preempted[i] = IF i = current_process /\ st[i] = "RUNNING" THEN "READY" ELSE st[i]
    <3> HIDE DEF st
    <3> QED
      BY <1>1 DEF Preempted, TypeOK
  <2> HIDE DEF preempted, st
  <2> QED
    BY <1>1, <1>7, <2>1
<1> HIDE DEF ticked, reaped, woken
<1>9. sl[i] > 1
  BY <1>5, <1>6
<1> QED
  BY <1>3, <1>6, <1>8, <1>9

(* Nothing but a switch puts a process to sleep or touches its counter. *)
LEMMA OthersLetSleep ==
    ASSUME Control, LoadStep \/ ProgramStep \/ KernelPageFault \/ LoadFile
                      \/ (\E w \in Windows : FocusBegin(w)) \/ UNCHANGED vars,
           NEW i \in Slots, state'[i] = "SLEEPING"
    PROVE  state[i] = "SLEEPING" /\ sleep_ticks'[i] = sleep_ticks[i]
<1>1. TypeOK /\ slot \in Slots
  BY DEF Control, TypeOK
<1>2. ASSUME NEW j \in Slots, NEW need, NEW extra, NEW onFailure,
             BuildProcess(j, need, extra, onFailure)
      PROVE  state[i] = "SLEEPING" /\ sleep_ticks'[i] = sleep_ticks[i]
  <2>1. PICK s \in {"READY", "UNUSED"} : state' = [state EXCEPT ![j] = s]
    BY <1>2, Zenon DEF BuildProcess
  <2>2. sleep_ticks' = [sleep_ticks EXCEPT ![j] = 0]
    BY <1>2, Zenon DEF BuildProcess
  <2> QED
    BY <1>1, <2>1, <2>2 DEF TypeOK
<1>3. CASE \E r \in {0, 3} : CreateFlat(r)
  <2>1. PICK r \in {0, 3}, j \in Slots :
          BuildProcess(j, IF r = 3 THEN 2 ELSE 1, {}, {code})
    BY <1>3, Zenon DEF CreateFlat
  <2> QED
    BY <2>1, <1>2
<1>4. CASE CreateElf
  <2>1. BuildProcess(slot, 2, {code}, {})
    BY <1>4 DEF CreateElf
  <2> QED
    BY <1>1, <1>2, <2>1
<1>5. CASE ReserveSlot \/ ElfRejected
  <2>1. PICK j \in Slots, s \in {"CREATED", "UNUSED"} : state' = [state EXCEPT ![j] = s]
    BY <1>1, <1>5 DEF ReserveSlot, ElfRejected
  <2>2. sleep_ticks' = sleep_ticks
    BY <1>5 DEF ReserveSlot, ElfRejected
  <2> QED
    BY <1>1, <2>1, <2>2 DEF TypeOK
<1>6. CASE LoadFails \/ CreateDirectory \/ MapPage \/ LinkWindow \/ FocusEnd
  BY <1>6 DEF LoadFails, CreateDirectory, MapPage, TrackBlock, LinkWindow, FocusEnd, schedVars
<1>7. CASE ProgramStep
  BY <1>7 DEF ProgramStep, UserMalloc, FlatMalloc, FlatFree, schedVars
<1>8. CASE KernelPageFault \/ LoadFile \/ (\E w \in Windows : FocusBegin(w)) \/ UNCHANGED vars
  BY <1>8 DEF KernelPageFault, LoadFile, FocusBegin, schedVars, vars
<1> QED
  BY <1>3, <1>4, <1>5, <1>6, <1>7, <1>8, Zenon DEF LoadStep

(* The history of the sleepers that are left alone. *)
LEMMA ForgetKeeps ==
    ASSUME SleepTypeOK, Forget
    PROVE  /\ asked' \in [Slots -> Nat] /\ elapsed' \in [Slots -> Nat]
           /\ \A i \in Slots : state'[i] = "SLEEPING" =>
                 asked'[i] = asked[i] /\ elapsed'[i] = elapsed[i]
BY DEF SleepTypeOK, Forget

LEMMA SleepNextIsNext ==
    ASSUME [SleepNext]_sleepVars PROVE [Next]_vars
<1>1. CASE SleepNext
  BY <1>1, Zenon DEF SleepNext, Next
<1>2. CASE UNCHANGED sleepVars
  BY <1>2 DEF sleepVars
<1> QED
  BY <1>1, <1>2

(* The sum that no step lets grow; a step of the clock moves one from the
   counter to the time elapsed. *)
LEMMA NextSleep ==
    ASSUME SleepInv, [SleepNext]_sleepVars PROVE SleepInv'
<1>1. TypeOK /\ current_process \in Slots
      /\ asked \in [Slots -> Nat] /\ elapsed \in [Slots -> Nat]
      /\ sleep_ticks \in [Slots -> Nat] /\ state \in [Slots -> ProcessState]
  BY DEF SleepInv, SleepTypeOK, TypeOK
<1>2. Control' /\ TypeOK'
  BY SleepNextIsNext, NextControl DEF SleepInv, Control
<1>3. ASSUME NEW i \in Slots, state[i] = "SLEEPING"
      PROVE  elapsed[i] + sleep_ticks[i] < asked[i]
  BY <1>3 DEF SleepInv, NeverOversleeps
<1>4. CASE TimerIrq /\ CountTick
  <2>1. state = [state EXCEPT ![current_process] = "RUNNING"]
    BY <1>1 DEF SleepInv, Control, RunningIsCurrent
  <2>2. "RUNNING" \in Leaves
    BY DEF Leaves
  <2>3. Switch([state EXCEPT ![current_process] = "RUNNING"], sleep_ticks)
    BY <1>4, <2>1 DEF TimerIrq
  <2>4. /\ asked' = asked /\ elapsed' \in [Slots -> Nat]
        /\ \A i \in Slots : state[i] = "SLEEPING" => elapsed'[i] = elapsed[i] + 1
    BY <1>1, <1>4 DEF CountTick
  <2>5. ASSUME NEW i \in Slots, state'[i] = "SLEEPING"
        PROVE  sleep_ticks'[i] > 0 /\ elapsed'[i] + sleep_ticks'[i] < asked'[i]
    <3> DEFINE e == elapsed[i]
               s == sleep_ticks[i]
               a == asked[i]
    <3>1. /\ s \in Nat /\ s > 1 /\ sleep_ticks'[i] = s - 1 /\ state[i] = "SLEEPING"
      BY <1>1, <2>2, <2>3, <2>5, SwitchSleepers
    <3>2. e \in Nat /\ a \in Nat /\ e + s < a /\ elapsed'[i] = e + 1 /\ asked'[i] = a
      BY <1>1, <1>3, <2>4, <3>1
    <3> HIDE DEF e, s, a
    <3>3. s - 1 > 0 /\ (e + 1) + (s - 1) < a
      BY <3>1, <3>2
    <3> QED
      BY <3>1, <3>2, <3>3
  <2> QED
    BY <1>1, <1>2, <2>4, <2>5 DEF SleepInv, SleepTypeOK, NeverOversleeps
<1>5. ASSUME NEW t \in Nat,
             Switch([state EXCEPT ![current_process] = "SLEEPING"],
                    [sleep_ticks EXCEPT ![current_process] = t]),
             FallAsleep(t)
      PROVE  SleepInv'
  <2> DEFINE sl == [sleep_ticks EXCEPT ![current_process] = t]
  <2>1. sl \in [Slots -> Nat] /\ "SLEEPING" \in Leaves
    BY <1>1 DEF Leaves
  <2>2. asked' \in [Slots -> Nat] /\ elapsed' \in [Slots -> Nat]
    BY <1>1, <1>5 DEF FallAsleep
  <2>3. ASSUME NEW i \in Slots, state'[i] = "SLEEPING"
        PROVE  sleep_ticks'[i] > 0 /\ elapsed'[i] + sleep_ticks'[i] < asked'[i]
    <3>1. /\ sl[i] \in Nat /\ sl[i] > 1 /\ sleep_ticks'[i] = sl[i] - 1
          /\ IF i = current_process THEN TRUE ELSE state[i] = "SLEEPING"
      <4> HIDE DEF sl
      <4> QED
        BY <1>1, <1>5, <2>1, <2>3, SwitchSleepers DEF sl
    <3>2. CASE i = current_process
      <4>1. sl[i] = t /\ asked'[i] = t /\ elapsed'[i] = 0
        BY <1>1, <1>5, <3>2 DEF FallAsleep
      <4>2. t > 1 /\ sleep_ticks'[i] = t - 1
        BY <3>1, <4>1
      <4>3. t - 1 > 0 /\ 0 + (t - 1) < t
        BY <4>2
      <4> QED
        BY <4>1, <4>2, <4>3
    <3>3. CASE i # current_process
      <4> DEFINE e == elapsed[i]
                 s == sleep_ticks[i]
                 a == asked[i]
      <4>1. sl[i] = s /\ asked'[i] = a /\ elapsed'[i] = e
        BY <1>1, <1>5, <3>3 DEF FallAsleep
      <4>2. e \in Nat /\ a \in Nat /\ s \in Nat /\ e + s < a
        BY <1>1, <1>3, <3>1, <3>3
      <4>3. s > 1 /\ sleep_ticks'[i] = s - 1
        BY <3>1, <4>1
      <4> HIDE DEF e, s, a
      <4>4. s - 1 > 0 /\ e + (s - 1) < a
        BY <4>2, <4>3
      <4> QED
        BY <4>1, <4>3, <4>4
    <3> QED
      BY <3>2, <3>3
  <2> QED
    BY <1>1, <1>2, <2>2, <2>3 DEF SleepInv, SleepTypeOK, NeverOversleeps
<1>6. CASE \/ \E t \in SleepTicks : Sleep(t) /\ FallAsleep(t)
           \/ \E t \in SystemSleepTicks : SystemSleep(t) /\ FallAsleep(t)
  <2>1. PICK t \in Nat :
          /\ Switch([state EXCEPT ![current_process] = "SLEEPING"],
                    [sleep_ticks EXCEPT ![current_process] = t])
          /\ FallAsleep(t)
    BY <1>6, ConstantsAssumption DEF Sleep, SystemSleep
  <2> QED
    BY <1>5, <2>1
<1>7. CASE (Exit \/ UserPageFault) /\ Forget
  <2>1. "TERMINATED" \in Leaves
        /\ Switch([state EXCEPT ![current_process] = "TERMINATED"], sleep_ticks)
    BY <1>7 DEF Exit, UserPageFault, Leaves
  <2>2. ASSUME NEW i \in Slots, state'[i] = "SLEEPING"
        PROVE  sleep_ticks'[i] > 0 /\ elapsed'[i] + sleep_ticks'[i] < asked'[i]
    <3> DEFINE e == elapsed[i]
               s == sleep_ticks[i]
               a == asked[i]
    <3>1. /\ s \in Nat /\ s > 1 /\ sleep_ticks'[i] = s - 1 /\ state[i] = "SLEEPING"
      BY <1>1, <2>1, <2>2, SwitchSleepers
    <3>2. e \in Nat /\ a \in Nat /\ e + s < a /\ elapsed'[i] = e /\ asked'[i] = a
      BY <1>1, <1>3, <1>7, <2>2, <3>1, ForgetKeeps DEF SleepInv
    <3> HIDE DEF e, s, a
    <3>3. s - 1 > 0 /\ e + (s - 1) < a
      BY <3>1, <3>2
    <3> QED
      BY <3>1, <3>2, <3>3
  <2> QED
    BY <1>1, <1>2, <1>7, <2>2, ForgetKeeps DEF SleepInv, SleepTypeOK, NeverOversleeps
<1>8. CASE (LoadStep \/ ProgramStep \/ KernelPageFault \/ LoadFile
              \/ (\E w \in Windows : FocusBegin(w))) /\ Forget
  <2>1. \A i \in Slots : state'[i] = "SLEEPING" =>
           state[i] = "SLEEPING" /\ sleep_ticks'[i] = sleep_ticks[i]
    BY <1>8, OthersLetSleep DEF SleepInv
  <2> QED
    BY <1>1, <1>2, <1>8, <2>1, ForgetKeeps DEF SleepInv, SleepTypeOK, NeverOversleeps
<1>9. CASE UNCHANGED sleepVars
  <2>1. UNCHANGED <<vars, asked, elapsed>> /\ state' = state /\ sleep_ticks' = sleep_ticks
    BY <1>9 DEF sleepVars, vars, schedVars
  <2> QED
    BY <1>2, <2>1 DEF SleepInv, SleepTypeOK, NeverOversleeps
<1> QED
  BY <1>4, <1>6, <1>7, <1>8, <1>9, Zenon DEF SleepNext

(* NeverOversleeps: scheduler_switch also runs for `int $32` and after faults,
   and takes a tick from every sleeper each time; so a sleep may be shorter
   than it was asked to be, and is never longer. *)
THEOREM SleepersWakeInTime == SleepSpec => []NeverOversleeps
<1>1. SleepInit => SleepInv
  <2> SUFFICES ASSUME SleepInit PROVE SleepInv
    OBVIOUS
  <2>1. Control
    BY InitControl DEF SleepInit
  <2>2. \A i \in Slots : state[i] # "SLEEPING"
    BY DEF SleepInit, Init
  <2> QED
    BY <2>1, <2>2 DEF SleepInv, SleepTypeOK, NeverOversleeps, SleepInit, Control
<1>2. SleepInv /\ [SleepNext]_sleepVars => SleepInv'
  BY NextSleep
<1>3. SleepInv => NeverOversleeps
  BY DEF SleepInv
<1> QED
  BY <1>1, <1>2, <1>3, PTL DEF SleepSpec

=============================================================================
