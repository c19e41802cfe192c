------------------------------ MODULE Scheduler ------------------------------
(***************************************************************************)
(* The process subsystem of SQ-OS: the process table and the scheduler of  *)
(* kernel/process.c, the interrupt service routines of kernel/entry.asm    *)
(* that call it, and the part of kernel/loader.c that builds processes.    *)
(*                                                                         *)
(* One CPU.  A step of this module is what happens between two points at   *)
(* which an interrupt can be taken: an interrupt handler runs with         *)
(* interrupts disabled (entry.asm installs interrupt gates), so a handler  *)
(* is one step, while load_program and focus_window, which the system task *)
(* (slot 0) runs with interrupts enabled, are several.                     *)
(*                                                                         *)
(* The kernel heap never reuses an address (memory.c), so a block is named *)
(* by the position of its kmalloc in the history of successful kmallocs;   *)
(* the heap is abstracted to serving HeapBlocks of them.  0 stands for     *)
(* NULL, and for what is not in the heap: the boot stack, the kernel's     *)
(* page directory, an ELF entry point.                                     *)
(*                                                                         *)
(* An operator named X_Mut... before an operator X is X with a fault: it   *)
(* belongs to no behaviour of the module and shows which property would    *)
(* notice that fault.                                                      *)
(***************************************************************************)
EXTENDS Naturals, FiniteSets

CONSTANTS
    MaxProcesses,       \* MAX_PROCESSES, the slots of process_table
    HeapBlocks,         \* how many kmalloc calls the heap can serve
    Windows,            \* the windows of the desktop
    SleepTicks,         \* the arguments processes give to SYS_SLEEP
    SystemSleepTicks,   \* the arguments the system task gives to sys_sleep
    TimerUnmasked       \* the PIC lets IRQ0 through

(* As shipped TimerUnmasked is FALSE (boot.asm masks IRQ0, kernel.c changes
   IRQ1 only) and SystemSleepTicks is {} (run_gui_loop never calls sys_sleep).
   The table is written for a timer and for sleeping callers, and what is said
   of its safety is for any values of the two. *)

ASSUME ConstantsAssumption ==
    /\ MaxProcesses \in Nat \ {0}
    /\ HeapBlocks \in Nat
    /\ SleepTicks \subseteq Nat
    /\ SystemSleepTicks \subseteq Nat
    /\ TimerUnmasked \in BOOLEAN

VARIABLES
    \* process_table[i], one function per field
    state, sleep_ticks, id, ring, cr3, esp, stack_mem, kernel_stack_top,
    user_stack_mem, entry_point, alloced_blocks,
    \* what the flat program in a slot has from SYS_MALLOC: it alone knows
    app_blocks,
    \* the other globals of process.c
    current_process, next_pid,
    \* the CPU: the stack it runs kernel code on, CR3, and TSS.esp0
    cpu_stack, cpu_cr3, tss_esp0,
    \* the heap: the next block to hand out, and the blocks marked free
    next_block, freed,
    \* the windows: the pid a window is linked to, and the windows that are
    \* missing from window_order while focus_window shifts it
    window_pid, unlisted,
    \* the system task: where it is in load_program or focus_window, and the
    \* locals p (a slot) and code (a block) of load_program
    pc, slot, code,
    \* the kernel has panicked
    halted

tableVars  == <<id, ring, cr3, stack_mem, kernel_stack_top, user_stack_mem,
                entry_point, alloced_blocks, app_blocks>>
schedVars  == <<state, sleep_ticks, esp, current_process>>
cpuVars    == <<cpu_stack, cpu_cr3, tss_esp0>>
heapVars   == <<next_block, freed>>
windowVars == <<window_pid, unlisted>>
loadVars   == <<pc, slot, code>>
vars == <<tableVars, schedVars, cpuVars, heapVars, windowVars, loadVars,
          next_pid, halted>>

Slots == 0 .. MaxProcesses - 1
Blocks == 0 .. HeapBlocks
ProcessState == {"UNUSED", "CREATED", "READY", "RUNNING", "SLEEPING",
                 "TERMINATED"}

TypeOK ==
    /\ state \in [Slots -> ProcessState]
    /\ sleep_ticks \in [Slots -> Nat]
    /\ id \in [Slots -> Nat]
    /\ ring \in [Slots -> {0, 3}]
    /\ cr3 \in [Slots -> Blocks]
    /\ esp \in [Slots -> Blocks]
    /\ stack_mem \in [Slots -> Blocks]
    /\ kernel_stack_top \in [Slots -> Blocks]
    /\ user_stack_mem \in [Slots -> Blocks]
    /\ entry_point \in [Slots -> Blocks]
    /\ alloced_blocks \in [Slots -> SUBSET Blocks]
    /\ app_blocks \in [Slots -> SUBSET Blocks]
    /\ current_process \in Slots
    /\ next_pid \in Nat
    /\ cpu_stack \in Blocks /\ cpu_cr3 \in Blocks /\ tss_esp0 \in Blocks
    /\ next_block \in 1 .. HeapBlocks + 1
    /\ freed \in SUBSET Blocks
    /\ window_pid \in [Windows -> Nat]
    /\ unlisted \in SUBSET Windows
    /\ pc \in {"idle", "loaded", "reserved", "mapping", "link", "focus"}
    /\ slot \in Slots
    /\ code \in Blocks
    /\ halted \in BOOLEAN

-----------------------------------------------------------------------------
(* Boot: process_init, tss_init and paging_init. *)

Init ==
    /\ state = [i \in Slots |-> IF i = 0 THEN "RUNNING" ELSE "UNUSED"]
    /\ sleep_ticks = [i \in Slots |-> 0]
    /\ id = [i \in Slots |-> 0]
    /\ ring = [i \in Slots |-> 0]
    /\ cr3 = [i \in Slots |-> 0]
    /\ esp = [i \in Slots |-> 0]
    /\ stack_mem = [i \in Slots |-> 0]
    /\ kernel_stack_top = [i \in Slots |-> 0]
    /\ user_stack_mem = [i \in Slots |-> 0]
    /\ entry_point = [i \in Slots |-> 0]
    /\ alloced_blocks = [i \in Slots |-> {}]
    /\ app_blocks = [i \in Slots |-> {}]
    /\ current_process = 0
    /\ next_pid = 1
    /\ cpu_stack = 0 /\ cpu_cr3 = 0 /\ tss_esp0 = 0
    /\ next_block = 1
    /\ freed = {}
    /\ window_pid = [w \in Windows |-> 0]
    /\ unlisted = {}
    /\ pc = "idle" /\ slot = 0 /\ code = 0
    /\ halted = FALSE

-----------------------------------------------------------------------------
(* scheduler_switch, called with the states `st` and sleep counters `sl` that
   the interrupted code has just left. *)

(* PRIO_HIGH for the system task, PRIO_NORMAL for every other process. *)
priority_Mut1(i) == 2
priority(i) == IF i = 0 THEN 3 ELSE 2

(* Where the interrupt frame of the running process lies: an interrupt from
   ring 3 goes to the stack TSS.esp0 names, one from ring 0 stays. *)
InterruptStack == IF ring[current_process] = 3 THEN tss_esp0 ELSE cpu_stack

(* 1. The running process goes back to READY. *)
Preempted(st) ==
    [st EXCEPT ![current_process] = IF @ = "RUNNING" THEN "READY" ELSE @]

(* 2. The terminated processes, which are reaped: never the current one. *)
Dead(st) == {i \in Slots : st[i] = "TERMINATED" /\ i # current_process}

Reaped(st) == [i \in Slots |-> IF i \in Dead(st) THEN "UNUSED" ELSE st[i]]

(* 3. One tick for the sleepers. *)
Ticked_Mut(st, sl) ==
    [sl EXCEPT ![current_process] =
        IF st[current_process] = "SLEEPING" /\ @ > 0 THEN @ - 1 ELSE @]
Ticked(st, sl) ==
    [i \in Slots |-> IF st[i] = "SLEEPING" /\ sl[i] > 0 THEN sl[i] - 1
                                                        ELSE sl[i]]
Woken(st, sl) ==
    [i \in Slots |-> IF st[i] = "SLEEPING" /\ sl[i] = 0 THEN "READY" ELSE st[i]]

(* 4. The runnable processes of the highest priority. *)
Runnable(st) == {i \in Slots : st[i] \in {"READY", "CREATED", "RUNNING"}}
Candidates(st) ==
    {i \in Runnable(st) : \A j \in Runnable(st) : priority(j) <= priority(i)}

(* 5. Round robin: how far slot i is after the current one. *)
Distance(i) == (i + MaxProcesses - current_process - 1) % MaxProcesses

(* 6. The slot that runs next, or slot 0 if nothing is runnable. *)
Selected(st, i) ==
    \/ /\ i \in Candidates(st)
       /\ \A j \in Candidates(st) : Distance(i) <= Distance(j)
    \/ /\ Runnable(st) = {}
       /\ i = 0

(* kfree of what the dead processes own; kfree of a free block is a no-op. *)
ReleasedBlocks_Mut1(dead) == {stack_mem[i] : i \in dead} \ {0}
ReleasedBlocks(dead) ==
    (UNION {{stack_mem[i], user_stack_mem[i], entry_point[i]}
                \cup alloced_blocks[i] : i \in dead}) \ {0}

(* The windows of window_order that are linked to a dead process. *)
ClosedWindows(dead) ==
    {w \in Windows \ unlisted : \E i \in dead : window_pid[w] = id[i]}

ReleaseDead(dead) ==
    /\ freed' = freed \cup ReleasedBlocks(dead)
    /\ stack_mem' = [i \in Slots |-> IF i \in dead THEN 0 ELSE stack_mem[i]]
    /\ user_stack_mem' =
           [i \in Slots |-> IF i \in dead THEN 0 ELSE user_stack_mem[i]]
    /\ entry_point' = [i \in Slots |-> IF i \in dead THEN 0 ELSE entry_point[i]]
    /\ alloced_blocks' =
           [i \in Slots |-> IF i \in dead THEN {} ELSE alloced_blocks[i]]
    /\ app_blocks' = [i \in Slots |-> IF i \in dead THEN {} ELSE app_blocks[i]]
    /\ window_pid' =
           [w \in Windows |->
               IF w \in ClosedWindows(dead) THEN 0 ELSE window_pid[w]]

(* 7. Resume slot i: its saved stack, its page directory, its esp0. *)
Resume_Mut2(i) ==
    /\ cpu_stack' = esp'[i]
    /\ cpu_cr3' = IF cr3[i] # 0 THEN cr3[i] ELSE cpu_cr3
    /\ tss_esp0' = kernel_stack_top[i]
Resume(i) ==
    /\ cpu_stack' = esp'[i]
    /\ cpu_cr3' = cr3[i]
    /\ tss_esp0' = kernel_stack_top[i]

Switch(st, sl) ==
    LET preempted == Preempted(st)
        reaped    == Reaped(preempted)
        ticked    == Ticked(reaped, sl)
        woken     == Woken(reaped, ticked)
    IN /\ esp' = [esp EXCEPT ![current_process] = InterruptStack]
       /\ ReleaseDead(Dead(preempted))
       /\ sleep_ticks' = ticked
       /\ \E next \in Slots :
              /\ Selected(woken, next)
              /\ current_process' = next
              /\ state' = [woken EXCEPT ![next] = "RUNNING"]
              /\ Resume(next)
       /\ UNCHANGED <<id, ring, cr3, kernel_stack_top, next_pid, next_block,
                      unlisted, loadVars, halted>>

-----------------------------------------------------------------------------
(* The heap: the blocks kmalloc has left, and the bump pointer after n more. *)

FreeBlocks == HeapBlocks + 1 - next_block

Bump_Mut(n) == next_block + 1
Bump(n) == next_block + n

-----------------------------------------------------------------------------
(* Interrupts and system calls of the running process. *)

(* timer_isr: IRQ0, at any point where interrupts are enabled. *)
TimerIrq == TimerUnmasked /\ ~halted /\ Switch(state, sleep_ticks)

(* SYS_SLEEP; a sleep of 0 ticks returns at once. *)
Sleep(t) ==
    /\ ~halted /\ current_process # 0 /\ t > 0
    /\ Switch([state EXCEPT ![current_process] = "SLEEPING"],
              [sleep_ticks EXCEPT ![current_process] = t])

(* sys_sleep called by the system task between two rounds of its loop. *)
SystemSleep(t) ==
    /\ ~halted /\ current_process = 0 /\ pc = "idle" /\ t > 0
    /\ Switch([state EXCEPT ![0] = "SLEEPING"], [sleep_ticks EXCEPT ![0] = t])

(* SYS_EXIT: process_exit. *)
Exit ==
    /\ ~halted /\ current_process # 0
    /\ Switch([state EXCEPT ![current_process] = "TERMINATED"], sleep_ticks)

(* page_fault_handler: a fault in ring 3 ends the process, ... *)
UserPageFault ==
    /\ ~halted /\ ring[current_process] = 3
    /\ Switch([state EXCEPT ![current_process] = "TERMINATED"], sleep_ticks)

(* ... a fault in ring 0 ends everything. *)
KernelPageFault ==
    /\ ~halted /\ ring[current_process] = 0
    /\ halted' = TRUE
    /\ UNCHANGED <<tableVars, schedVars, cpuVars, heapVars, windowVars,
                   loadVars, next_pid>>

(* A process with a page directory of its own: SYS_MALLOC maps pages for it,
   and SYS_FREE does nothing. *)
HasDirectory(i) == ring[i] = 3 /\ cr3[i] # 0

(* SYS_MALLOC takes n blocks, pages and page tables, and tracks them: also if
   the heap is exhausted before the last one, and the call fails. *)
UserMalloc(n) ==
    /\ ~halted /\ current_process # 0 /\ HasDirectory(current_process)
    /\ n <= FreeBlocks
    /\ alloced_blocks' =
           [alloced_blocks EXCEPT ![current_process] =
               @ \cup (next_block .. next_block + n - 1)]
    /\ next_block' = Bump(n)
    /\ UNCHANGED <<id, ring, cr3, stack_mem, kernel_stack_top, user_stack_mem,
                   entry_point, app_blocks, schedVars, cpuVars, windowVars,
                   loadVars, freed, next_pid, halted>>

(* SYS_MALLOC of a flat program is kmalloc, and nothing is tracked. *)
FlatMalloc ==
    /\ ~halted /\ current_process # 0 /\ ~HasDirectory(current_process)
    /\ FreeBlocks >= 1
    /\ app_blocks' =
           [app_blocks EXCEPT ![current_process] = @ \cup {next_block}]
    /\ next_block' = Bump(1)
    /\ UNCHANGED <<id, ring, cr3, stack_mem, kernel_stack_top, user_stack_mem,
                   entry_point, alloced_blocks, schedVars, cpuVars, windowVars,
                   loadVars, freed, next_pid, halted>>

(* SYS_FREE of a flat program, of a block it has. *)
FlatFree ==
    /\ ~halted /\ current_process # 0 /\ ~HasDirectory(current_process)
    /\ \E b \in app_blocks[current_process] :
          /\ freed' = freed \cup {b}
          /\ app_blocks' = [app_blocks EXCEPT ![current_process] = @ \ {b}]
    /\ UNCHANGED <<id, ring, cr3, stack_mem, kernel_stack_top, user_stack_mem,
                   entry_point, alloced_blocks, schedVars, cpuVars, windowVars,
                   loadVars, next_block, next_pid, halted>>

-----------------------------------------------------------------------------
(* load_program, run by the system task with interrupts enabled. *)

SystemAt(label) == ~halted /\ current_process = 0 /\ pc = label

(* The first slot of the table that is UNUSED. *)
FirstUnused(i) ==
    /\ state[i] = "UNUSED"
    /\ \A j \in Slots : state[j] = "UNUSED" => i <= j

(* load_program returns, having done kfree on `blocks`. *)
Return(blocks) ==
    /\ freed' = freed \cup blocks
    /\ pc' = "idle" /\ slot' = 0 /\ code' = 0

(* kmalloc(bin_size) for the file; without memory load_program just fails. *)
LoadFile ==
    /\ SystemAt("idle") /\ FreeBlocks >= 1
    /\ code' = next_block
    /\ next_block' = Bump(1)
    /\ pc' = "loaded"
    /\ UNCHANGED <<tableVars, schedVars, cpuVars, windowVars, freed, slot,
                   next_pid, halted>>

(* A disk error, or no slot for the program: kfree(code). *)
LoadFails ==
    /\ SystemAt("loaded")
    /\ Return({code})
    /\ UNCHANGED <<tableVars, schedVars, cpuVars, windowVars, next_block,
                   next_pid, halted>>

(* The stacks of a new process in slot i: its kernel stack, then (if `need`
   is 2) its user stack.  When the heap has fewer than `need` blocks left the
   kernel stack is freed and the slot given back.  `extra` are the blocks
   load_program frees in either case, `onFailure` those it frees on failure. *)
BuildProcess(i, need, extra, onFailure) ==
    LET got == IF FreeBlocks >= need THEN need ELSE FreeBlocks
        ok  == got = need
    IN /\ id' = [id EXCEPT ![i] = next_pid]
       /\ next_pid' = next_pid + 1
       /\ sleep_ticks' = [sleep_ticks EXCEPT ![i] = 0]
       /\ stack_mem' =
              [stack_mem EXCEPT ![i] = IF got >= 1 THEN next_block ELSE 0]
       /\ kernel_stack_top' =
              [kernel_stack_top EXCEPT ![i] = IF got >= 1 THEN next_block ELSE @]
       /\ user_stack_mem' =
              [user_stack_mem EXCEPT ![i] =
                  IF ok /\ need = 2 THEN next_block + 1 ELSE 0]
       /\ next_block' = Bump(got)
       /\ esp' = [esp EXCEPT ![i] = IF ok THEN next_block ELSE @]
       /\ state' = [state EXCEPT ![i] = IF ok THEN "READY" ELSE "UNUSED"]
       /\ IF ok
          THEN /\ pc' = "link" /\ slot' = i /\ code' = 0
               /\ freed' = freed \cup extra
          ELSE Return(extra \cup onFailure \cup
                      (next_block .. next_block + got - 1))
       /\ UNCHANGED <<app_blocks, current_process, cpuVars, windowVars, halted>>

(* process_create for a flat binary, in ring 0 or (CRASH) ring 3. *)
CreateFlat(r) ==
    /\ SystemAt("loaded")
    /\ \E i \in Slots :
           /\ FirstUnused(i)
           /\ ring' = [ring EXCEPT ![i] = r]
           /\ cr3' = [cr3 EXCEPT ![i] = 0]
           /\ entry_point' = [entry_point EXCEPT ![i] = code]
           /\ alloced_blocks' = [alloced_blocks EXCEPT ![i] = {}]
           /\ BuildProcess(i, IF r = 3 THEN 2 ELSE 1, {}, {code})

(* An ELF file: load_program first marks a slot CREATED. *)
ReserveSlot ==
    /\ SystemAt("loaded")
    /\ \E i \in Slots :
           /\ FirstUnused(i)
           /\ state' = [state EXCEPT ![i] = "CREATED"]
           /\ slot' = i
    /\ pc' = "reserved"
    /\ UNCHANGED <<tableVars, sleep_ticks, esp, current_process, cpuVars,
                   heapVars, windowVars, code, next_pid, halted>>

(* elf_load takes one more block for the process: the page directory at
   first, then pages and page tables. *)
TrackBlock ==
    /\ FreeBlocks >= 1
    /\ alloced_blocks' = [alloced_blocks EXCEPT ![slot] = @ \cup {next_block}]
    /\ next_block' = Bump(1)
    /\ pc' = "mapping"
    /\ UNCHANGED <<id, ring, stack_mem, kernel_stack_top, user_stack_mem,
                   entry_point, app_blocks, schedVars, cpuVars, windowVars,
                   freed, slot, code, next_pid, halted>>

CreateDirectory ==
    /\ SystemAt("reserved")
    /\ cr3' = [cr3 EXCEPT ![slot] = next_block]
    /\ TrackBlock

MapPage ==
    /\ SystemAt("mapping")
    /\ UNCHANGED cr3
    /\ TrackBlock

(* elf_load returns 0: a bad header, no memory, or an entry point of 0.  What
   it took stays in alloced_blocks of the slot. *)
ElfRejected ==
    /\ SystemAt("reserved") \/ SystemAt("mapping")
    /\ state' = [state EXCEPT ![slot] = "UNUSED"]
    /\ Return({code})
    /\ UNCHANGED <<tableVars, sleep_ticks, esp, current_process, cpuVars,
                   windowVars, next_block, next_pid, halted>>

(* process_create_elf, then kfree(code): the segments have been copied.  The
   user stack is tracked in alloced_blocks too. *)
CreateElf ==
    /\ SystemAt("mapping")
    /\ ring' = [ring EXCEPT ![slot] = 3]
    /\ entry_point' = [entry_point EXCEPT ![slot] = 0]
    /\ alloced_blocks' =
           [alloced_blocks EXCEPT ![slot] =
               IF FreeBlocks >= 2 THEN @ \cup {next_block + 1} ELSE @]
    /\ BuildProcess(slot, 2, {code}, {})
    /\ UNCHANGED cr3

(* The window whose title matches, if any, is linked and focused: unless it
   is on top already, it is missing from window_order for a moment. *)
LinkWindow ==
    /\ SystemAt("link")
    /\ \/ /\ pc' = "idle"
          /\ UNCHANGED windowVars
       \/ \E w \in Windows :
             /\ window_pid' = [window_pid EXCEPT ![w] = id[slot]]
             /\ \/ pc' = "idle" /\ UNCHANGED unlisted
                \/ pc' = "focus" /\ unlisted' = {w}
    /\ slot' = 0
    /\ UNCHANGED <<tableVars, schedVars, cpuVars, heapVars, code, next_pid,
                   halted>>

(* focus_window for a click: window_order is shifted, ... *)
FocusBegin(w) ==
    /\ SystemAt("idle")
    /\ pc' = "focus" /\ unlisted' = {w}
    /\ UNCHANGED <<tableVars, schedVars, cpuVars, heapVars, window_pid, slot,
                   code, next_pid, halted>>

(* ... and the window put back at its end. *)
FocusEnd ==
    /\ SystemAt("focus")
    /\ pc' = "idle" /\ unlisted' = {}
    /\ UNCHANGED <<tableVars, schedVars, cpuVars, heapVars, window_pid, slot,
                   code, next_pid, halted>>

-----------------------------------------------------------------------------
LoadStep == \/ LoadFails
            \/ \E r \in {0, 3} : CreateFlat(r)
            \/ ReserveSlot
            \/ CreateDirectory
            \/ MapPage
            \/ ElfRejected
            \/ CreateElf
            \/ LinkWindow
            \/ FocusEnd

(* Programs may ask for as much memory as the heap has. *)
ProgramStep == \/ \E n \in 1 .. HeapBlocks : UserMalloc(n)
               \/ FlatMalloc
               \/ FlatFree

Next == \/ TimerIrq
        \/ \E t \in SleepTicks : Sleep(t)
        \/ \E t \in SystemSleepTicks : SystemSleep(t)
        \/ Exit
        \/ UserPageFault
        \/ KernelPageFault
        \/ ProgramStep
        \/ LoadFile
        \/ LoadStep
        \/ \E w \in Windows : FocusBegin(w)

Spec == Init /\ [][Next]_vars

(* The processor executes the instructions of the process it runs: a load or a
   focus_window that has begun goes on while the system task has the CPU.  If
   the timer is let through at all, it goes on interrupting.  Nothing is assumed
   of the programs: they may compute, or sleep, for ever. *)
Fairness == WF_vars(LoadStep) /\ WF_vars(TimerIrq)

FairSpec == Spec /\ Fairness

-----------------------------------------------------------------------------
(* Properties. *)

Live(i) == state[i] \in {"READY", "RUNNING", "SLEEPING", "TERMINATED"}

(* The heap blocks slot i refers to. *)
Owned(i) ==
    ({stack_mem[i], user_stack_mem[i], entry_point[i]} \cup alloced_blocks[i])
        \ {0}

(* The blocks slot i answers for, with those only its program knows: a slot
   that is not in use, or is being built, answers for its alloced_blocks. *)
Holds(i) ==
    IF Live(i) THEN Owned(i) \cup app_blocks[i] ELSE alloced_blocks[i]

Building == pc \in {"reserved", "mapping"}
HasCode == pc \in {"loaded", "reserved", "mapping"}

(* scheduler_switch leaves exactly one process RUNNING, the current one, and
   load_program's bookkeeping of the table never adds another. *)
RunningIsCurrent ==
    \A i \in Slots : state[i] = "RUNNING" <=> i = current_process

(* The three things a context switch has to change together -- the kernel
   stack (returned ESP), TSS.esp0 (update_tss_esp0) and CR3 -- belong to the
   current process, and none of them lies in memory that has been freed:
   the process that exits keeps its stack until another one runs. *)
CpuContext ==
    /\ cpu_stack = kernel_stack_top[current_process]
    /\ tss_esp0 = kernel_stack_top[current_process]
    /\ cpu_cr3 = cr3[current_process]
    /\ cpu_stack \notin freed
    /\ cpu_cr3 \notin freed

(* A process that waits resumes on the frame saved on its own kernel stack:
   no interrupt was taken on the stack of another process. *)
SavedFrames ==
    \A i \in Slots :
        state[i] \in {"READY", "SLEEPING"} => esp[i] = stack_mem[i]

(* What a context switch relies on and leaves behind. *)
ContextIsKept == RunningIsCurrent /\ CpuContext /\ SavedFrames

(* A slot is CREATED while load_program builds it and only then; CREATED is
   runnable for scheduler_switch, so this says that no timer interrupt
   dispatches a process without a stack and an entry point. *)
HalfBuiltNeverRuns ==
    \A i \in Slots : state[i] = "CREATED" <=> (Building /\ i = slot)

(* While the system task is inside load_program or focus_window, nothing else
   runs: the kernel heap, the table and window_order have no lock. *)
LoaderNotPreempted == pc # "idle" => current_process = 0

(* A process under construction is the loader's alone. *)
LoadIsPrivate == HalfBuiltNeverRuns /\ LoaderNotPreempted

(* No kfree hits a block some process, or load_program, still uses, ... *)
NoUseAfterFree ==
    /\ \A i \in Slots : Holds(i) \cap freed = {}
    /\ HasCode => code \notin freed

(* ... because no block ever has two owners. *)
SingleOwner ==
    /\ \A i, j \in Slots : i # j => Holds(i) \cap Holds(j) = {}
    /\ HasCode => \A i \in Slots : code \notin Holds(i)

(* Reaping, exit and the failures of load_program free every block once, and
   none that is still used. *)
MemorySafe == TypeOK /\ NoUseAfterFree /\ SingleOwner

(* A process that terminated never runs again, and when its slot is given
   back everything it referred to has been freed. *)
DeadStaysDead ==
    [][\A i \in Slots : state[i] = "TERMINATED" =>
          \/ state'[i] = "TERMINATED"
          \/ state'[i] = "UNUSED" /\ Owned(i) \subseteq freed']_vars

(* A window loses its process only when that process is gone: reaping one
   process does not close the window of another. *)
LiveKeepsWindow ==
    [][\A w \in Windows : window_pid[w] # 0 /\ window_pid'[w] = 0 =>
          \A i \in Slots : Live(i)' => id'[i] # window_pid[w]]_vars

(* scheduler_switch takes from the dead what they had, and nothing from others. *)
ReapsOnlyTheDead == DeadStaysDead /\ LiveKeepsWindow

(* load_program and focus_window return to the loop of the system task, however
   often the timer interrupts them: the loop is the desktop, and no program gets
   the CPU in the middle. *)
LoadReturns == pc # "idle" ~> (pc = "idle" \/ halted)

(* process.c: "Preemptive priority-based Round-Robin scheduler": a process that
   is READY gets the CPU. *)
ReadyRuns ==
    \A i \in Slots : state[i] = "READY" ~> (state[i] = "RUNNING" \/ halted)

=============================================================================
