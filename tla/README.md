# A TLA+ model of SQ-OS

SQ-OS is a small 32-bit operating system: a boot sector, a kernel in C and
assembly, a graphical desktop that runs inside the kernel, a scheduler for
programs in ring 0 and ring 3, a bump-allocated kernel heap, a FAT12 driver, a
network stack with one TCP connection, and a handful of applications.  This
directory models it in TLA+: `*.tla` are the modules, `*.cfg` the
model-checking configurations, `PROJECT.json` the index (components, runs,
source map, hazards, theorems).

    tlc -config SchedulerSafety.cfg SchedulerMC.tla     # check one run
    tlapm SchedulerProofs.tla                           # check the proofs

Paths below are relative to the repository root.

## 1. Inventory

| Component | State it keeps | Operations | Talks to | What makes it correct | Modules |
|---|---|---|---|---|---|
| Process table and scheduler, `kernel/process.c` | `process_table[8]`, `current_process`, `next_pid` | `process_init`, `process_create`, `process_create_elf`, `process_exit`, `sys_sleep`, `page_fault_handler`, `scheduler_switch` | heap, windows (closes them), TSS, CR3 | one RUNNING process, contexts saved and restored together, memory freed once and never while in use, sleeps not drawn out; who is ready should run | Scheduler, SleepTiming |
| Interrupt entry, `kernel/entry.asm`, `kernel/tss.c` | stack pointer, TSS.esp0, CR3; the PIC's in-service bits and masks | `timer_isr`, `keyboard_isr`, `syscall_isr`, `page_fault_isr` | scheduler, system calls, text shell | a frame lies on the stack of the process interrupted; no handler is entered inside itself | Scheduler, TextShell |
| Program loader, `kernel/loader.c` | a reserved slot and a file buffer during a call | `load_program` | FAT12, ELF loader, process table, heap, windows | every failure path gives back what it took; nobody sees a half-built process | Scheduler |
| ELF loader and page tables, `kernel/elf.c`, `kernel/paging.c` | a page directory, `alloced_blocks` of a slot | `elf_load`, `map_user_page` | heap, process slot | a program finds its segments as linked; every block is tracked, and the list not overrun | UserHeap, Scheduler |
| System calls, `kernel/syscall.c` | call counters | print, malloc, free, time, exit, sleep | scheduler, heap | what is granted is mapped, where there is a table for it, and nobody else's | Scheduler, UserHeap |
| Kernel heap, `kernel/memory.c` | bump pointer, counters, headers in memory | `kmalloc`, `kfree`, `heap_stats` | everybody, also from the timer interrupt | no overlap, exact counters | Heap |
| Boot and text shell, `boot/boot.asm`, `kernel/kernel.c` | PIC masks, cursor, line buffer, `system_ticks` | boot, `keyboard_handler`, `dispatch_command`, mode switches | desktop, `net_poll` | the handler does not run inside itself; the shell should go on hearing keys | TextShell |
| Real-time clock, `kernel/rtc.c` | - | `read_rtc` | the chip | what is read is a time there was | Rtc |
| Window manager, `kernel/window_manager.c` | `window_order[9]`, per window visible, active, pid | `init_windows`, `focus_window` | desktop, loader, reaper | a permutation; one active window, on top | WindowManager, Desktop, Scheduler |
| Desktop, `kernel/desktop.c` | mouse packet, cursor, dragged window, menu, settings, calculator | `run_gui_loop`, `handle_click_event`, `calc_press` | everything graphical | packets stay in step, drags keep their window, controls act where they are drawn, focus follows clicks, sums are right | Desktop, MousePacket, Buttons, Calculator |
| Graphics, `kernel/graphics.c` | the back buffer and the screen | `draw_rect`, `draw_text`, `draw_text_clipped`, `swap_buffers` | every window | nothing is drawn outside its place | Graphics |
| Terminal, `kernel/terminal_app.c` | line, recall list, eight lines of output, 0xE0 flag | `terminal_handle_key`, the commands | loader, network, FAT12 | recall walks the history, the window shows the last lines, commands end | Terminal, Ping, HttpClient, AddressText, Screenshot |
| TCP, `net/tcp.c` | one connection: state, seq, ack, receive ring | `tcp_connect`, `tcp_send`, `tcp_recv`, `tcp_close`, `tcp_handle_packet` | IP, its three callers | both ends agree; bytes are those of the present connection | Tcp, ByteStream, InetChecksum |
| ARP, IP, ICMP, `net/` | ARP cache, reply flag | `arp_update_cache`, `ip_send`, `icmp_handle_packet`, `net_poll` | NE2000, TCP, terminal | an entry is the latest mapping heard; a host that answers is reached | Ping, InetChecksum |
| NE2000, PCI, `drivers/` | `next_packet_page`; nothing | `ne2k_init`, `ne2k_receive`; `pci_find_device` | card registers | frames whole and in order, also when the desktop interrupts the idle loop; the card is found | Ne2000, Pci |
| FAT12, `fs/fat12.c` | the disk: directory, clusters | list, find, read, create, write, delete | loader, notes, packages, browser | names unique, sizes cover what was written, reads find it | Fat12 |
| Package manager, `kernel/sqpkg.c` | the package database on disk | update, search, install, remove, `download_file` | TCP, FAT12, heap | no buffer leaks, no half of a file | SqPkg, HttpClient |
| Browser, `kernel/browser_app.c` | URL, response, scroll position, line starts, bookmarks | `browser_load_url`, drawing, keys, clicks | TCP, FAT12 | the page shown is the response's text | BrowserPage, Bookmarks, HttpClient, AddressText |
| Notes, Snake, `apps/` | text buffer; snake, food | key handlers, drawing | desktop, FAT12 | text, file and screen agree; a living snake is in nobody's way | NotesApp, Snake |

Where it is hard.  *Interrupts:* the system task (slot 0) runs the desktop, the
loader and the heap with interrupts enabled and without a lock; the timer
interrupt is written to preempt it anywhere, and `scheduler_switch` then frees
memory, closes windows and reuses slots.  Once ESC has left the desktop, the
keyboard interrupt can start it again inside itself, on top of an idle loop that
polls the network card.  *Partial failure:* a program load takes dozens of
blocks one by one, a file write is several disk requests.  *Bounded tables:* 8
processes, 32 tracked blocks, 16 ARP entries, one TCP connection with one ring,
8 lines of terminal.  *Devices and hosts* that act between any two of our
steps: the card stores frames, the clock ticks, segments come late or twice.
*Stale data* behind arrays whose used part shrinks: line starts of the browser,
the body of the snake, the recall list.

One fact of the build colours everything: the mask 0xFD (`src/boot/boot.asm:88`)
lets IRQ1 through and nothing else, and `init_vga_mode13` and
`restore_text_mode` change bit 1 only.  So IRQ0 never comes: `timer_isr` runs
only through the software interrupts `int $32` of `sys_sleep` and
`process_exit`, `run_gui_loop` calls neither, and `system_ticks` stands still.
Nor does IRQ2, on which the second PIC with the mouse's IRQ12 is.  Scheduler has
the constant `TimerUnmasked`.  Its safety is checked and proved with the timer,
for which the code is written, and so a fortiori without; what becomes of
programs in the build as it is, is a run of its own that fails
(scheduler_starved).  No property assumes that `system_ticks` advances.

## 2. Modules and how they correspond to the code

Operators named `X_Mut...` are faulty variants of X, part of no specification;
replacing X by one of them shows which property notices that fault
(`PROJECT.json`, "mutants").

### Scheduler.tla

The process table, the scheduler, the interrupt service routines that call it,
the system calls that matter to it and the program loader.

*Grain.*  One step is what happens between two points at which an interrupt can
be taken.  The gates of `entry.asm` are interrupt gates (`make_gate`, 0x8E and
0xEE), so a handler is one step: `TimerIrq`, `Sleep`, `Exit`, `UserPageFault`
are all `scheduler_switch` with a different state of the interrupted process,
and each includes the whole function, in its order: save ESP, reap, tick, wake,
choose, switch CR3 (`Switch`) and then TSS.esp0 and the stack (`Resume`).
`load_program` and `focus_window` run with interrupts enabled and are several
steps with a program counter `pc`:

    idle -> loaded -> link -> idle|focus          flat binary
    idle -> loaded -> reserved -> mapping* -> link   ELF
    any failure -> idle

The cuts are at the accesses other parties can see: `ReserveSlot` writes the
state of a slot, each `TrackBlock` takes one heap block, `LinkWindow` writes the
pid of a window, `focus` is the moment a window is missing from `window_order`.
`process_create` is a single step: the slot stays UNUSED until its last
assignment, so neither the reaper nor the choice of the next process looks at
what it is writing.

*State.*  `state`, `id`, `ring`, `cr3`, `esp`, `stack_mem`, `kernel_stack_top`,
`user_stack_mem`, `entry_point`, `alloced_blocks`, `sleep_ticks` are the fields
of `Process`; `current_process`, `next_pid` the globals.  `cpu_stack`, `cpu_cr3`
and `tss_esp0` are the CPU.  `app_blocks` is what a flat program knows and the
kernel does not.  `window_pid` and `unlisted` are what the reaper sees of the
windows.

*Abstraction.* The heap never reuses an address (see Heap), so a block is named
by its position in the history of successful allocations; sizes are abstracted
and the heap serves `HeapBlocks` allocations. A stack is named by its block, so
`esp = stack_mem` means "the frame lies on this stack"; 0 is the boot stack, the
kernel's page directory, NULL, and an ELF entry point (a user address, which the
bounds and magic checks of `kfree` ignore). Failures of disk, file format and
memory are nondeterministic. A page table missing for the stack of an ELF
process counts as one more `MapPage`. Both outcomes of comparing window titles
are possible. The running system task may free only what it allocated: the
temporary buffers of the package manager behave like `LoadFile` followed by
`LoadFails`. `TimerIrq` needs `TimerUnmasked`, which is FALSE in the build.
`SystemSleep`, a `sys_sleep` of the system task, is in no loop of the code;
`SystemSleepTicks` is `{}` for the build, and the safety run has it because
`kernel/process.c` provides for it.

*Priority* is a function of the slot: `process_init` gives slot 0 PRIO_HIGH and
both creation functions give PRIO_NORMAL.

### The rest of the kernel

**SleepTiming** extends Scheduler with two history variables, the argument of
the current sleep and the timer interrupts seen since.

**Heap** is `kmalloc`, `kfree`, `heap_stats` with addresses: alignment, header,
32-bit wrap-around (`WordLimit` stands for 2^32).  Because the reaper calls
`kfree` from the timer interrupt, `kmalloc` is split into block and counters,
and a `kfree` of the system task into reading `used_payload` and writing it
back.  A second `kmalloc` cannot interrupt the first: that is `LoadIsPrivate`
of Scheduler.

**UserHeap** is the memory of one ELF process: `elf_load` byte by byte of its
pages (`LoadPage` is one round of its inner loop), the stack of
`process_create_elf`, `map_user_page`, and `user_space_malloc` with a step for
each page (`MallocPage`), against the list of tracked blocks. A load that fails
leaves its blocks in the slot, and `LoadAgain` appends to them. Every `kmalloc`
may fail: without a table `map_user_page` says nothing and the page is not there
(`lost`). An append to a full list, by `elf_load`, by `process_create_elf` or in
the loop of `user_space_malloc`, is `LoadOverruns` or `MallocOverruns` and leads
to "overrun", where the memory behind `alloced_blocks` has been written.

**TextShell** is what decides whether a key gets through: the masks from the
boot sector and the mode switches, the interrupt flag, the interrupt in service,
and the byte the PS/2 controller may hold for the mouse.  A key is one step,
except the `gui` command, which runs the desktop inside the handler with
interrupts enabled: between `GuiCommand`, `LeaveGui` and `GuiCommandEnds`,
`in_service` and `depth` say what the PIC lets through.  After ESC `kernel_main`
prints its prompt with interrupts already enabled; since nothing but the screen
is written there, and the screen is left out, a key may come at once.

**Rtc** reads three registers of a chip that may begin an update between any
two of them; BCD and the hour format are constants.

### Network

**Tcp** has one action per API call, per round of the waiting loop of
`tcp_connect` and per segment handled; `tcp_handle_packet` is cut into the
branches of the code (`HandleSynSent`, `HandleReset`, `HandleData`,
`HandleFin`, `Dropped`).  Servers and network are external; sequence numbers
are modulo `SeqSpace`.  A byte is its connection and its place in that
connection's stream, so a property can say whose byte is where.  **ByteStream**
is what a caller expects of a connection; Tcp states with
`INSTANCE ByteStream WITH` that it implements it.

**Ping** has the ARP cache, `ip_send` with the drop on a miss, ICMP, and the
terminal's two-phase ping with its polls. **InetChecksum** computes the
checksums with the byte order of the processor, and the receiver's with that of
the wire. **Ne2000** has `ne2k_receive` in three steps (read CURR, read the
frame, give the pages back) with the card free to store between them, and with
its two callers: the idle loop of `kernel_main`, and the desktop that
`keyboard_isr` runs on top of it (`KeyStartsDesktop`, `Resumes`). A call that is
interrupted in the middle finds another `next_packet_page` and another remote
DMA if the desktop has used the card; what it then reads depends on the port
access it was at, so the step allows both the undisturbed outcome, where one
exists, and "confused", of which nothing is said any more. **Pci** is the
search, one step per probe, counters with their widths. **HttpClient** has the
three receive loops (package manager, terminal, browser), each one iteration per
step, with the header automaton. **AddressText** has the parsers of addresses
and URLs as recursive functions over the text, beside the notation itself.

### Desktop

**WindowManager** is `init_windows` and `focus_window` on records `[order,
visible, active]`; **Desktop** is a mouse packet (press, drag, release), ESC and
a key in terms of it, in the real coordinates. **MousePacket** assembles the
packets from bytes. **Buttons** compares, pixel by pixel, where controls are
drawn with where presses act. **Graphics** has the primitives, on memory that
extends past both ends of the buffer. **Terminal** has the key decoder, the
recall list, and each command, the subcommands of `sqpkg` included, as the
number of lines it appends. **Snake**, **Calculator** and **BrowserPage** have
one action per key, click, step or drawing; the arrays that outlive a game or a
page keep what was in them.

### Storage

**Fat12** splits a write into its disk requests, and a power failure, an error
or a lost request may come at each; it keeps as history what a read has been
promised to find. A directory sector that cannot be read ends the listing
without a word, and `fat12_list_root` stops after FAT12_MAX_FILES files: a write
that misses its file this way goes to cluster 3 and may report success, and the
history `missed` has its name. **NotesApp**, **Bookmarks**, **SqPkg** and
**Screenshot** use files, or raw sectors, in the way their code calls `fs/fs.h`
and `fs/fat12.h`, each call with its failures. A command of SqPkg goes from one
such call, allocation or download to the next (`command` says how far it is),
and the unpacking loop takes a step for each file.

### Composition

Within a module the parts that share state are composed: loader, reaper and
interrupts in Scheduler; shell, PIC and desktop loop in TextShell; cache, card
polling and command in Ping; idle loop, desktop and card in Ne2000; API, segment
handler, servers and network in Tcp. **PartsMC**, **NetworkMC** and
**DesktopMC** put those modules side by side that share no state. A behaviour of
such a composite explores one part, which the variable `part` (`chosen`) picks
initially, and leaves the others in an initial state. Nothing is lost: every
behaviour of every part is a behaviour of the composite, and since no action of
one part reads or writes a variable of another, interleaving them would reach no
further state of any part. A composite `EXTENDS` the parts that theorems are
about, so that the runs and the proofs speak of the same definitions; such a
part prefixes its `Init`, `Next` and `vars` (`CardInit`, `FatNext`, `shotVars`,
...). A second copy of Desktop is an instance. The copies of Desktop have
different constants (`desk` and `drag`), since one set of constants large enough
for both questions would be needlessly big; and the terminal is one part
explored under two restrictions (`typing`: two characters, few lines of output;
`answers`: short lines, every answer).

The places where modules meet without being composed are few and named: what
a `tcp_recv` gives (HttpClient takes a stream whose end may be lost, as Tcp
shows), the disk calls of the storage programs (whole-file success or the
failures Fat12 shows), the reaper's view of windows (Scheduler has `window_pid`
and the moment a window is unlisted, Desktop the order itself).

## 3. What the runs check

| Run | Properties | Result |
|---|---|---|
| scheduler_safety | `ContextIsKept`, `LoadIsPrivate`, `MemorySafe`, `ReapsOnlyTheDead`: contexts, half-built slots, ownership of memory, reaping. `NeverOversleeps`: a sleep lasts no more timer interrupts than asked for | holds |
| scheduler_live | `LoadReturns`: a load, and the window it raises, come to their end | holds |
| parts | the kernel: `HeapSound`, `Accounting`, `UserMemorySound`, `ShellSound`, `ClockIsRead`; what is kept on disk: `Fat12Sound`, `NotesSound`, `SqPkgSound`, `BitmapSound`, `BookmarksSound` | holds |
| tcp_faulty | `RingIsRight`, `EndsAgree`, `ClosedOnce` over two connections and a network that loses, duplicates, reorders and resets | holds |
| tcp_reliable | `ImplementsByteStream` over a network without faults | holds |
| network | `CacheIsRight`, `OldestGoesFirst`, `PingSound`; `PacketAccepted`; `FramesIntact`; `RequestSound`; `AddressSound`; `SearchSound` | holds |
| desktop | `FocusSound`, `DragsSound`, `PacketsSound`, `ControlsSound`, `FrameSound`, `TerminalSound`, `SnakeSound`, `CalculatorSound`, `PageSound` | holds |
| scheduler_starved | `ReadyRuns`: who is READY gets the CPU | violated |
| shell_deaf | `ShellHearsKeys`: while the shell waits, a key reaches it | violated |
| list_overrun | `ListNotOverrun`: `alloced_blocks` is not written behind its end | violated |
| tcp_fin | `ResponseReadable`: what was received before a FIN can be read | violated |
| fat12_overwrites | `OthersUntouched`: a write leaves other files alone | violated |

Most of these names are conjunctions of named parts, each with its own comment
in its module; the parts are the answers to the hazards in `PROJECT.json`.

**Bounds.**  *scheduler_safety:* three slots (the system task and two programs,
so that two programs compete for slots, blocks and windows and a slot is reused
while the other one lives), seven heap blocks (three flat programs one after
the other, or an ELF process with a page and a flat one; memory runs out at
every point of a load), two interchangeable windows (symmetry), program sleeps
of two ticks and system sleeps of three, the least for which both programs run
in one round.  *scheduler_live* has one window and
five blocks: two flat programs beside the system task, or an ELF process.

*parts:* a heap of 120 bytes holds up to four blocks; sizes on both sides of
the alignment and one that never fits, every pointer a block can have, NULL and
pointers outside.  Pages of 16 bytes and tables of 4 pages let segments share
pages and tables and cross tables; a list of 11 entries, of which `malloc`
leaves two free, is overrun by a load after a failed one and by a `malloc` of
several pages.  The input line has its real length.  The clock stands
at every hour's last and first two minutes.

*tcp_faulty:* two connections to one server, so that segments of the first
reach the second; two segments under way, enough to duplicate and reorder; one
byte each way and a ring of one byte; sequence numbers modulo 8 that wrap.
*tcp_reliable:* streams of three bytes in segments of two, a ring of three,
two connections.  *network:* three hosts and two cache slots (eviction), waits
of one and two ticks, one ping with two stimuli; packets of odd and even
length with bytes of four values; six pages of ring with frames of one to
three; responses with every way the blank line can be imitated or cut, longer
than the buffers; every text of up to seven characters over two digits, dot,
space and slash, where `18` is out of range as `256` is in the code; every
placement of cards on two buses with three functions.

*desktop:* four windows and eight points, one on each kind of thing a press can
hit; three windows dragged over three moves to the edges; a mouse on a screen
every move may overshoot; every pixel of every window with controls, and one
window more than the taskbar has room for; a screen of
5 by 4 pixels with positions on every side; lines of two characters with two
commands recalled, and answers of every length in the window of eight lines; a
board of 3 by 2 that the snake can fill but for one cell; integers of five
bits, digits 0, 1 and 6 and a display of two, so that typing and each operation
exceed the range; pages that wrap wherever a line may end, two lines visible.

*The disk, in parts:* three shipped files and one new name in five directory
entries of two per sector, of which three files are listed, so that the listing
is cut both by an error and by its limit; two writes of up to two sectors, a
failure at every request; an editor's buffer of six characters, two per line;
bookmarks that fill their buffer at every combination of lengths; two packages
of two files and one, cut at every byte; a picture whose headers, palette and
rows end inside sectors of four bytes.

History variables and counters are bounded by constants named in the modules
(`MaxMoves`, `MaxLeaves`, `MaxConnections`, `MaxWrites`, ...): beyond a bound an
action is disabled.  `VIEW DeskView` leaves out of the comparison of states what
decides nothing in two of the parts.  `next_pid` and `alloc_count` are bounded by
the number of blocks.

`CHECK_DEADLOCK FALSE` is set where the system really stops: a page fault in
ring 0 halts it (`KernelPageFault`), a full heap leaves nothing to allocate, the
`reboot` command waits for a reset that need not come, a division traps, the
search of the bus and a screenshot are done once, and bounded counters run out.

**Fairness.** Only scheduler_live and scheduler_starved have any.
`WF(LoadStep)`: the system task executes its instructions, so a load or a
`focus_window` that has begun goes on whenever slot 0 has the CPU; it keeps the
CPU during a load, however often the timer interrupts (`LoadIsPrivate`), which
is why `LoadReturns` holds. `WF(TimerIrq)`: if the timer is let through, it goes
on interrupting; with `TimerUnmasked = FALSE` this says nothing. Nothing is
assumed of programs, which may compute or sleep for ever, nor of hosts, servers
or the network. That the loops of `tcp_connect`, of a ping and of the HTTP
clients end is not asserted: they wait for `system_ticks`, which stands still
(section 4). *Pci, Rtc, HttpClient:* that a search, a read or a response comes
out right is an action property or an invariant and needs no fairness.

The system sleeps of scheduler_safety and scheduler_live last as many ticks as
there are slots, since the search for the next process restarts at slot 1 after
every run of slot 0; with fewer, slot 1 would starve slot 2.

## 4. Where the code and what is said of it disagree

The five violated runs are recorded under "findings" with the lines they
contradict: a program that was loaded never runs; a byte of the mouse that
nothing reads keeps every key from the text shell; a `malloc` of several pages
writes behind the list of blocks; received bytes that a FIN makes unreadable; and
files that overwrite each other, since every new file begins at cluster 3 and
grows over what follows.

Other disagreements that showed while modelling; the models follow the code, and
the checked properties are stated with the restriction given:

*Scheduling and memory*

- The search for the next process restarts at slot 1 after slot 0 has run, so a
  system task that slept two ticks would let slot 1 starve slot 2
  (`kernel/process.c:378`).
- With the timer unmasked, `kfree` of the system task, interrupted by a reaping
  between load and store of `used_payload`, would lose an update
  (`kernel/memory.c:107`), and a window linked to a process while `focus_window`
  shifts `window_order` could outlive it.
- What a flat program takes with SYS_MALLOC is not given back when it is reaped
  (`sdk/include/sqos.h:15` says "auto-reclaimed on exit"), and the blocks of a failed ELF
  load are forgotten (`kernel/process.c:106`).
- The `int $32` of another process's sleep counts as a tick: sleeps may be cut
  short, never drawn out (`NeverOversleeps` says the second half).
- `kmalloc` of a size near 2^32 wraps around and returns a block that overlaps
  others (`kernel/memory.c:52`); `HeapSound` is about sizes that do not wrap.
- `elf_load` and `process_create_elf` append to `alloced_blocks` without a check
  (`kernel/elf.c:30`, `:70`, `kernel/process.c:447`), and a load that failed has
  left its blocks in the slot; `UserMemorySound` is about the time before an
  overrun.
- `map_user_page` returns silently without a page table (`kernel/paging.c:88`),
  so `elf_load` and `SYS_MALLOC` go on with a page that is not mapped (`lost`),
  which `LoadedAsLinked` and `GrantsAreMapped` except.

*Boot and text shell*

- The prompt of `kernel_main` is printed with interrupts enabled, and the cursor
  is where the text stood before the desktop (`kernel/kernel.c:455`): a key may
  print into the middle of it.
- `scroll_screen` leaves the cursor in a row with text (`kernel/kernel.c:114`).
- The PM bit of a twelve-hour clock is looked for after the BCD conversion
  (`kernel/rtc.c:33`).

*Network*

- Where a peer is silent, `tcp_connect` (`net/tcp.c:128`), a ping and the receive
  loops of `sqpkg`, `http` and the browser wait for `system_ticks` to reach a
  timeout, and it stands still: they hang.
- The idle loop polls the card with interrupts enabled, and the desktop that
  `keyboard_isr` starts polls it too (`kernel/kernel.c:466`, `:176`):
  `ne2k_receive` is entered in the middle of itself, and frames may be read twice
  or torn.  `FramesIntact` is about the time before that.
- Bytes that do not fit into the ring are dropped although they are acknowledged
  (`net/tcp.c:232`), and an acknowledgement may reach past a hole.
- `ack` is set from any segment that arrives: duplicates and reordered segments
  are delivered twice or out of order (`net/tcp.c:228`), which is why
  `ImplementsByteStream` needs a faultless network.
- The sum over the TCP pseudo header mixes byte orders (`net/tcp.c:35`), so a
  receiver that verifies checksums drops every segment; packets of IP and ICMP
  are right (`PacketAccepted`).
- `NE_RCR` names a register of the remote DMA (`drivers/ne2000.c:82`): broadcasts
  are accepted only if the reset value says so.
- Any echo reply counts as the answer of the ping that waits (`net/icmp.c:56`).
- The `http` command checks characters and dots of an address only
  (`kernel/terminal_app.c:746`).

*Desktop*

- ESC between two bytes of a mouse packet leaves the rest to be taken for a new
  one (`kernel/desktop.c:752`), and a drag that ESC interrupts goes on when the
  desktop is entered again: `GrabPointStays` and the packet properties
  are about a desktop that has not been left.
- The rows of the title bar above the file list round to the first file
  (`kernel/desktop.c:418`): pressing there opens it and drags the window behind.
- An arrow key never recalls a command, since its prefix 0xE0 is dropped as a key
  release (`kernel/terminal_app.c:882`); recall is modelled from its function on.
- The browser cuts the last line of a page by what an earlier page left behind
  (`kernel/browser_app.c:498`).
- A grown snake is drawn with a stale segment for one step (`apps/snake.c:84`),
  and two turns between steps reverse it (`apps/snake.c:44`).
- The cursor of Notes, `_`, has no glyph (`kernel/graphics.c:152`).

*Files*

- A directory sector that cannot be read ends the listing (`fs/fat12.c:116`), and
  `fat12_find_file` looks at 16 files only (`:146`): a write misses a file that
  is there, writes to cluster 3, creates it a second time or sets the size of the
  old entry, and may report success (`:364`).  `Fat12Sound` is about the names
  this has not happened to (`missed`).  Moreover a write whose DRQ never comes is reported as
  done (`fs/fat12.c:260`).
- `sqpkg`: the size check wraps (`kernel/sqpkg.c:337`), a last line without
  newline is not searched (`:203`), and failed writes are reported complete (`:347`).
- A screenshot ignores the results of its writes (`kernel/terminal_app.c:636`)
  and goes to the sectors from 82 on, which the boot sector loads as the kernel
  (`:632`).
- Notes: the character that ends a full line is not drawn (`apps/notes.c:114`); a
  failed open leaves a mixture of two texts (`apps/notes.c:11`); the status line
  outlives its text (`kernel/desktop.c:446`).

## 5. What is proved

For every value of the constants, with TLAPS, under the assumptions on constants
that the modules name.  No proof step is left out.

*SchedulerProofs.*  The invariants of the run are not inductive: that
`cpu_stack` is the current kernel stack needs that saved frames lie on the right
stacks, which needs that no half-built slot is selected, which needs the
priorities; that freeing is safe needs unique ownership.  The inductive
invariant `IndInv` is the conjunction of four groups, proved in layers, each
relying on the ones before:

  - `Control`: types, `RunningIsCurrent`, `HalfBuiltNeverRuns`,
    `LoaderNotPreempted`, and `SystemTaskLives` (slot 0 is READY, RUNNING or
    SLEEPING and in ring 0).  The key step: a load in progress keeps slot 0
    runnable and slot 0 alone has the highest priority, so every switch selects
    it again.
  - `Context`: `StackIsTop`, `CpuOfCurrent`, `SavedFrames`.
  - `Memory`: `NoUseAfterFree` and `SingleOwner`, with `BlocksHandedOut`
    (nobody refers to a block not allocated yet), `DirectoryTracked` (a page
    directory is one of its process's tracked blocks), `OnlyLiveAllocate` and
    `AppBlocksApart` (what a flat program allocates is none of the blocks its
    table entry refers to).
  - `Pids`: pids of live processes differ, none is 0.

The lemma `SwitchEffect` reduces the passes of `scheduler_switch` over the table
to one statement, `BuildSteps` does the same for the two creation functions, and
each group has one lemma for switches, one for the steps of the system task and
one for system calls.  From `IndInv` follow `ContextIsKept`, `LoadIsPrivate`,
`MemorySafe` and `ReapsOnlyTheDead`, whose parts are theorems of their own.
`NeverOversleeps` is about the specification of SleepTiming: by `SleepInv` the
counter of a sleeper and the interrupts it has seen add up to at most what it
asked for, and every pass of `scheduler_switch` over the table moves one from
the first to the second or leaves both.  Assumed: `ConstantsAssumption` (a table
with at least one slot; numbers are natural).

*KernelProofs.*  `HeapInv` adds to `BlocksInHeap` and `BlocksDisjoint` that what
has been counted fits into what has been handed out (`Counted`, also in the
middle of an interrupted `kmalloc` or `kfree`).  `Accounting` compares counters
with the number of addresses in live blocks (`LiveBytes`); `AccountInv` says
what each of the half-done operations has still to count, and the lemmas are
about the cardinality of intervals that do not meet.  The theorems have the
hypothesis `NoWrap`, no size makes the end address wrap around 2^32.  Assumed:
`HeapAssumption` (the heap starts at a multiple of 8, ends well below 2^32,
sizes are words).

`ShellSound` follows from `Served`: the keyboard handler is on the stack exactly
while its interrupt is in service, which is only while the desktop runs inside
it or has just been left, or `reboot` hangs. What the controller holds for the
mouse is not part of it, so the theorem does not say that a key arrives:
`ShellHearsKeys` is false. `ClockIsRead` follows from `ClockInv`: since the wait
ends with no update due, the clock stands still while the registers are read,
and what has been read are digits of the time it stands at (`DecimalOfCoded`, in
either format); its hypothesis is a clock of 24 hours (see section 4 for the
other one). `UserMemorySound` follows from `UserInv`: the segments before the
present one are in place and so is the present one up to `cur_vaddr`, which a
page shared with a later segment keeps since it is zeroed only when it is new;
behind the program whole pages are mapped, or recorded as lost for want of a
table, up to the end of the heap, and up to the page `user_space_malloc` has
come to; and each of them has an entry in the list, so that below the stack
there is room for them all (`RoomAbove`). Loads that failed are part of it,
their blocks stay in the list. The state after an overrun is exempt. Its
hypothesis is `WellLinked`, of which the run's constants are an example:
programs and what they may ask for end below the stack, and the segments of one
program do not overlap. Assumed: `UserHeapAssumption`.

*Recursion.*  What a loop over a text or a packet computes is written in the
modules as a recursive function of the number of characters or bytes read, or as
a fold of the community modules.  The library's theorems on induction and on
recursive functions take operators as parameters, which the provers do not
instantiate; this module proves the same facts about sets and functions
(`StrongInduction`, `LeastExists`, `InductionTo`: a set that contains 0, and i
whenever it contains i - 1, contains all numbers up to n; `RecursionExists`: a
function given by its value at a smaller argument exists; `LoopExists`: the same
for a state that each round of a loop changes).  A proof about a loop then has
three parts: the function exists and is typed, its rounds preserve a relation to
the text read so far, and at the end the relation is the property.

*NetworkProofs.* The ARP cache: `CacheIsRight` needs `FramesTyped` (an ARP frame
on the wire says what is true of its sender), `CacheTyped`, `NoAddressTwice`
(the update looks for the address before it takes a slot) and
`CacheIsLastHeard`; `OldestGoesFirst` needs that the slots were filled in the
order in which `next_arp_idx` goes round them. The network card: for
`FramesIntact` the history variable `pending` holds the frames stored and not
yet read, and `CardInv` says that from the page the driver reads next to CURR
the ring is those frames one behind the other, across its end, and BNRY one page
behind; `OuterIntact`, that a call the desktop has interrupted finds its frame
in the ring as it left it, as long as the desktop has received none. The search
of the PCI bus: the card is at none of the places probed before the present one
(`SearchInv`), and no counter reaches its width.

`ChecksumsAreRight` is about packets of any length: one's-complement sums are sums
modulo W - 1, W the number of values of a word (`FoldIsRemainder`), so the sum of
the packet does not depend on where the carries were added (`TotalsAgree`), and
reading the words in the other byte order multiplies it by B, the number of
values of a byte (`WireIsLittle`); a checksum that completes the sum to 0 for the
sender therefore completes it for the receiver, and a sum that is 0 modulo W - 1
and not 0 folds to all ones (`MultipleFolds`).  `SumInv` says that the field is
zero until the packet is sent, and the sum is all ones afterwards.

`AddressesAreRead` compares the loops of the parsers with the notation, over
prefixes of the text: by `OctetsAreNumbers` the octet under construction is the
number between the last two dots, modulo the values of an octet, and the count
of octets is the number of dots (`NumbersGrow`, `DotsGrow`); hence what is a
dotted address is parsed (`DottedIsParsed`) and what the browser parses is one
(`ParsedAreDotted`).  For `parse_url`, host and path are the text read so far, cut
at the first slash (`UrlKeepsUp`).  Nothing but the type of the text is needed of
the states.

`PingIsAnswered` is about time.  Its invariant, `PingInv`, follows the first
packets and their answers from place to place (`Reached`, `EchoIsOnItsWay`): while
nothing was late, a tick found no frame under way, so what was asked before it
has been answered.  The first attempt loses its packet to the ARP request but
leaves the target in the cache (`UpdateCaches`); the second therefore has its echo
on its way or taken note of.

`ResponsesAreRead` needs of the clients that the timeout has run since the last
byte, and of the scanner `ReadUpTo`: before the blank line, its state is how much
of one the bytes taken end with (`HeaderIsNext`), and behind it the body is what
follows the first (`BodyGrows`).  `ScanningIs` carries this over the bytes of one
`tcp_recv`, however many they are.

Assumed: `PingAssumption` (the waits, 18 ticks in the code, are not zero),
`RingAssumption`, `PciAssumption`, `ChecksumAssumption` (packets shorter than the
square of B, 65536 bytes), `AddressAssumption`, `HttpAssumption` (responses are
finite sequences of bytes, timeouts and receive buffers are not zero).

*DesktopProofs.* `FocusSound` is about an order of windows that clicks, launches
and the reaper all rearrange. The inductive invariant `FocusInv` says that
`window_order` is a permutation, that at most one window is active, that no
visible window is above it, and that one is active unless a process died. The
lemmas are about `focus_window` (`RaisedPermutes`, `FocusIsGood`) and about
closing (`ClosedIsGood`, which needs `TopExists`: among visible windows one is
on top). `DragsSound` follows from `DragInv`: while the button is held, the
dragged window is where `Dropped` puts it for the present position of the mouse;
a grab begins on the title bar, so the offset keeps the window where it is
(`GrabHolds`). `PacketsSound` needs `PacketInv`: the bytes collected and those
on the wire make up the packet the mouse sent (`RestOfPacket`). For `SnakeSound`
the history `trail` of the places the head has been is enough: each segment lies
where the head was as many moves ago. `FrameSound` compares the loops over
pixels with the picture of the back buffer: by `FrameInv` what is drawn lies on
the screen, and since a pixel has one place in the buffer (`PixelsDiffer`), a
rectangle clipped at the borders (`ClippedIs`) and a row of a glyph (`RowIs`)
colour their pixels and no others. `TerminalSound` follows from `TermInv`: in
front of what was entered lies what `push_cmd_hist` keeps (`NewestInFront`),
lines appended push the oldest ones out (`AppendedShows`), and an answer of
fixed length is shorter than the window (`AnswersFit`); the key decoder keeps
the line within its bounds whether it is browsing or typing, with any recall
list.

`CalculatorIsSound` follows from `CalcInv`: the operand remembered is the one that
was typed, if it fitted, and the result is exact, wrapped around.  `Value32Is`
says that the loop of `calc_press` over the digits computes the number they
stand for, wrapped around, `ValuesAgree` that without overflow this is the number
meant, and `DigitsAre` that the digits shown are those of the number.

`PageIsShown` has the invariant that what was drawn last is the text and the
scroll position in range.  The work is in one step, a drawing
(`DrawingIsSound`): the text is the body without its tags (`BodyIsText`, from
`TagsAreOut` about the automaton), and for any contents of `line_starts` from
earlier pages the scan that records line starts and the wrapping of the text go
on side by side (`SideBySideGoesOn`), so that a segment between two starts is a
line (`SegmentIsTheLine`).  Its statement is of all lines but the last, of which
section 4 says what becomes of it.

`ControlsAgree` has the invariant `ButtonsInv`, the press acted on what is under
the mouse, and compares for each window the handler's conditions with the
drawing (`NotesAgree`, `CalcAgrees`, `SettingsAgree`, `BrowserAgrees`, and
`DesktopAgrees` for icons and a taskbar with any windows); the coordinates are
those of the code.

Assumed:
`OrderAssumption`, `DesktopAssumption` (the windows are some of the nine the code
names, the points are pixels), `SnakeAssumption`, `MouseAssumption`,
`GraphicsAssumption`, `TerminalAssumption` (the window has more than six lines),
`CalculatorAssumption`, `PageAssumption` (more line starts than visible lines),
`ButtonsAssumption` (the names of windows differ from each other and from those of
icons).

*TcpProofs, TcpEndsProofs.* `IInv` says that the port counter is the number of
the connection, that a segment under way carries the port and the bytes of its
own connection (`Tagged`), and that a server that answers has an address. Adding
`RingHolds`, the ring contains the pending bytes, gives `RingIsRight`: for a
ring of any size, `StoreData` writes only behind the tail (`FromTailOld`,
`FromTailNew`) and `Recv` moves the head (`Takes`). `ClosedOnce` needs that an
accepted segment is one's own (`AcceptedIsOwn`). For `EndsAgree` the invariant
`EInv` adds that what a segment says was true of its server when it was sent and
stays true (`Truthful`, `Grows`), and that before the end of the handshake the
server has counted no byte of ours; `RemainderOfSum` carries the sums of
sequence numbers across their wrap-around. Lossy, repeating and reordering
networks are included. The refinement `ImplementsByteStream` is
`ClientIsByteStream`: the initial states of Tcp are initial states of
ByteStream, and under an invariant about networks without faults (the segments
under way are the next ones of the server's stream, in order) each action of Tcp
is an action of ByteStream or changes nothing of it; it has the hypothesis
`Orderly`, such a network and a stream that fits into the ring. The theorems
have the hypothesis `PortsSuffice`: no more connections are made than there are
ephemeral ports, 16384 in the code, since with the next one a port comes round
again and a late segment can no longer be told apart. Assumed: `TcpAssumption`.

*StorageProofs.* `Fat12Sound`: `FatInv` adds to the parts of the property `Kept`
(what a file was promised to hold is still on the disk) and `WriteUnderWay`
(what each program counter of a half-done write says of the directory, and that
the sectors written so far hold its data). It is about a disk that answers each
request, those for the directory included, with success or an error
(`RequestsAnswered`; section 4 says what a lost DRQ does), and power may fail at
every step. What a write has overlooked because the listing broke off is in
`missed`, and nothing is claimed of those names but that the directory stays
well-formed; all else is kept, save the files whose sectors another one was
written over (`Victims`). `BookmarksSound`: by `MarksInv` a missing file is an
empty one and a URL leaves room for the end of its line, so that what is written
is what was read and a line more (`BookmarkIsALine`); its hypothesis is that the
file can be read, since a read error is taken for a missing file (section 6).
`BitmapSound`: `ShotInv` says which bytes of the bitmap are in the sectors
written and which in the staging buffer; `QuotientAndRest` and its like do the
arithmetic of sectors and rows. `SqPkgSound`: in `PkgInv` the buffer held is a
function of how far the command is, and the cursor stays within what was
received; its hypothesis is `WellPacked`, that no size field reaches around 2^32
(section 4). Of `NotesSound` the part about the buffer and the file,
`TextIsKept`, is inductive as it stands (`EditorKeepsTheText`): each key leaves
room for the NUL, and a SAVE that breaks off leaves the old length. What is
drawn is a function of it (`EditorIsSound`): by induction along the text the
lines completed and the line under construction are the text read so far, cut
where `Placed` says (`ScanGoesOn`), up to the first NUL (`ScanEnds`). Assumed:
`FatAssumption`, `BookmarksAssumption`, `ScreenshotAssumption`,
`SqPkgAssumption`, `NotesAssumption`.

*Only model-checked.*  Fairness and what follows from it are beyond the prover:
`LoadReturns`.  Every invariant, and every action property, that a run with the
result "holds" checks is stated by a theorem, under the hypotheses named above.

## 6. Not modelled

- *Not modelled:* the wallpaper (a picture computed from positions), the GDT
  (constant), what task manager, file list and panels draw, `dns_resolve` (a fixed
  table), `ne2k_transmit` (copies a frame and waits for nothing),
  `browser_download_page`, the register programming of PIT, VGA and mouse,
  the checks of the FAT12 boot sector, reading the kernel from disk; `legacy/`,
  `gui/`, the SDK's stubs, scripts, generated data and the sample programs, which
  appear as the arbitrary programs of Scheduler.
- *Hazards of the code no model reaches:* local TCP ports repeat after 16384
  connections; `tcp_send` never sends again, so what a lossy network drops is
  lost; the window announced, 1024, is one more than the ring takes; a window
  reaped leaves no window active (visible in `forsaken`); the sixth window has no
  button in the taskbar; a read error while bookmarks are added makes the next
  save write a list without the others; INT_MIN / -1 traps like a division by
  zero; a text opened from the file list is saved as NOTES.TXT; the ARP cache and
  the TCP segment handler, above the driver, are interrupted by the desktop like
  `ne2k_receive` and modelled without it; a key may come into the prompt that
  `kernel_main` prints.
- *Left abstract:* register contents, segment descriptors, names and wording,
  colours, and the timing of devices beyond what an interrupt or a poll can tell.
