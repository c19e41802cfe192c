------------------------------ MODULE UserHeap ------------------------------
(***************************************************************************)
(* The memory of one ELF process: elf_load (kernel/elf.c), the stack that  *)
(* process_create_elf (kernel/process.c) gives it, map_user_page           *)
(* (kernel/paging.c) and the malloc of a Ring 3 process (kernel/syscall.c) *)
(* with the list of the kernel blocks the process holds.                   *)
(*                                                                         *)
(* Addresses are bytes modulo AddressSpace (2^32); a page has PAGE (4096)  *)
(* of them and a page table TABLE (1024) pages.  The blocks of the kernel  *)
(* heap are counted; each kmalloc may fail.  A load that fails leaves the  *)
(* slot with the blocks it listed, and the next load appends to them.      *)
(* When the blocks are given back is in Scheduler.                         *)
(*                                                                         *)
(* An append behind the last entry of alloced_blocks hits alloced_count,   *)
(* which follows it in Process, and the next ones go anywhere: "overrun"   *)
(* is the state from which on nothing is said of the kernel.               *)
(***************************************************************************)
EXTENDS Integers, Sequences, FiniteSets

CONSTANTS
    PAGE, TABLE, AddressSpace,
    HeapFloor,          \* 0x00500000, where max_user_vaddr starts
    StackPage,          \* the page of the stack, that of 0x007FF000
    Programs,           \* what may be loaded: sequences of segments
                        \* [vaddr, memsz, filesz]
    Requests,           \* the sizes asked of malloc
    ListSize, TrackLimit,   \* 32, the entries of alloced_blocks, and 30
    MaxRequests,        \* a bound on the calls of malloc
    MemoryFaults        \* of "page" and "table": which kmallocs may fail

\* Programs lie above the kernel's table, which every directory shares.
ASSUME UserHeapAssumption ==
    /\ PAGE \in Nat \ {0} /\ TABLE \in Nat \ {0}
    /\ AddressSpace \in Nat \ {0} /\ HeapFloor \in 0 .. AddressSpace - 1
    /\ \A prog \in Programs :
          /\ prog \in Seq([vaddr : Nat, memsz : Nat, filesz : Nat])
          /\ \A s \in DOMAIN prog : prog[s].vaddr >= TABLE * PAGE
    /\ Requests \subseteq Nat
    /\ StackPage \in Nat /\ StackPage * PAGE < AddressSpace
    /\ TrackLimit \in Nat /\ ListSize \in Nat /\ TrackLimit < ListSize
    /\ MemoryFaults \subseteq {"page", "table"}

VARIABLES
    load_pc,        \* how far the load, then malloc, is; "failed"; "overrun"
    phdr,           \* the program headers
    segment, cur_vaddr, \* the segment and the address elf_load has come to
    max_user_vaddr,
    pages,          \* [mapped, tables, lost, count, taken]: the pages and tables
                    \* the directory has, those that were lost for want of a table,
                    \* alloced_count, and all blocks the slot has taken
    bytes,          \* what elf_load has put into the bytes of the pages
    user_heap_ptr,
    asked, vpage,   \* malloc: the size asked for, and the page its loop has come to
    grants          \* what malloc has returned: <<address, size>>

userVars == <<load_pc, phdr, segment, cur_vaddr, max_user_vaddr, pages, bytes,
              user_heap_ptr, asked, vpage, grants>>

\* A byte of the file is <<segment, offset>>.
ZERO == <<0, 0>>

PageOf(a) == a \div PAGE
BytesOf(v) == v * PAGE .. v * PAGE + PAGE - 1

\* The first page that begins at the address or behind it: (a + 4095) & ~4095.
PageUp(a) == ((a + PAGE - 1) % AddressSpace) \div PAGE

UserTypeOK ==
    /\ load_pc \in {"start", "segments", "loaded", "running", "mapping", "failed",
                    "overrun"}
    /\ phdr \in Programs /\ segment \in 1 .. Len(phdr) + 1
    /\ {cur_vaddr, max_user_vaddr, user_heap_ptr, asked, vpage} \subseteq Nat
    /\ pages.mapped \subseteq Nat /\ pages.tables \subseteq Nat /\ pages.lost \subseteq Nat
    /\ pages.count \in Nat /\ pages.taken \in Nat
    /\ DOMAIN bytes = UNION {BytesOf(v) : v \in pages.mapped}

UserInit ==
    /\ load_pc = "start" /\ phdr \in Programs /\ segment = 1
    /\ cur_vaddr = 0 /\ max_user_vaddr = HeapFloor
    /\ pages = [mapped |-> {}, tables |-> {}, lost |-> {}, count |-> 0, taken |-> 0]
    /\ bytes = <<>>
    /\ user_heap_ptr = 0 /\ asked = 0 /\ vpage = 0
    /\ grants = {}

-----------------------------------------------------------------------------
(* Taking pages. *)

Fails(kind) == IF kind \in MemoryFaults THEN BOOLEAN ELSE {FALSE}

ListFull == pages.count >= ListSize

\* An append to alloced_blocks that nothing keeps from the end of the list.
Overrun ==
    /\ ListFull /\ load_pc' = "overrun"
    /\ UNCHANGED <<phdr, segment, cur_vaddr, max_user_vaddr, pages, bytes,
                   user_heap_ptr, asked, vpage, grants>>

\* map_user_page: a table that cannot be had is not reported, and one that
\* does not fit into the first 30 of the list is not listed.
map_user_page(m, v, fails) ==
    LET table == v \div TABLE
    IN IF table \in m.tables THEN [m EXCEPT !.mapped = @ \union {v}]
       ELSE IF fails THEN [m EXCEPT !.lost = @ \union {v}]
       ELSE [mapped |-> m.mapped \union {v}, tables |-> m.tables \union {table},
             lost |-> m.lost,
             count |-> IF m.count < TrackLimit THEN m.count + 1 ELSE m.count,
             taken |-> m.taken + 1]

\* A block for a page goes into the list, if this has an entry left; its bytes
\* are zeroed, and it is mapped.
NewPage(v, fails) ==
    map_user_page([pages EXCEPT !.count = @ + 1, !.taken = @ + 1], v, fails)

\* The bytes with those of a new page.
Zeroed(v) ==
    [b \in DOMAIN bytes \union BytesOf(v) |-> IF b \in BytesOf(v) THEN ZERO ELSE bytes[b]]

-----------------------------------------------------------------------------
(* elf_load *)

Vaddr(s) == phdr[s].vaddr
End(s) == (phdr[s].vaddr + phdr[s].memsz) % AddressSpace

\* The next segment, or the end of the load.
Segment(s) ==
    /\ segment' = s
    /\ IF s <= Len(phdr)
       THEN /\ load_pc' = "segments" /\ cur_vaddr' = Vaddr(s)
            /\ max_user_vaddr' = IF End(s) > max_user_vaddr THEN End(s) ELSE max_user_vaddr
            /\ UNCHANGED user_heap_ptr
       ELSE /\ load_pc' = "loaded"
            /\ user_heap_ptr' = PageUp(max_user_vaddr) * PAGE
            /\ UNCHANGED <<cur_vaddr, max_user_vaddr>>

DirectoryMade ==
    /\ load_pc = "start"
    /\ ~ListFull
    /\ pages' = [pages EXCEPT !.count = @ + 1, !.taken = @ + 1]
    /\ Segment(1)
    /\ UNCHANGED <<phdr, bytes, asked, vpage, grants>>

SegmentDone ==
    /\ load_pc = "segments" /\ cur_vaddr >= End(segment)
    /\ Segment(segment + 1)
    /\ UNCHANGED <<phdr, pages, bytes, asked, vpage, grants>>

\* Where the copy into the page of cur_vaddr ends.
CopiedTo ==
    LET next_page == (PageOf(cur_vaddr) + 1) * PAGE
    IN IF next_page < End(segment) THEN next_page ELSE End(segment)

\* The bytes after the copy: those from cur_vaddr to the end of the page or of
\* the segment are from the file, as far as it goes.
Filled(old) ==
    [b \in DOMAIN old |->
        IF b \in cur_vaddr .. CopiedTo - 1 /\ b - Vaddr(segment) < phdr[segment].filesz
        THEN <<segment, b - Vaddr(segment)>> ELSE old[b]]

\* One turn of the loop over the pages of a segment.
LoadPage ==
    /\ load_pc = "segments" /\ cur_vaddr < End(segment)
    /\ LET v == PageOf(cur_vaddr)
       IN \/ /\ v \in pages.mapped
             /\ bytes' = Filled(bytes)
             /\ cur_vaddr' = CopiedTo
             /\ UNCHANGED <<load_pc, pages>>
          \/ /\ v \notin pages.mapped /\ ~ListFull
             /\ \E fails \in Fails("table") :
                   /\ pages' = NewPage(v, fails)
                   /\ bytes' = IF v \in pages'.mapped THEN Filled(Zeroed(v)) ELSE bytes
             /\ cur_vaddr' = CopiedTo
             /\ UNCHANGED load_pc
          \/ /\ v \notin pages.mapped /\ "page" \in MemoryFaults
             /\ load_pc' = "failed"
             /\ UNCHANGED <<pages, bytes, cur_vaddr>>
    /\ UNCHANGED <<phdr, segment, max_user_vaddr, user_heap_ptr, asked, vpage, grants>>

\* process_create_elf: the stack is listed and mapped like a page.
StackMade ==
    /\ load_pc = "loaded" /\ ~ListFull
    /\ \E fails \in Fails("table") :
          /\ pages' = NewPage(StackPage, fails)
          /\ bytes' = IF StackPage \in pages'.mapped THEN Zeroed(StackPage) ELSE bytes
    /\ load_pc' = "running"
    /\ UNCHANGED <<phdr, segment, cur_vaddr, max_user_vaddr, user_heap_ptr, asked, vpage,
                   grants>>

\* No directory or stack, a bad header, or an entry point of 0.
LoadFails ==
    /\ load_pc \in {"start", "loaded"}
    /\ load_pc' = "failed"
    /\ UNCHANGED <<phdr, segment, cur_vaddr, max_user_vaddr, pages, bytes,
                   user_heap_ptr, asked, vpage, grants>>

\* The directory, a page that is not there, or the stack, and the list is full.
LoadOverruns ==
    /\ \/ load_pc \in {"start", "loaded"}
       \/ /\ load_pc = "segments" /\ cur_vaddr < End(segment)
          /\ PageOf(cur_vaddr) \notin pages.mapped
    /\ Overrun

\* The slot of a load that failed is used again: load_program takes it as it is.
LoadAgain ==
    /\ load_pc = "failed" /\ load_pc' = "start"
    /\ phdr' \in Programs /\ segment' = 1
    /\ cur_vaddr' = 0 /\ max_user_vaddr' = HeapFloor
    /\ pages' = [pages EXCEPT !.mapped = {}, !.tables = {}, !.lost = {}]
    /\ bytes' = <<>>
    /\ UNCHANGED <<user_heap_ptr, asked, vpage, grants>>

-----------------------------------------------------------------------------
(* user_space_malloc(size): the loop over the pages takes one at a time. *)

Aligned(size) == (((size + 7) % AddressSpace) \div 8) * 8

next_heap == (user_heap_ptr + Aligned(asked)) % AddressSpace

Needed_Mut == PageOf(next_heap)

\* The page behind the last one malloc maps.
Needed == PageUp(next_heap)

Malloc(size) ==
    /\ load_pc = "running" /\ Cardinality(grants) < MaxRequests
    /\ size # 0 /\ pages.count < TrackLimit
    /\ load_pc' = "mapping" /\ asked' = size /\ vpage' = PageUp(user_heap_ptr)
    /\ UNCHANGED <<phdr, segment, cur_vaddr, max_user_vaddr, pages, bytes,
                   user_heap_ptr, grants>>

\* A page, or no block for it and NULL.
MallocPage ==
    /\ load_pc = "mapping" /\ vpage < Needed
    /\ \/ /\ ~ListFull
          /\ \E fails \in Fails("table") :
                /\ pages' = NewPage(vpage, fails)
                /\ bytes' = IF vpage \in pages'.mapped THEN Zeroed(vpage) ELSE bytes
          /\ vpage' = vpage + 1
          /\ UNCHANGED <<load_pc, asked>>
       \/ /\ "page" \in MemoryFaults
          /\ load_pc' = "running" /\ asked' = 0 /\ vpage' = 0
          /\ UNCHANGED <<pages, bytes>>
    /\ UNCHANGED <<phdr, segment, cur_vaddr, max_user_vaddr, user_heap_ptr, grants>>

\* The one check for room came before the loop.
MallocOverruns == load_pc = "mapping" /\ vpage < Needed /\ Overrun

MallocReturns ==
    /\ load_pc = "mapping" /\ vpage >= Needed
    /\ grants' = grants \union {<<user_heap_ptr, asked>>}
    /\ user_heap_ptr' = next_heap
    /\ load_pc' = "running" /\ asked' = 0 /\ vpage' = 0
    /\ UNCHANGED <<phdr, segment, cur_vaddr, max_user_vaddr, pages, bytes>>

\* NULL, because nothing is asked for or the list is full.
MallocRefuses(size) ==
    /\ load_pc = "running"
    /\ size = 0 \/ pages.count >= TrackLimit
    /\ UNCHANGED userVars

UserNext ==
    \/ DirectoryMade \/ SegmentDone \/ LoadPage \/ StackMade
    \/ LoadFails \/ LoadOverruns \/ LoadAgain
    \/ \E size \in Requests : Malloc(size) \/ MallocRefuses(size)
    \/ MallocPage \/ MallocOverruns \/ MallocReturns

UserSpec == UserInit /\ [][UserNext]_userVars

-----------------------------------------------------------------------------
(* Properties. *)

\* Below the stack there is room above the address for what malloc may give.
RoomAbove(a) ==
    \A size \in Requests \union {0} :
        a + (TrackLimit + 2) * PAGE + size + 8 <= StackPage * PAGE

\* What the linker and the sizes asked for have to be like: the program and its
\* heap end below the stack, and the segments do not overlap.
WellLinked ==
    /\ RoomAbove(HeapFloor)
    /\ \A prog \in Programs : \A s \in DOMAIN prog :
          /\ RoomAbove(prog[s].vaddr + prog[s].memsz)
          /\ \A t \in DOMAIN prog :
                s # t => \/ prog[s].vaddr + prog[s].memsz <= prog[t].vaddr
                         \/ prog[t].vaddr + prog[t].memsz <= prog[s].vaddr

\* Once a program runs, the bytes of its segments are those of the file as far
\* as the file goes and zero behind it, also where two segments share a page:
\* all but the pages for which there was no table.
LoadedAsLinked ==
    load_pc \in {"running", "mapping"} =>
        \A s \in DOMAIN phdr : \A b \in Vaddr(s) .. End(s) - 1 :
            PageOf(b) \notin pages.lost =>
                /\ b \in DOMAIN bytes
                /\ bytes[b] = IF b < Vaddr(s) + phdr[s].filesz THEN <<s, b - Vaddr(s)>>
                                                               ELSE ZERO

\* What malloc returns is mapped, to the last byte, with the same exception: the
\* comment in the loop says "Map it in the process's page directory".
GrantsAreMapped ==
    \A g \in grants : \A b \in g[1] .. g[1] + g[2] - 1 :
        b < AddressSpace /\ (b \in DOMAIN bytes \/ PageOf(b) \in pages.lost)

\* No two blocks of malloc overlap, and none overlaps the program or the stack.
GrantsAreApart ==
    /\ \A g, h \in grants : g # h => g[1] + g[2] <= h[1] \/ h[1] + h[2] <= g[1]
    /\ \A g \in grants : /\ \A s \in DOMAIN phdr : End(s) <= g[1]
                         /\ g[1] + g[2] <= StackPage * PAGE

\* Every block the slot has taken is in its list, where the scheduler finds it,
\* as long as the list is shorter than the limit the code tests for.
BlocksAreTracked == pages.count < TrackLimit => pages.taken = pages.count

\* A program finds its segments and its blocks where it expects them, unless the
\* list of its blocks has been overrun.
UserMemorySound ==
    /\ UserTypeOK
    /\ load_pc # "overrun" =>
          LoadedAsLinked /\ GrantsAreMapped /\ GrantsAreApart /\ BlocksAreTracked

\* user_space_malloc: "Verify we have slot space in tracking list to prevent
\* overflow".
ListNotOverrun == load_pc # "overrun"

=============================================================================
