-------------------------------- MODULE Heap --------------------------------
(***************************************************************************)
(* The kernel heap of SQ-OS, kernel/memory.c: a bump allocator that puts a *)
(* header before every block and never takes an address back.              *)
(*                                                                         *)
(* scheduler_switch calls kfree from the timer interrupt, which can come   *)
(* while the system task is inside kmalloc or kfree (no lock, interrupts   *)
(* enabled).  No second kmalloc gets in between: see LoaderNotPreempted in *)
(* Scheduler.  A `counter += x` or `counter++` is one instruction of the   *)
(* -O2 build; kfree's test and subtraction on used_payload are a load and  *)
(* a store.  So kmalloc is two steps, the block and then the counters, and *)
(* kfree by the system task is two steps with a value read before the      *)
(* interrupt and written back after it.                                    *)
(*                                                                         *)
(* An operator named X_Mut before an operator X is X with a fault; it      *)
(* belongs to no behaviour of the module.                                  *)
(***************************************************************************)
EXTENDS Integers, FiniteSets

CONSTANTS
    HeapStart,      \* HEAP_START
    HeapSize,       \* HEAP_SIZE
    WordLimit,      \* 2^32, where uint32_t wraps
    Sizes,          \* arguments of kmalloc
    Pointers        \* arguments of kfree

HeapEnd == HeapStart + HeapSize
HeaderSize == 12                    \* sizeof(HeapBlock)
HeaderSpan == 16                    \* from an aligned header to its payload

ASSUME HeapAssumption ==
    /\ HeapStart \in Nat \ {0} /\ HeapStart % 8 = 0
    /\ HeapSize \in Nat
    /\ WordLimit \in Nat /\ HeapEnd + 24 < WordLimit
    /\ Sizes \subseteq 0 .. WordLimit - 1
    /\ Pointers \subseteq Nat

VARIABLES
    bump_ptr, alloc_count, free_count, used_payload, overhead,
    blocks,         \* the headers in memory, by payload address
    counting,       \* size of the block kmalloc has still to count, or 0
    freeing,        \* size of the block kfree has still to subtract, or 0
    register        \* the used_payload that kfree has read

vars == <<bump_ptr, alloc_count, free_count, used_payload, overhead, blocks,
          counting, freeing, register>>

Block == [addr : Nat, size : Nat, free : BOOLEAN]

TypeOK ==
    /\ bump_ptr \in 0 .. HeapEnd
    /\ alloc_count \in Nat /\ free_count \in Nat
    /\ used_payload \in Nat /\ overhead \in Nat
    /\ blocks \in SUBSET Block
    /\ counting \in Nat /\ freeing \in Nat /\ register \in Nat

(* heap_init *)
Init ==
    /\ bump_ptr = HeapStart
    /\ alloc_count = 0 /\ free_count = 0
    /\ used_payload = 0 /\ overhead = 0
    /\ blocks = {}
    /\ counting = 0 /\ freeing = 0 /\ register = 0

AlignUp_Mut(a) == (a \div 8) * 8
AlignUp(a) == ((a + 7) \div 8) * 8

(* Addition of two words. *)
Add32(a, b) == IF a + b < WordLimit THEN a + b ELSE a + b - WordLimit

(* Where the next payload starts, with its header before it. *)
NextPayload == AlignUp(AlignUp(bump_ptr) + HeaderSize)

Fits(size) == Add32(NextPayload, size) <= HeapEnd

(* kmalloc finds room: header and bump pointer.  It returns NULL, and changes
   nothing, if size = 0 or the block does not fit. *)
Kmalloc(size) ==
    /\ counting = 0 /\ freeing = 0
    /\ size # 0
    /\ Fits(size)
    /\ blocks' = blocks \cup {[addr |-> NextPayload, size |-> size, free |-> FALSE]}
    /\ bump_ptr' = Add32(NextPayload, size)
    /\ counting' = size
    /\ UNCHANGED <<alloc_count, free_count, used_payload, overhead, freeing,
                   register>>

(* kmalloc updates its counters and returns. *)
KmallocCount ==
    /\ counting # 0
    /\ alloc_count' = alloc_count + 1
    /\ used_payload' = used_payload + counting
    /\ overhead' = overhead + HeaderSpan
    /\ counting' = 0
    /\ UNCHANGED <<bump_ptr, free_count, blocks, freeing, register>>

(* The block kfree finds at ptr: in the heap, with the magic number, and not
   free yet.  Anything else is ignored. *)
Freeable_Mut(ptr) == {b \in blocks : b.addr = ptr}
Freeable(ptr) ==
    {b \in blocks : /\ HeapStart <= ptr /\ ptr < HeapEnd
                    /\ b.addr = ptr
                    /\ ~b.free}

(* The header is marked; the block being allocated is not known to anyone. *)
MarkFree(b) ==
    /\ ~(counting # 0 /\ b.addr + b.size = bump_ptr)
    /\ blocks' = (blocks \ {b}) \cup {[b EXCEPT !.free = TRUE]}
    /\ free_count' = free_count + 1

Subtract(used, size) == IF used >= size THEN used - size ELSE used

(* kfree by the timer interrupt, or in a system call: not interrupted. *)
KfreeAtomic(ptr) ==
    \E b \in Freeable(ptr) :
        /\ MarkFree(b)
        /\ used_payload' = Subtract(used_payload, b.size)
        /\ UNCHANGED <<bump_ptr, alloc_count, overhead, counting, freeing,
                       register>>

(* kfree by the system task: mark the block and read used_payload, ... *)
Kfree(ptr) ==
    /\ counting = 0 /\ freeing = 0
    /\ \E b \in Freeable(ptr) :
          /\ MarkFree(b)
          /\ freeing' = b.size
          /\ register' = used_payload
    /\ UNCHANGED <<bump_ptr, alloc_count, used_payload, overhead, counting>>

(* ... and write it back. *)
KfreeStore ==
    /\ freeing # 0
    /\ used_payload' = IF register >= freeing THEN register - freeing
                                              ELSE used_payload
    /\ freeing' = 0 /\ register' = 0
    /\ UNCHANGED <<bump_ptr, alloc_count, free_count, overhead, blocks,
                   counting>>

Next == \/ \E size \in Sizes : Kmalloc(size)
        \/ KmallocCount
        \/ \E ptr \in Pointers : KfreeAtomic(ptr) \/ Kfree(ptr)
        \/ KfreeStore

Spec == Init /\ [][Next]_vars

-----------------------------------------------------------------------------
(* heap_stats *)
FreeBytes ==
    IF bump_ptr > HeapStart THEN HeapSize - (bump_ptr - HeapStart) ELSE HeapSize

(* Every block lies in the part of the heap that has been handed out, behind
   its header, on an 8-byte boundary. *)
BlocksInHeap ==
    \A b \in blocks :
        /\ HeapStart + HeaderSpan <= b.addr
        /\ b.addr + b.size <= bump_ptr
        /\ b.addr % 8 = 0

(* No block overlaps another one or the header before it: kmalloc never hands
   out the same memory twice. *)
BlocksDisjoint ==
    \A b, c \in blocks :
        b # c => \/ b.addr + b.size + HeaderSize <= c.addr
                 \/ c.addr + c.size + HeaderSize <= b.addr

(* The figures heap_stats reports never add up to more than the heap: a byte
   is not counted both as used (or header) and as free. *)
StatsConsistent ==
    used_payload + counting + overhead + FreeBytes <= HeapSize

(* What kmalloc hands out is inside the heap, is nobody else's, and is counted
   once. *)
HeapSound == TypeOK /\ BlocksInHeap /\ BlocksDisjoint /\ StatsConsistent

-----------------------------------------------------------------------------
LiveBlocks == {b \in blocks : ~b.free}

\* The addresses of the bytes that callers of kmalloc have and may use.
LiveBytes == UNION {b.addr .. b.addr + b.size - 1 : b \in LiveBlocks}

(* After any sequence of kmalloc and kfree, with double frees and frees of
   pointers kmalloc never returned, and with a kfree from the timer interrupt
   in the middle of a kmalloc or kfree, alloc_count, free_count and overhead
   agree with the headers in memory, and used_payload covers every live
   byte. *)
Accounting ==
    /\ alloc_count = Cardinality(blocks) - (IF counting = 0 THEN 0 ELSE 1)
    /\ free_count = Cardinality(blocks) - Cardinality(LiveBlocks)
    /\ overhead = HeaderSpan * alloc_count
    /\ used_payload + counting >= Cardinality(LiveBytes) + freeing
=============================================================================
