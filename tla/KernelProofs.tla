---------------------------- MODULE KernelProofs ----------------------------
(***************************************************************************)
(* What TLAPS proves of four parts of the kernel.  Heap, for every heap    *)
(* and every set of sizes: blocks do not overlap and the counters agree.   *)
(* TextShell, for every size of the screen and of the input buffer:        *)
(* however often the desktop is entered from inside the keyboard           *)
(* interrupt, the handler runs once, and the shell hears keys.  Rtc, for   *)
(* either format of the registers: the time read is whole.  UserHeap, for  *)
(* every program and every number of pages: a program finds its segments   *)
(* copied, everything else zero, and what it allocated mapped.             *)
(***************************************************************************)
EXTENDS Heap, TextShell, Rtc, UserHeap, FiniteSetTheorems, TLAPS

-----------------------------------------------------------------------------
(***************************************************************************)
(* The heap.  Its invariants need that no size makes the 32-bit end        *)
(* address of a block wrap around, which kmalloc does not check.           *)
(***************************************************************************)
NoWrap == \A size \in Sizes : HeapEnd + 24 + size < WordLimit

(* AlignUp rounds up to a multiple of 8. *)
LEMMA AlignUpRounds ==
    ASSUME NEW a \in Nat
    PROVE  /\ AlignUp(a) \in Nat /\ AlignUp(a) % 8 = 0
           /\ a <= AlignUp(a) /\ AlignUp(a) <= a + 7
<1> DEFINE q == (a + 7) \div 8
<1>1. q \in Nat /\ 8 * q <= a + 7 /\ a + 7 < 8 * q + 8
  OBVIOUS
<1>2. AlignUp(a) = q * 8
  BY DEF AlignUp
<1> HIDE DEF q
<1>3. q * 8 \in Nat /\ (q * 8) % 8 = 0
  BY <1>1
<1> QED BY <1>1, <1>2, <1>3

(* The next payload lies behind its header, aligned, 24 bytes away at most. *)
LEMMA NextPayloadPlace ==
    ASSUME bump_ptr \in Nat
    PROVE  /\ NextPayload \in Nat /\ NextPayload % 8 = 0
           /\ bump_ptr + HeaderSpan <= NextPayload
           /\ NextPayload < bump_ptr + 24
<1> DEFINE h == AlignUp(bump_ptr)
<1>1. h \in Nat /\ h % 8 = 0 /\ bump_ptr <= h /\ h <= bump_ptr + 7
  BY AlignUpRounds
<1> HIDE DEF h
<1>2. AlignUp(h + 12) = h + 16
  BY <1>1 DEF AlignUp
<1>3. NextPayload = h + 16
  BY <1>2 DEF NextPayload, HeaderSize, h
<1> QED BY <1>1, <1>3 DEF HeaderSpan

-----------------------------------------------------------------------------
(* What has been counted fits into what has been handed out, also in the
   middle of a kmalloc or a kfree. *)
Counted ==
    /\ HeapStart <= bump_ptr
    /\ used_payload + counting + overhead
          + (IF counting = 0 THEN 0 ELSE HeaderSpan) <= bump_ptr - HeapStart
    /\ freeing # 0 => /\ counting = 0
                      /\ register + overhead <= bump_ptr - HeapStart

HeapInv == TypeOK /\ BlocksInHeap /\ BlocksDisjoint /\ Counted

LEMMA InitHeapInv == Init => HeapInv
BY HeapAssumption
   DEF Init, HeapInv, TypeOK, BlocksInHeap, BlocksDisjoint, Counted, HeapEnd

(* kmalloc puts the new block behind all the others. *)
LEMMA KmallocHeapInv ==
    ASSUME NoWrap, HeapInv, NEW size \in Sizes, Kmalloc(size)
    PROVE  HeapInv'
<1> DEFINE p == NextPayload
           new == [addr |-> p, size |-> size, free |-> FALSE]
<1>1. /\ TypeOK /\ size \in Nat /\ bump_ptr \in Nat
      /\ HeapStart \in Nat /\ HeapSize \in Nat /\ HeapEnd \in Nat
      /\ WordLimit \in Nat
  BY HeapAssumption DEF HeapInv, TypeOK, HeapEnd
<1>2. /\ p \in Nat /\ p % 8 = 0 /\ bump_ptr + 16 <= p /\ p < bump_ptr + 24
  BY <1>1, NextPayloadPlace DEF HeaderSpan
<1>3. bump_ptr <= HeapEnd
  BY <1>1 DEF TypeOK
<1> HIDE DEF p
<1>4. Add32(p, size) = p + size
  BY <1>1, <1>2, <1>3 DEF NoWrap, Add32
<1>5. /\ size # 0 /\ counting = 0 /\ freeing = 0
      /\ p + size <= HeapEnd
      /\ blocks' = blocks \cup {new} /\ bump_ptr' = p + size
      /\ counting' = size
      /\ UNCHANGED <<alloc_count, free_count, used_payload, overhead, freeing,
                     register>>
  BY <1>4, Zenon DEF Kmalloc, Fits, p
<1>6. TypeOK'
  <2>1. new \in Block
    BY <1>1, <1>2 DEF Block
  <2>2. bump_ptr' \in 0 .. HeapEnd
    BY <1>1, <1>2, <1>5
  <2> HIDE DEF new
  <2> QED BY <1>1, <1>5, <2>1, <2>2 DEF TypeOK
<1>7. new.addr = p /\ new.size = size
  OBVIOUS
<1> HIDE DEF new
<1>8. \A b \in blocks : /\ b.addr \in Nat /\ b.size \in Nat
                        /\ b.addr + b.size <= bump_ptr
                        /\ HeapStart + HeaderSpan <= b.addr
                        /\ b.addr % 8 = 0
  BY <1>1 DEF HeapInv, BlocksInHeap, TypeOK, Block
<1>9. BlocksInHeap'
  BY <1>1, <1>2, <1>5, <1>7, <1>8
     DEF BlocksInHeap, HeapInv, Counted, HeaderSpan
<1>10. BlocksDisjoint'
  <2>1. \A b \in blocks : b.addr + b.size + HeaderSize <= new.addr
    BY <1>1, <1>2, <1>7, <1>8 DEF HeaderSize
  <2> QED BY <1>5, <2>1 DEF BlocksDisjoint, HeapInv
<1>11. Counted'
  BY <1>1, <1>2, <1>5 DEF Counted, HeapInv, HeaderSpan, TypeOK
<1> QED BY <1>6, <1>9, <1>10, <1>11 DEF HeapInv

(* Marking a block free moves nothing. *)
LEMMA MarkFreeBlocks ==
    ASSUME HeapInv, NEW b \in blocks, MarkFree(b), bump_ptr' = bump_ptr
    PROVE  /\ blocks' \in SUBSET Block
           /\ BlocksInHeap' /\ BlocksDisjoint'
           /\ free_count' = free_count + 1
<1> DEFINE marked == [b EXCEPT !.free = TRUE]
<1>1. blocks \subseteq Block
  BY DEF HeapInv, TypeOK
<1>2. marked \in Block /\ marked.addr = b.addr /\ marked.size = b.size
  BY <1>1 DEF Block
<1>3. blocks' = (blocks \ {b}) \cup {marked} /\ free_count' = free_count + 1
  BY DEF MarkFree
<1> HIDE DEF marked
<1>4. BlocksInHeap'
  BY <1>2, <1>3 DEF HeapInv, BlocksInHeap
<1>5. BlocksDisjoint'
  <2> SUFFICES ASSUME NEW c \in blocks', NEW d \in blocks', c # d
               PROVE  \/ c.addr + c.size + HeaderSize <= d.addr
                      \/ d.addr + d.size + HeaderSize <= c.addr
    BY DEF BlocksDisjoint
  <2>1. BlocksDisjoint
    BY DEF HeapInv
  <2>2. CASE c \in blocks \ {b} /\ d \in blocks \ {b}
    BY <2>1, <2>2 DEF BlocksDisjoint
  <2>3. CASE c = marked /\ d \in blocks \ {b}
    BY <1>2, <2>1, <2>3 DEF BlocksDisjoint
  <2>4. CASE d = marked /\ c \in blocks \ {b}
    BY <1>2, <2>1, <2>4 DEF BlocksDisjoint
  <2> QED BY <1>3, <2>2, <2>3, <2>4
<1> QED BY <1>1, <1>2, <1>3, <1>4, <1>5

LEMMA NextHeapInv == NoWrap /\ HeapInv /\ [Next]_vars => HeapInv'
<1> SUFFICES ASSUME NoWrap, HeapInv, [Next]_vars PROVE HeapInv'
  OBVIOUS
<1>1. /\ TypeOK /\ HeapStart \in Nat
      /\ \A b \in blocks : b.size \in Nat
  BY HeapAssumption DEF HeapInv, TypeOK, Block
<1>2. CASE \E size \in Sizes : Kmalloc(size)
  BY <1>2, KmallocHeapInv
<1>3. CASE KmallocCount
  <2>1. TypeOK'
    BY <1>1, <1>3 DEF KmallocCount, TypeOK, HeaderSpan
  <2>2. Counted'
    BY <1>1, <1>3 DEF KmallocCount, HeapInv, TypeOK, Counted, HeaderSpan
  <2> QED
    BY <1>3, <2>1, <2>2 DEF KmallocCount, HeapInv, BlocksInHeap, BlocksDisjoint
<1>4. CASE \E ptr \in Pointers : KfreeAtomic(ptr)
  <2>1. PICK b \in blocks :
          /\ MarkFree(b)
          /\ used_payload' = Subtract(used_payload, b.size)
          /\ UNCHANGED <<bump_ptr, alloc_count, overhead, counting, freeing,
                         register>>
    BY <1>4 DEF KfreeAtomic, Freeable
  <2>2. used_payload' \in Nat /\ used_payload' <= used_payload
    BY <1>1, <2>1 DEF Subtract, TypeOK
  <2>3. Counted'
    BY <1>1, <2>1, <2>2 DEF HeapInv, Counted, TypeOK, HeaderSpan
  <2> QED BY <1>1, <2>1, <2>2, <2>3, MarkFreeBlocks DEF HeapInv, TypeOK
<1>5. CASE \E ptr \in Pointers : Kfree(ptr)
  <2>1. PICK b \in blocks :
          /\ counting = 0 /\ MarkFree(b)
          /\ freeing' = b.size /\ register' = used_payload
          /\ UNCHANGED <<bump_ptr, alloc_count, used_payload, overhead, counting>>
    BY <1>5 DEF Kfree, Freeable
  <2>2. Counted'
    BY <1>1, <2>1 DEF HeapInv, Counted, TypeOK, HeaderSpan
  <2> QED BY <1>1, <2>1, <2>2, MarkFreeBlocks DEF HeapInv, TypeOK
<1>6. CASE KfreeStore
  <2>1. used_payload' \in Nat
        /\ \/ used_payload' + freeing <= register
           \/ used_payload' = used_payload
    BY <1>1, <1>6 DEF KfreeStore, TypeOK
  <2>2. TypeOK'
    BY <1>1, <1>6, <2>1 DEF KfreeStore, TypeOK
  <2>3. Counted'
    BY <1>1, <1>6, <2>1 DEF KfreeStore, HeapInv, TypeOK, Counted, HeaderSpan
  <2> QED BY <1>6, <2>2, <2>3 DEF KfreeStore, HeapInv, BlocksInHeap, BlocksDisjoint
<1>7. CASE UNCHANGED vars
  BY <1>7
     DEF vars, HeapInv, TypeOK, BlocksInHeap, BlocksDisjoint, Counted
<1> QED BY <1>2, <1>3, <1>4, <1>5, <1>6, <1>7 DEF Next

(* HeapInv is inductive when no size wraps around. *)
THEOREM HeapInvariance == NoWrap /\ Spec => []HeapInv
<1> SUFFICES ASSUME NoWrap PROVE Spec => []HeapInv
  OBVIOUS
<1>1. Init => HeapInv
  BY InitHeapInv
<1>2. HeapInv /\ [Next]_vars => HeapInv'
  BY NextHeapInv
<1> QED BY <1>1, <1>2, PTL DEF Spec

(* The headers and counters keep their types. *)
THEOREM HeapTypes == NoWrap /\ Spec => []TypeOK
BY HeapInvariance, PTL DEF HeapInv

(* Every block lies in the heap, aligned, behind its header. *)
THEOREM BlocksStayInHeap == NoWrap /\ Spec => []BlocksInHeap
BY HeapInvariance, PTL DEF HeapInv

(* kmalloc never hands out the same memory twice. *)
THEOREM NeverTwice == NoWrap /\ Spec => []BlocksDisjoint
BY HeapInvariance, PTL DEF HeapInv

(* What heap_stats reports never adds up to more than the heap. *)
THEOREM StatsAddUp == NoWrap /\ Spec => []StatsConsistent
<1>1. HeapInv => StatsConsistent
  BY HeapAssumption
     DEF HeapInv, Counted, TypeOK, StatsConsistent, FreeBytes, HeapEnd, HeaderSpan
<1> QED BY <1>1, HeapInvariance, PTL

(* The three together: what kmalloc hands out is inside the heap, is nobody
   else's, and is counted once. *)
THEOREM HeapIsSound == NoWrap /\ Spec => []HeapSound
BY HeapTypes, BlocksStayInHeap, NeverTwice, StatsAddUp, PTL DEF HeapSound

-----------------------------------------------------------------------------
(***************************************************************************)
(* The counters against the headers in memory.                             *)
(***************************************************************************)

(* A kfree that has read used_payload will write back enough for what is live:
   a kfree from the interrupt only makes that less. *)
AccountInv ==
    /\ IsFiniteSet(blocks)
    /\ IsFiniteSet(LiveBytes)
    /\ Accounting
    /\ freeing # 0 => register >= Cardinality(LiveBytes) + freeing

Bytes(b) == b.addr .. b.addr + b.size - 1

LEMMA BlockBytes ==
    ASSUME NEW b \in Block
    PROVE  IsFiniteSet(Bytes(b)) /\ Cardinality(Bytes(b)) = b.size
<1>1. b.addr \in Int /\ b.addr + b.size - 1 \in Int /\ b.size \in Nat /\ b.addr \in Nat
  BY DEF Block
<1> DEFINE low == b.addr
           high == b.addr + b.size - 1
<1>2. /\ IsFiniteSet(low .. high)
      /\ Cardinality(low .. high) = IF low > high THEN 0 ELSE high - low + 1
  BY <1>1, FS_Interval
<1>3. (IF low > high THEN 0 ELSE high - low + 1) = b.size
  BY <1>1
<1> QED
  BY <1>2, <1>3 DEF Bytes

(* Two blocks have no byte in common. *)
LEMMA BytesApart ==
    ASSUME HeapInv, NEW b \in blocks, NEW c \in blocks, b # c
    PROVE  Bytes(b) \cap Bytes(c) = {}
<1>1. b.addr \in Nat /\ b.size \in Nat /\ c.addr \in Nat /\ c.size \in Nat
  BY DEF HeapInv, TypeOK, Block
<1>2. \/ b.addr + b.size + HeaderSize <= c.addr
      \/ c.addr + c.size + HeaderSize <= b.addr
  BY DEF HeapInv, BlocksDisjoint
<1> QED
  BY <1>1, <1>2 DEF Bytes, HeaderSize

LEMMA InitAccount == Init => AccountInv
<1> SUFFICES ASSUME Init PROVE AccountInv
  OBVIOUS
<1>1. blocks = {} /\ LiveBlocks = {} /\ LiveBytes = {}
  BY DEF Init, LiveBlocks, LiveBytes
<1>2. IsFiniteSet({}) /\ Cardinality({}) = 0
  BY FS_EmptySet
<1> QED
  BY <1>1, <1>2 DEF Init, AccountInv, Accounting, HeaderSpan

(* A new block adds its bytes to those that are live. *)
LEMMA KmallocCounts ==
    ASSUME NoWrap, HeapInv, AccountInv, NEW size \in Sizes, Kmalloc(size)
    PROVE  AccountInv'
<1> DEFINE new == [addr |-> NextPayload, size |-> size, free |-> FALSE]
<1>1. /\ counting = 0 /\ freeing = 0 /\ size # 0 /\ size \in Nat
      /\ blocks' = blocks \cup {new} /\ counting' = size
      /\ UNCHANGED <<alloc_count, free_count, used_payload, overhead, freeing, register>>
  BY HeapAssumption DEF Kmalloc
<1>2. bump_ptr \in Nat /\ NextPayload \in Nat /\ bump_ptr < NextPayload
  <2>1. bump_ptr \in Nat
    BY HeapAssumption DEF HeapInv, TypeOK, HeapEnd
  <2> QED
    BY <2>1, NextPayloadPlace DEF HeaderSpan
<1>3. new \in Block /\ ~new.free /\ new.size = size /\ new.addr = NextPayload
  BY <1>1, <1>2 DEF Block
<1> HIDE DEF new
<1>4. \A b \in blocks : b.addr \in Nat /\ b.size \in Nat /\ b.addr + b.size <= bump_ptr
  BY DEF HeapInv, TypeOK, BlocksInHeap, Block
<1>5. new \notin blocks
  BY <1>2, <1>3, <1>4
<1>6. LiveBlocks' = LiveBlocks \cup {new} /\ new \notin LiveBlocks
  BY <1>1, <1>3, <1>5 DEF LiveBlocks
<1>7. LiveBytes' = LiveBytes \cup Bytes(new)
  BY <1>6 DEF LiveBytes, Bytes
<1>8. LiveBytes \cap Bytes(new) = {}
  <2>1. ASSUME NEW b \in blocks, NEW a \in b.addr .. b.addr + b.size - 1 PROVE a \notin Bytes(new)
    BY <1>2, <1>3, <1>4 DEF Bytes
  <2> QED
    BY <2>1 DEF LiveBytes, LiveBlocks
<1>9. IsFiniteSet(LiveBytes') /\ Cardinality(LiveBytes') = Cardinality(LiveBytes) + size
  <2>1. IsFiniteSet(Bytes(new)) /\ Cardinality(Bytes(new)) = size
    BY <1>3, BlockBytes
  <2>2. IsFiniteSet(LiveBytes) /\ Cardinality(LiveBytes) \in Nat
    BY FS_CardinalityType DEF AccountInv
  <2>3. /\ IsFiniteSet(LiveBytes \cup Bytes(new))
        /\ Cardinality(LiveBytes \cup Bytes(new))
             = Cardinality(LiveBytes) + Cardinality(Bytes(new)) - Cardinality({})
    BY <1>8, <2>1, <2>2, FS_Union
  <2>4. Cardinality({}) = 0
    BY FS_EmptySet
  <2> QED
    BY <1>1, <1>7, <2>1, <2>2, <2>3, <2>4
<1>10. /\ IsFiniteSet(blocks') /\ Cardinality(blocks') = Cardinality(blocks) + 1
       /\ Cardinality(LiveBlocks') = Cardinality(LiveBlocks) + 1
       /\ Cardinality(blocks) \in Nat /\ Cardinality(LiveBlocks) \in Nat
       /\ Cardinality(LiveBytes) \in Nat
  <2>1. IsFiniteSet(blocks) /\ IsFiniteSet(LiveBlocks) /\ IsFiniteSet(LiveBytes)
    <3>1. LiveBlocks \in SUBSET blocks
      BY DEF LiveBlocks
    <3> QED
      BY <3>1, FS_Subset DEF AccountInv
  <2> QED
    BY <1>1, <1>5, <1>6, <2>1, FS_AddElement, FS_CardinalityType
<1>11. Accounting'
  <2>1. used_payload \in Nat /\ free_count \in Nat /\ alloc_count \in Nat
    BY DEF HeapInv, TypeOK
  <2> QED
    BY <1>1, <1>9, <1>10, <2>1 DEF AccountInv, Accounting
<1> QED
  BY <1>1, <1>9, <1>10, <1>11 DEF AccountInv

(* Marking a block free takes its bytes, and no others, from those that are
   live. *)
LEMMA FreedCounts ==
    ASSUME HeapInv, AccountInv, NEW b \in blocks, ~b.free, MarkFree(b)
    PROVE  /\ IsFiniteSet(blocks') /\ Cardinality(blocks') = Cardinality(blocks)
           /\ Cardinality(LiveBlocks') = Cardinality(LiveBlocks) - 1
           /\ IsFiniteSet(LiveBytes')
           /\ Cardinality(LiveBytes) = Cardinality(LiveBytes') + b.size
           /\ Cardinality(blocks) \in Nat /\ Cardinality(LiveBlocks) \in Nat
           /\ Cardinality(LiveBytes') \in Nat
<1> DEFINE marked == [b EXCEPT !.free = TRUE]
<1>1. b \in Block
  BY DEF HeapInv, TypeOK
<1>2. marked.free /\ marked.addr = b.addr /\ marked # b
  BY <1>1 DEF Block
<1>3. blocks' = (blocks \ {b}) \cup {marked}
  BY DEF MarkFree
<1> HIDE DEF marked
<1>4. marked \notin blocks
  <2> SUFFICES ASSUME marked \in blocks PROVE FALSE
    OBVIOUS
  <2>1. \/ b.addr + b.size + HeaderSize <= marked.addr
        \/ marked.addr + marked.size + HeaderSize <= b.addr
    BY <1>2 DEF HeapInv, BlocksDisjoint
  <2>2. b.addr \in Nat /\ b.size \in Nat /\ marked.size \in Nat
    BY DEF HeapInv, TypeOK, Block
  <2> QED
    BY <1>2, <2>1, <2>2 DEF HeaderSize
<1>5. LiveBlocks' = LiveBlocks \ {b} /\ b \in LiveBlocks
  BY <1>2, <1>3 DEF LiveBlocks
<1>6. IsFiniteSet(blocks) /\ IsFiniteSet(LiveBlocks)
  <2>1. LiveBlocks \in SUBSET blocks
    BY DEF LiveBlocks
  <2> QED
    BY <2>1, FS_Subset DEF AccountInv
<1>7. /\ IsFiniteSet(blocks') /\ Cardinality(blocks') = Cardinality(blocks)
      /\ Cardinality(blocks) \in Nat
  <2>1. /\ IsFiniteSet(blocks \ {b}) /\ Cardinality(blocks \ {b}) = Cardinality(blocks) - 1
        /\ Cardinality(blocks) \in Nat
    BY <1>6, FS_RemoveElement, FS_CardinalityType
  <2>2. /\ IsFiniteSet((blocks \ {b}) \cup {marked})
        /\ Cardinality((blocks \ {b}) \cup {marked}) = Cardinality(blocks \ {b}) + 1
    BY <1>4, <2>1, FS_AddElement
  <2> QED
    BY <1>3, <2>1, <2>2
<1>8. /\ Cardinality(LiveBlocks') = Cardinality(LiveBlocks) - 1
      /\ Cardinality(LiveBlocks) \in Nat
  BY <1>5, <1>6, FS_RemoveElement, FS_CardinalityType
<1>9. LiveBytes = LiveBytes' \cup Bytes(b)
  BY <1>5 DEF LiveBytes, Bytes
<1>10. LiveBytes' \cap Bytes(b) = {}
  <2>1. \A c \in LiveBlocks \ {b} : Bytes(c) \cap Bytes(b) = {}
    BY BytesApart DEF LiveBlocks
  <2>2. LiveBytes' = UNION {Bytes(c) : c \in LiveBlocks \ {b}}
    BY <1>5 DEF LiveBytes, Bytes
  <2> QED
    BY <2>1, <2>2
<1>11. IsFiniteSet(LiveBytes')
  <2>1. LiveBytes' \in SUBSET LiveBytes
    BY <1>9
  <2> QED
    BY <2>1, FS_Subset DEF AccountInv
<1>12. /\ Cardinality(LiveBytes) = Cardinality(LiveBytes') + b.size
       /\ Cardinality(LiveBytes') \in Nat
  <2>1. IsFiniteSet(Bytes(b)) /\ Cardinality(Bytes(b)) = b.size /\ b.size \in Nat
    BY <1>1, BlockBytes DEF Block
  <2>2. Cardinality(LiveBytes') \in Nat
    BY <1>11, FS_CardinalityType
  <2>3. Cardinality(LiveBytes' \cup Bytes(b))
             = Cardinality(LiveBytes') + Cardinality(Bytes(b)) - Cardinality({})
    BY <1>10, <1>11, <2>1, FS_Union
  <2>4. Cardinality({}) = 0
    BY FS_EmptySet
  <2> QED
    BY <1>9, <2>1, <2>2, <2>3, <2>4
<1> QED
  BY <1>7, <1>8, <1>11, <1>12

LEMMA NextAccount == NoWrap /\ HeapInv /\ AccountInv /\ [Next]_vars => AccountInv'
<1> SUFFICES ASSUME NoWrap, HeapInv, AccountInv, [Next]_vars PROVE AccountInv'
  OBVIOUS
<1>1. /\ used_payload \in Nat /\ free_count \in Nat /\ alloc_count \in Nat /\ overhead \in Nat
      /\ counting \in Nat /\ freeing \in Nat /\ register \in Nat
      /\ \A b \in blocks : b.size \in Nat
      /\ freeing # 0 => counting = 0
  BY DEF HeapInv, TypeOK, Block, Counted
<1>2. /\ Cardinality(LiveBytes) \in Nat /\ Cardinality(blocks) \in Nat
      /\ Cardinality(LiveBlocks) \in Nat
  <2>1. LiveBlocks \in SUBSET blocks
    BY DEF LiveBlocks
  <2> QED
    BY <2>1, FS_Subset, FS_CardinalityType DEF AccountInv
<1>3. CASE \E size \in Sizes : Kmalloc(size)
  BY <1>3, KmallocCounts
<1>4. CASE KmallocCount
  <2>1. LiveBlocks' = LiveBlocks /\ LiveBytes' = LiveBytes
    BY <1>4 DEF KmallocCount, LiveBlocks, LiveBytes
  <2> QED
    BY <1>1, <1>2, <1>4, <2>1 DEF KmallocCount, AccountInv, Accounting, HeaderSpan
<1>5. CASE \E ptr \in Pointers : KfreeAtomic(ptr)
  <2>1. PICK b \in blocks :
          /\ ~b.free /\ MarkFree(b)
          /\ used_payload' = Subtract(used_payload, b.size)
          /\ UNCHANGED <<bump_ptr, alloc_count, overhead, counting, freeing, register>>
    BY <1>5 DEF KfreeAtomic, Freeable
  <2>2. used_payload' \in Nat /\ used_payload' >= used_payload - b.size
    BY <1>1, <2>1 DEF Subtract
  <2>3. free_count' = free_count + 1
    BY <2>1 DEF MarkFree
  <2> DEFINE lb == Cardinality(LiveBytes)
             lb2 == Cardinality(LiveBytes')
             up2 == used_payload'
  <2>4. /\ IsFiniteSet(blocks') /\ Cardinality(blocks') = Cardinality(blocks)
        /\ Cardinality(LiveBlocks') = Cardinality(LiveBlocks) - 1
        /\ IsFiniteSet(LiveBytes') /\ lb = lb2 + b.size /\ lb2 \in Nat
    BY <2>1, FreedCounts
  <2> QED
    BY <1>1, <1>2, <2>1, <2>2, <2>3, <2>4 DEF AccountInv, Accounting
<1>6. CASE \E ptr \in Pointers : Kfree(ptr)
  <2>1. PICK b \in blocks :
          /\ counting = 0 /\ freeing = 0 /\ ~b.free /\ MarkFree(b)
          /\ freeing' = b.size /\ register' = used_payload
          /\ UNCHANGED <<bump_ptr, alloc_count, used_payload, overhead, counting>>
    BY <1>6 DEF Kfree, Freeable
  <2>2. free_count' = free_count + 1
    BY <2>1 DEF MarkFree
  <2> QED
    BY <1>1, <1>2, <2>1, <2>2, FreedCounts DEF AccountInv, Accounting
<1>7. CASE KfreeStore
  <2>1. LiveBlocks' = LiveBlocks /\ LiveBytes' = LiveBytes
    BY <1>7 DEF KfreeStore, LiveBlocks, LiveBytes
  <2>2. used_payload' = register - freeing
    BY <1>1, <1>2, <1>7 DEF KfreeStore, AccountInv
  <2> QED
    BY <1>1, <1>2, <1>7, <2>1, <2>2 DEF KfreeStore, AccountInv, Accounting
<1>8. CASE UNCHANGED vars
  BY <1>8 DEF vars, AccountInv, Accounting, LiveBytes, LiveBlocks
<1> QED
  BY <1>3, <1>4, <1>5, <1>6, <1>7, <1>8 DEF Next

(* Accounting: the counters agree with the headers whatever is freed, twice or
   in the middle of a kmalloc, and used_payload covers every live byte. *)
THEOREM CountersAgree == NoWrap /\ Spec => []Accounting
<1> SUFFICES ASSUME NoWrap PROVE Spec => []Accounting
  OBVIOUS
<1>1. Init => HeapInv /\ AccountInv
  BY InitHeapInv, InitAccount
<1>2. HeapInv /\ AccountInv /\ [Next]_vars => HeapInv' /\ AccountInv'
  BY NextHeapInv, NextAccount
<1>3. AccountInv => Accounting
  BY DEF AccountInv
<1> QED
  BY <1>1, <1>2, <1>3, PTL DEF Spec

-----------------------------------------------------------------------------
(***************************************************************************)
(* The text shell.                                                         *)
(***************************************************************************)
(* The interrupt being served is the one that runs the desktop (or hangs):
   nothing else leaves it open.  While the desktop runs, the mask keeps IRQ1
   out, and when it has ended the interrupt in service does, which is why a
   second handler cannot start although interrupts are enabled. *)
Served ==
    /\ depth = IF in_service THEN 1 ELSE 0
    /\ in_service => pc \in {"left", "gui", "hung"}
    /\ pc = "left" => in_service
    /\ pc = "gui" => 1 \notin unmasked
    /\ pc \in {"left", "shell"} => interrupts /\ 1 \in unmasked
    /\ pc \in {"boot", "hung"} => ~interrupts

IInv == ShellTypeOK /\ Served

LEMMA InitIInv == ShellInit => IInv
<1> SUFFICES ASSUME ShellInit PROVE IInv
  OBVIOUS
<1>1. unmasked \in SUBSET {0, 1, 2, 12} /\ 0 \in 0 .. InputMax
  BY ShellAssumption DEF ShellInit
<1>2. ShellTypeOK
  BY <1>1 DEF ShellInit, ShellTypeOK
<1>3. Served
  BY DEF ShellInit, Served
<1> QED
  BY <1>2, <1>3 DEF IInv

(* No command but gui and reboot touches what the invariant speaks of. *)
LEMMA KeysLeaveIt ==
    ASSUME NEW len \in 0 .. InputMax, Key(len), IInv
    PROVE  IInv'
<1>1. ShellTypeOK'
  BY DEF Key, IInv, ShellTypeOK
<1>2. Served'
  BY DEF Key, IInv, Served
<1> QED
  BY <1>1, <1>2 DEF IInv

LEMMA StepType == IInv /\ (Boot \/ LeaveGui \/ GuiCommandEnds \/ MouseByte \/ GuiCommand
                             \/ Reboot) => ShellTypeOK'
<1> SUFFICES ASSUME ShellTypeOK, Served,
                    Boot \/ LeaveGui \/ GuiCommandEnds \/ MouseByte \/ GuiCommand \/ Reboot
             PROVE  ShellTypeOK'
  BY DEF IInv
<1>1. /\ buf_len \in 0 .. InputMax /\ 0 \in 0 .. InputMax /\ depth \in Nat /\ depth + 1 \in Nat
      /\ unmasked \in SUBSET {0, 1, 2, 12}
      /\ unmasked \ {1, 12} \in SUBSET {0, 1, 2, 12}
      /\ unmasked \union {1, 12} \in SUBSET {0, 1, 2, 12}
      /\ {1, 12} \in SUBSET {0, 1, 2, 12}
  BY ShellAssumption DEF ShellTypeOK
<1>2. CASE Boot
  BY <1>1, <1>2, Zenon DEF ShellTypeOK, Boot, GraphicsMode
<1>3. CASE LeaveGui
  BY <1>1, <1>3, Zenon DEF ShellTypeOK, LeaveGui, TextMode
<1>4. CASE GuiCommandEnds
  <2>1. depth - 1 \in Nat
    BY <1>4 DEF GuiCommandEnds, Served
  <2> QED BY <1>1, <1>4, <2>1, Zenon DEF ShellTypeOK, GuiCommandEnds
<1>5. CASE MouseByte
  BY <1>1, <1>5, Zenon DEF ShellTypeOK, MouseByte
<1>6. CASE GuiCommand
  BY <1>1, <1>6, Zenon DEF ShellTypeOK, GuiCommand, GraphicsMode
<1>7. CASE Reboot
  <2>1. CASE Restart
    <3>1. unmasked' = {1, 12} /\ unmasked' \in SUBSET {0, 1, 2, 12}
      BY <1>1, <2>1 DEF Restart
    <3> QED BY <1>1, <2>1, <3>1, Zenon DEF ShellTypeOK, Restart
  <2>2. CASE Hang
    BY <1>1, <2>2, Zenon DEF ShellTypeOK, Hang
  <2> QED BY <1>7, <2>1, <2>2 DEF Reboot
<1> QED
  BY <1>2, <1>3, <1>4, <1>5, <1>6, <1>7

LEMMA StepIInv == IInv /\ [ShellNext]_shellVars => IInv'
<1> SUFFICES ASSUME IInv, [ShellNext]_shellVars PROVE IInv'
  OBVIOUS
<1>1. Served /\ ShellTypeOK
  BY DEF IInv
<1>2. CASE Boot
  BY <1>1, <1>2, StepType DEF IInv, Served, Boot, GraphicsMode
<1>3. CASE LeaveGui
  BY <1>1, <1>3, StepType DEF IInv, Served, LeaveGui, TextMode
<1>4. CASE GuiCommandEnds
  BY <1>1, <1>4, StepType DEF IInv, Served, GuiCommandEnds
<1>5. CASE MouseByte
  BY <1>1, <1>5, StepType DEF IInv, Served, MouseByte
<1>6. CASE TypeCharacter \/ TypeBackspace \/ Enter
  <2>1. /\ TypeCharacter => buf_len + 1 \in 0 .. InputMax
        /\ TypeBackspace => buf_len - 1 \in 0 .. InputMax
        /\ 0 \in 0 .. InputMax
    BY <1>1, ShellAssumption DEF TypeCharacter, TypeBackspace, ShellTypeOK
  <2> QED
    BY <1>6, <2>1, KeysLeaveIt DEF TypeCharacter, TypeBackspace, Enter
<1>7. CASE GuiCommand
  BY <1>1, <1>7, StepType DEF IInv, Served, GuiCommand, GraphicsMode, KeyIrq, KeyPasses
<1>8. CASE Reboot
  <2>1. Served'
    BY <1>1, <1>8 DEF Served, Reboot, Hang, Restart, KeyIrq, KeyPasses
  <2> QED BY <1>8, <2>1, StepType DEF IInv
<1>9. CASE UNCHANGED shellVars
  BY <1>1, <1>9 DEF IInv, Served, ShellTypeOK, shellVars
<1> QED
  BY <1>2, <1>3, <1>4, <1>5, <1>6, <1>7, <1>8, <1>9 DEF ShellNext

(* keyboard_handler never runs twice at a time, although its gui command
   enables interrupts before it ends the one it is in (kernel.c:176); and
   whenever the shell waits for a key, neither the PIC nor the processor holds
   it back.  (The controller may: ShellHearsKeys does not hold.) *)
THEOREM ShellIsSound == ShellSpec => []ShellSound
<1>1. IInv => ShellSound
  <2>1. Served => HandlerNotReentered /\ KeysPass
    BY DEF Served, HandlerNotReentered, KeysPass, KeyPasses
  <2> QED BY <2>1 DEF IInv, ShellSound
<1> QED
  BY <1>1, InitIInv, StepIInv, PTL DEF ShellSpec

-----------------------------------------------------------------------------
(***************************************************************************)
(* The reader of the clock chip, which counts up to 24 hours as it is      *)
(* shipped, in either format.                                              *)
(***************************************************************************)

(* While the registers are read the clock stands still, because the wait
   ended with no update due; what has been read is the time it stands at. *)
ClockInv ==
    /\ clock \in 0 .. 1439 /\ hours \in 0 .. 23 /\ minutes \in 0 .. 59
    /\ late = FALSE
    /\ read_pc \in {"wait", "minute", "hour", "convert", "done"}
    /\ read_pc \in {"minute", "hour", "convert"} => stood = {clock}
    /\ read_pc \in {"hour", "convert"} => minute = Coded(clock % 60)
    /\ read_pc = "convert" => hour = Coded(clock \div 60)

(* A minute of the day and its parts. *)
LEMMA PartsOfTime ==
    ASSUME NEW t \in 0 .. 1439
    PROVE  t \div 60 \in 0 .. 23 /\ t % 60 \in 0 .. 59 /\ 60 * (t \div 60) + (t % 60) = t
  OBVIOUS

(* The conversion undoes the chip's format. *)
LEMMA DecimalOfCoded ==
    ASSUME NEW n \in 0 .. 99
    PROVE  Decimal(Coded(n)) = n
<1> DEFINE q == n \div 10
           r == n % 10
           m == q * 16 + r
<1>1. q \in 0 .. 9 /\ r \in 0 .. 9 /\ n = q * 10 + r
  OBVIOUS
<1> HIDE DEF q, r
<1>2. m \div 16 = q /\ m % 16 = r
  BY <1>1
<1> HIDE DEF m
<1>3. CASE Bcd
  BY <1>1, <1>2, <1>3 DEF Decimal, Coded, q, r, m
<1>4. CASE ~Bcd
  BY <1>4 DEF Decimal, Coded
<1> QED
  BY <1>3, <1>4

LEMMA InitClock == ClockInit => ClockInv
  BY PartsOfTime DEF ClockInit, ClockInv, Times

(* What a conversion returns is the time the clock stood at. *)
LEMMA ConvertsTheTime ==
    ASSUME ClockInv, ~TwelveHour, Convert
    PROVE  hours' = clock \div 60 /\ minutes' = clock % 60 /\ stood = {clock}
<1>1. hours' = Decimal(Coded(clock \div 60)) /\ minutes' = Decimal(Coded(clock % 60))
  BY DEF ClockInv, Convert, To24
<1>2. clock \div 60 \in 0 .. 99 /\ clock % 60 \in 0 .. 99
  BY DEF ClockInv
<1> QED
  BY <1>1, <1>2, DecimalOfCoded DEF ClockInv, Convert

LEMMA NextClock ==
    ASSUME ClockInv, ~TwelveHour, [ClockNext]_clockVars
    PROVE  ClockInv'
<1>1. CASE FlagRises
  BY <1>1 DEF ClockInv, FlagRises
<1>2. CASE Update
  <2>1. (clock + 1) % 1440 \in 0 .. 1439
    BY DEF ClockInv
  <2>2. read_pc \in {"wait", "done"}
    BY <1>2 DEF Update, ClockInv
  <2> QED
    BY <1>2, <2>1, <2>2 DEF Update, ClockInv
<1>3. CASE WaitEnds
  BY <1>3 DEF ClockInv, WaitEnds, Waits
<1>4. CASE ReadMinute
  BY <1>4 DEF ClockInv, ReadMinute
<1>5. CASE ReadHour
  BY <1>5 DEF ClockInv, ReadHour, HourRegister
<1>6. CASE Convert
  <2> DEFINE h == clock \div 60
             m == clock % 60
  <2>0. h \in 0 .. 23 /\ m \in 0 .. 59
    BY PartsOfTime DEF ClockInv
  <2>2. hours' = h /\ minutes' = m
    BY <1>6, ConvertsTheTime
  <2> HIDE DEF h, m
  <2>1. hours' \in 0 .. 23 /\ minutes' \in 0 .. 59
    BY <2>0, <2>2
  <2> QED
    BY <1>6, <2>1 DEF ClockInv, Convert
<1>7. CASE Again
  BY <1>7 DEF ClockInv, Again
<1>8. CASE UNCHANGED clockVars
  BY <1>8 DEF ClockInv, clockVars
<1> QED
  BY <1>1, <1>2, <1>3, <1>4, <1>5, <1>6, <1>7, <1>8 DEF ClockNext

(* ClockIsRead: read_rtc returns a time the clock stood at, never the minute
   of one hour with another hour, and the taskbar's digits are digits. *)
THEOREM TimeIsReadWhole == ~TwelveHour => (ClockSpec => ClockIsRead)
<1> SUFFICES ASSUME ~TwelveHour PROVE ClockSpec => ClockIsRead
  OBVIOUS
<1>1. ClockInit => ClockInv
  BY InitClock
<1>2. ClockInv /\ [ClockNext]_clockVars => ClockInv'
  BY NextClock
<1>3. ClockInv => TwoDigits
  BY DEF ClockInv, TwoDigits
<1>4. ClockInv => [Convert => 60 * hours' + minutes' \in stood]_clockVars
  <2> SUFFICES ASSUME ClockInv, Convert PROVE 60 * hours' + minutes' \in stood
    OBVIOUS
  <2>1. 60 * (clock \div 60) + (clock % 60) = clock
    BY PartsOfTime DEF ClockInv
  <2> QED
    BY <2>1, ConvertsTheTime
<1> QED
  BY <1>1, <1>2, <1>3, <1>4, PTL DEF ClockSpec, ClockIsRead, ReadIsATime

-----------------------------------------------------------------------------
(***************************************************************************)
(* The memory of a user program.                                           *)
(***************************************************************************)

LEMMA UserSizes ==
    /\ PAGE \in Nat /\ PAGE > 0 /\ TABLE \in Nat /\ TABLE > 0
    /\ AddressSpace \in Nat /\ AddressSpace > 0 /\ HeapFloor \in Nat
    /\ TrackLimit \in Nat /\ ListSize \in Nat /\ Requests \subseteq Nat
  BY UserHeapAssumption

StackAt == StackPage * PAGE

LEMMA StackIs == StackPage \in Nat /\ StackAt \in Nat /\ StackAt < AddressSpace
  BY UserHeapAssumption DEF StackAt

LEMMA RoomIs ==
    ASSUME NEW a \in Nat, RoomAbove(a)
    PROVE  /\ a + TrackLimit * PAGE + PAGE + PAGE + 8 <= StackAt
           /\ TrackLimit * PAGE \in Nat
           /\ \A size \in Requests :
                 a + TrackLimit * PAGE + PAGE + PAGE + size + 8 <= StackAt
<1>1. (TrackLimit + 2) * PAGE = TrackLimit * PAGE + PAGE + PAGE
  BY UserSizes
<1>2. TrackLimit * PAGE \in Nat
  BY UserSizes
<1> QED
  BY <1>1, <1>2, UserSizes DEF RoomAbove, StackAt

(* Pages and addresses. *)

LEMMA PageIs ==
    ASSUME NEW a \in Nat
    PROVE  /\ PageOf(a) \in Nat
           /\ PageOf(a) * PAGE \in Nat
           /\ PageOf(a) * PAGE <= a /\ a < PageOf(a) * PAGE + PAGE
<1>1. a \div PAGE \in Nat /\ a % PAGE \in 0 .. PAGE - 1 /\ a = (a \div PAGE) * PAGE + (a % PAGE)
  BY UserSizes
<1>2. (a \div PAGE) * PAGE \in Nat
  BY <1>1, UserSizes
<1> QED
  BY <1>1, <1>2, UserSizes DEF PageOf

\* A page that does not begin behind another is not behind it.
LEMMA PagesInOrder ==
    ASSUME NEW u \in Nat, NEW v \in Nat, u * PAGE < v * PAGE + PAGE
    PROVE  u <= v
<1>1. CASE u > v
  <2>1. PICK z \in Nat : u = v + 1 + z
    BY <1>1
  <2>2. u * PAGE = v * PAGE + PAGE + z * PAGE /\ z * PAGE >= 0 /\ v * PAGE \in Nat
    BY <2>1, UserSizes
  <2> QED BY <2>2, UserSizes
<1> QED
  BY <1>1

LEMMA PagesMonotone ==
    ASSUME NEW u \in Nat, NEW v \in Nat, u <= v
    PROVE  u * PAGE \in Nat /\ v * PAGE \in Nat /\ u * PAGE <= v * PAGE
<1>1. PICK z \in Nat : v = u + z
  BY SMT
<1>2. v * PAGE = u * PAGE + z * PAGE /\ z * PAGE >= 0 /\ u * PAGE \in Nat
  BY <1>1, UserSizes
<1> QED
  BY <1>2, UserSizes

LEMMA NextPage ==
    ASSUME NEW v \in Nat
    PROVE  v * PAGE \in Nat /\ (v + 1) * PAGE = v * PAGE + PAGE
  BY UserSizes

LEMMA PageOfByte ==
    ASSUME NEW v \in Nat, NEW b \in BytesOf(v)
    PROVE  b \in Nat /\ PageOf(b) = v
<1>1. v * PAGE \in Nat /\ b \in Nat /\ v * PAGE <= b /\ b < v * PAGE + PAGE
  BY UserSizes DEF BytesOf
<1>2. /\ PageOf(b) \in Nat /\ PageOf(b) * PAGE \in Nat
      /\ PageOf(b) * PAGE <= b /\ b < PageOf(b) * PAGE + PAGE
  BY <1>1, PageIs
<1>3. PageOf(b) * PAGE < v * PAGE + PAGE /\ v * PAGE < PageOf(b) * PAGE + PAGE
  BY <1>1, <1>2, UserSizes
<1>4. PageOf(b) <= v
  BY <1>2, <1>3, PagesInOrder
<1>5. v <= PageOf(b)
  BY <1>2, <1>3, PagesInOrder
<1> QED
  BY <1>1, <1>2, <1>4, <1>5

LEMMA ByteOfPage ==
    ASSUME NEW b \in Nat
    PROVE  b \in BytesOf(PageOf(b))
  BY PageIs, UserSizes DEF BytesOf

LEMMA PageUpIs ==
    ASSUME NEW a \in Nat, a + PAGE <= AddressSpace
    PROVE  /\ PageUp(a) \in Nat /\ PageUp(a) * PAGE \in Nat
           /\ a <= PageUp(a) * PAGE /\ PageUp(a) * PAGE < a + PAGE
<1> DEFINE e == a + PAGE - 1
<1>1. e \in Nat /\ e < AddressSpace
  BY UserSizes
<1> HIDE DEF e
<1>2. e % AddressSpace = e
  BY <1>1, UserSizes
<1>3. PageUp(a) = PageOf(e)
  BY <1>2 DEF PageUp, PageOf, e
<1>4. /\ PageOf(e) \in Nat /\ PageOf(e) * PAGE \in Nat
      /\ PageOf(e) * PAGE <= e /\ e < PageOf(e) * PAGE + PAGE
  BY <1>1, PageIs
<1> QED
  BY <1>3, <1>4, UserSizes DEF e

LEMMA PageUpMonotone ==
    ASSUME NEW a \in Nat, NEW b \in Nat, a <= b, b + PAGE <= AddressSpace
    PROVE  PageUp(a) <= PageUp(b)
<1>1. a + PAGE <= AddressSpace
  BY UserSizes
<1>2. PageUp(a) * PAGE < PageUp(b) * PAGE + PAGE
  BY <1>1, PageUpIs, UserSizes
<1> QED
  BY <1>1, <1>2, PageUpIs, PagesInOrder

LEMMA PageUpOfPage ==
    ASSUME NEW v \in Nat, v * PAGE + PAGE <= AddressSpace
    PROVE  PageUp(v * PAGE) = v
<1>1. v * PAGE \in Nat
  BY UserSizes
<1> DEFINE a == v * PAGE
           u == PageUp(a)
<1>2. u \in Nat /\ u * PAGE \in Nat /\ a <= u * PAGE /\ u * PAGE < a + PAGE
  BY <1>1, PageUpIs
<1>3. u <= v
  BY <1>2, PagesInOrder
<1>4. v <= u
  <2>1. v * PAGE < u * PAGE + PAGE
    BY <1>1, <1>2, UserSizes
  <2> HIDE DEF u
  <2> QED BY <1>2, <2>1, PagesInOrder
<1> QED
  BY <1>2, <1>3, <1>4

(* The inductive invariant. *)

PageStates ==
    [mapped : SUBSET Nat, tables : SUBSET Nat, lost : SUBSET Nat, count : Nat, taken : Nat]

\* The bytes at an address are those of the pages the directory has.
BytesOfPages(f, mapped) == \A b : b \in DOMAIN f <=> b \in Nat /\ PageOf(b) \in mapped

\* How far a segment has been copied.
Upto(s) ==
    IF s < segment THEN End(s)
    ELSE IF s = segment /\ load_pc = "segments" THEN cur_vaddr ELSE Vaddr(s)

Linked(s, b) == IF b < Vaddr(s) + phdr[s].filesz THEN <<s, b - Vaddr(s)>> ELSE ZERO

\* What has been copied is there, except in pages without a table, and all else
\* is zero.
Copied(f) ==
    \A s \in DOMAIN phdr : \A b \in Vaddr(s) .. Upto(s) - 1 :
        PageOf(b) \notin pages.lost => b \in DOMAIN f /\ f[b] = Linked(s, b)
RestIsZero(f) ==
    \A b \in DOMAIN f :
        (\A s \in DOMAIN phdr : b \notin Vaddr(s) .. Upto(s) - 1) => f[b] = ZERO

UserTypes ==
    /\ load_pc \in {"start", "segments", "loaded", "running", "mapping", "failed",
                    "overrun"}
    /\ phdr \in Programs /\ segment \in 1 .. Len(phdr) + 1
    /\ cur_vaddr \in Nat /\ max_user_vaddr \in Nat /\ user_heap_ptr \in Nat
    /\ asked \in Nat /\ vpage \in Nat
    /\ pages \in PageStates
    /\ BytesOfPages(bytes, pages.mapped)

Loading ==
    /\ load_pc = "start" => segment = 1
    /\ load_pc = "segments" =>
          /\ segment \in DOMAIN phdr
          /\ Vaddr(segment) <= cur_vaddr /\ cur_vaddr <= End(segment)
          /\ \A s \in DOMAIN phdr : s <= segment => End(s) <= max_user_vaddr
    /\ load_pc \notin {"running", "mapping", "overrun"} => grants = {}

\* Behind the program there are whole pages up to the end of the heap, and no
\* more of them than the list has entries.
Running ==
    load_pc \in {"loaded", "running", "mapping"} =>
        /\ segment = Len(phdr) + 1
        /\ \A s \in DOMAIN phdr : End(s) <= max_user_vaddr
        /\ PageUp(max_user_vaddr) * PAGE <= user_heap_ptr
        /\ PageUp(user_heap_ptr) <= PageUp(max_user_vaddr) + pages.count
        /\ PageUp(max_user_vaddr) .. PageUp(user_heap_ptr) - 1
              \subseteq pages.mapped \union pages.lost
        /\ \A g \in grants :
              /\ g \in Nat \X Nat
              /\ PageUp(max_user_vaddr) * PAGE <= g[1] /\ g[1] + g[2] <= user_heap_ptr
        /\ \A g, h \in grants : g # h => g[1] + g[2] <= h[1] \/ h[1] + h[2] <= g[1]
        /\ user_heap_ptr + PAGE <= StackAt

\* Nor does the loop of malloc map a page of the program again.
Mapping ==
    load_pc = "mapping" =>
        /\ asked \in Requests
        /\ PageUp(user_heap_ptr) < PageUp(max_user_vaddr) + TrackLimit
        /\ PageUp(user_heap_ptr) <= vpage
        /\ vpage <= PageUp(max_user_vaddr) + pages.count
        /\ PageUp(user_heap_ptr) .. vpage - 1 \subseteq pages.mapped \union pages.lost

UserInv ==
    /\ UserTypes /\ Loading /\ Running /\ Mapping
    /\ RoomAbove(max_user_vaddr)
    /\ BlocksAreTracked
    /\ load_pc \notin {"failed", "overrun"} => Copied(bytes) /\ RestIsZero(bytes)

\* The segments of a program: they end where they should, and apart.
LEMMA SegmentIs ==
    ASSUME WellLinked, UserTypes, NEW s \in DOMAIN phdr
    PROVE  /\ Vaddr(s) \in Nat /\ End(s) \in Nat /\ phdr[s].filesz \in Nat
           /\ Vaddr(s) <= End(s) /\ RoomAbove(End(s))
           /\ \A t \in DOMAIN phdr : s # t => End(s) <= Vaddr(t) \/ End(t) <= Vaddr(s)
<1>1. \A t \in DOMAIN phdr :
         /\ Vaddr(t) \in Nat /\ phdr[t].memsz \in Nat /\ phdr[t].filesz \in Nat
         /\ RoomAbove(Vaddr(t) + phdr[t].memsz)
  <2> DEFINE S == [vaddr : Nat, memsz : Nat, filesz : Nat]
  <2> SUFFICES ASSUME NEW t \in DOMAIN phdr
               PROVE  /\ phdr[t] \in S
                      /\ RoomAbove(Vaddr(t) + phdr[t].memsz)
    BY DEF Vaddr
  <2>1. phdr[t] \in S
    <3>1. phdr \in Seq(S)
      BY UserHeapAssumption DEF UserTypes
    <3> HIDE DEF S
    <3> QED BY <3>1
  <2>2. RoomAbove(phdr[t].vaddr + phdr[t].memsz)
    BY DEF WellLinked, UserTypes
  <2> QED BY <2>1, <2>2 DEF Vaddr
<1>2. \A t \in DOMAIN phdr : End(t) = Vaddr(t) + phdr[t].memsz
  <2> TAKE t \in DOMAIN phdr
  <2> DEFINE e == Vaddr(t) + phdr[t].memsz
  <2>1. e \in Nat /\ e < AddressSpace
    <3>1. e \in Nat
      BY <1>1
    <3> HIDE DEF e
    <3> QED BY <1>1, <3>1, RoomIs, StackIs, UserSizes DEF e
  <2>2. End(t) = e % AddressSpace
    BY DEF End, Vaddr
  <2> HIDE DEF e
  <2>3. e % AddressSpace = e
    BY <2>1, UserSizes
  <2> QED BY <2>2, <2>3 DEF e
<1>3. \A t \in DOMAIN phdr : s # t =>
         \/ Vaddr(s) + phdr[s].memsz <= Vaddr(t)
         \/ Vaddr(t) + phdr[t].memsz <= Vaddr(s)
  BY DEF WellLinked, UserTypes, Vaddr
<1> QED
  BY <1>1, <1>2, <1>3

\* The directory and the bytes after a page more.
LEMMA NewPageIs ==
    ASSUME UserTypes, NEW v \in Nat, NEW fails \in BOOLEAN, BlocksAreTracked
    PROVE  LET m == NewPage(v, fails)
           IN  /\ m \in PageStates
               /\ IF v \in m.mapped THEN m.mapped = pages.mapped \union {v}
                                    ELSE m.mapped = pages.mapped /\ v \in m.lost
               /\ pages.lost \subseteq m.lost /\ pages.mapped \subseteq m.mapped
               /\ m.count \in Nat /\ m.count >= pages.count + 1
               /\ m.count < TrackLimit => m.taken = m.count
<1>1. /\ pages.mapped \in SUBSET Nat /\ pages.tables \in SUBSET Nat
      /\ pages.lost \in SUBSET Nat
      /\ pages.count \in Nat /\ pages.taken \in Nat
      /\ pages = [mapped |-> pages.mapped, tables |-> pages.tables, lost |-> pages.lost,
                  count |-> pages.count, taken |-> pages.taken]
  BY DEF UserTypes, PageStates
<1>3. v \div TABLE \in Nat
  BY UserSizes
<1> DEFINE m == [pages EXCEPT !.count = @ + 1, !.taken = @ + 1]
<1>4. /\ m \in PageStates
      /\ m.mapped = pages.mapped /\ m.tables = pages.tables /\ m.lost = pages.lost
      /\ m.count = pages.count + 1 /\ m.taken = pages.taken + 1
  <2>1. ASSUME NEW c \in Nat, NEW t \in Nat
        PROVE  [pages EXCEPT !.count = c, !.taken = t] \in PageStates
    BY DEF UserTypes, PageStates
  <2>2. pages.count + 1 \in Nat /\ pages.taken + 1 \in Nat
    BY <1>1
  <2>3. m \in PageStates
    BY <2>1, <2>2, Zenon DEF m
  <2>4. /\ m.mapped = pages.mapped /\ m.tables = pages.tables /\ m.lost = pages.lost
        /\ m.count = pages.count + 1 /\ m.taken = pages.taken + 1
    BY <1>1
  <2> QED BY <2>3, <2>4
<1> HIDE DEF m
<1>5. NewPage(v, fails) = map_user_page(m, v, fails)
  BY DEF NewPage, m
<1>6. pages.count < TrackLimit => pages.taken = pages.count
  BY DEF BlocksAreTracked
<1>7. CASE v \div TABLE \in m.tables
  <2> DEFINE n == [m EXCEPT !.mapped = @ \union {v}]
  <2>1. NewPage(v, fails) = n
    BY <1>5, <1>7 DEF map_user_page
  <2>2. /\ n \in PageStates /\ n.mapped = m.mapped \union {v} /\ n.lost = m.lost
        /\ n.count = m.count /\ n.taken = m.taken
    BY <1>4 DEF PageStates
  <2> HIDE DEF n
  <2>3. n.count < TrackLimit => n.taken = n.count
    BY <1>1, <1>4, <1>6, <2>2, UserSizes
  <2> QED BY <1>1, <1>4, <2>1, <2>2, <2>3
<1>8. CASE v \div TABLE \notin m.tables /\ fails
  <2> DEFINE n == [m EXCEPT !.lost = @ \union {v}]
  <2>1. NewPage(v, fails) = n
    BY <1>5, <1>8 DEF map_user_page
  <2>2. /\ n \in PageStates /\ n.lost = m.lost \union {v} /\ n.mapped = m.mapped
        /\ n.count = m.count /\ n.taken = m.taken
    BY <1>4 DEF PageStates
  <2> HIDE DEF n
  <2>3. n.count < TrackLimit => n.taken = n.count
    BY <1>1, <1>4, <1>6, <2>2, UserSizes
  <2>4. IF v \in n.mapped THEN n.mapped = pages.mapped \union {v}
                          ELSE n.mapped = pages.mapped /\ v \in n.lost
    BY <1>4, <2>2
  <2> QED BY <1>1, <1>4, <2>1, <2>2, <2>3, <2>4
<1>9. CASE v \div TABLE \notin m.tables /\ ~fails
  <2> DEFINE c == IF m.count < TrackLimit THEN m.count + 1 ELSE m.count
             n == [mapped |-> m.mapped \union {v}, tables |-> m.tables \union {v \div TABLE},
                   lost |-> m.lost, count |-> c, taken |-> m.taken + 1]
  <2>1. NewPage(v, fails) = n
    BY <1>5, <1>9 DEF map_user_page
  <2>2. /\ c \in Nat /\ c >= pages.count + 1 /\ m.taken + 1 \in Nat
        /\ c < TrackLimit => m.taken + 1 = c
    BY <1>1, <1>4, <1>6, UserSizes
  <2> HIDE DEF c
  <2>3. /\ n \in PageStates /\ n.mapped = m.mapped \union {v} /\ n.lost = m.lost
        /\ n.count = c /\ n.taken = m.taken + 1
    BY <1>1, <1>3, <1>4, <2>2 DEF PageStates
  <2> HIDE DEF n
  <2> QED BY <1>4, <2>1, <2>2, <2>3
<1> QED
  BY <1>7, <1>8, <1>9

LEMMA ZeroedIs ==
    ASSUME UserTypes, NEW v \in Nat, Copied(bytes), RestIsZero(bytes),
           v \notin pages.lost =>
              \A s \in DOMAIN phdr : \A b \in Vaddr(s) .. Upto(s) - 1 : b \notin BytesOf(v)
    PROVE  /\ BytesOfPages(Zeroed(v), pages.mapped \union {v})
           /\ Copied(Zeroed(v)) /\ RestIsZero(Zeroed(v))
<1> DEFINE f == Zeroed(v)
<1>1. DOMAIN f = DOMAIN bytes \union BytesOf(v)
  BY DEF Zeroed
<1>2. \A b \in BytesOf(v) : f[b] = ZERO
  BY DEF Zeroed
<1>3. \A b \in DOMAIN bytes : b \notin BytesOf(v) => f[b] = bytes[b]
  BY DEF Zeroed
<1> HIDE DEF f
<1>4. \A b : b \in BytesOf(v) <=> b \in Nat /\ PageOf(b) = v
  BY PageOfByte, ByteOfPage
<1>5. BytesOfPages(f, pages.mapped \union {v})
  BY <1>1, <1>4 DEF BytesOfPages, UserTypes
<1>6. Copied(f)
  BY <1>1, <1>3, <1>4 DEF Copied
<1>7. RestIsZero(f)
  BY <1>1, <1>2, <1>3 DEF RestIsZero
<1> QED
  BY <1>5, <1>6, <1>7 DEF f

(* The steps. *)

LEMMA UptoIs ==
    ASSUME WellLinked, UserTypes, Loading, NEW s \in DOMAIN phdr
    PROVE  Upto(s) \in Nat /\ Vaddr(s) <= Upto(s) /\ Upto(s) <= End(s)
  BY SegmentIs DEF Upto, Loading, UserTypes

\* A step that copies nothing.
LEMMA CopyKept ==
    ASSUME Copied(bytes), RestIsZero(bytes), UNCHANGED <<bytes, phdr>>,
           pages.lost \subseteq pages'.lost,
           \A s \in DOMAIN phdr : Upto(s)' = Upto(s)
    PROVE  Copied(bytes)' /\ RestIsZero(bytes)'
<1>1. \A s \in DOMAIN phdr : \A b : Linked(s, b)' = Linked(s, b) /\ Vaddr(s)' = Vaddr(s)
  BY DEF Linked, Vaddr
<1>2. DOMAIN bytes' = DOMAIN bytes /\ DOMAIN phdr' = DOMAIN phdr
  OBVIOUS
<1> QED
  BY <1>1, <1>2 DEF Copied, RestIsZero

\* A slot that a program is about to be loaded into.
AtStart ==
    /\ load_pc = "start" /\ phdr \in Programs /\ segment = 1 /\ grants = {}
    /\ pages \in PageStates /\ pages.mapped = {} /\ bytes = <<>>
    /\ max_user_vaddr \in Nat /\ RoomAbove(max_user_vaddr) /\ BlocksAreTracked
    /\ cur_vaddr \in Nat /\ user_heap_ptr \in Nat /\ asked \in Nat /\ vpage \in Nat

LEMMA StartIs == AtStart => UserInv
<1> SUFFICES ASSUME AtStart PROVE UserInv
  OBVIOUS
<1> DEFINE S == [vaddr : Nat, memsz : Nat, filesz : Nat]
<1>1. phdr \in Seq(S)
  BY UserHeapAssumption DEF AtStart
<1>2. Len(phdr) \in Nat /\ DOMAIN phdr = 1 .. Len(phdr) /\ \A s \in DOMAIN phdr : phdr[s] \in S
  <2> HIDE DEF S
  <2> QED BY <1>1
<1>3. BytesOfPages(bytes, pages.mapped)
  BY DEF BytesOfPages, AtStart
<1>5. UserTypes
  BY <1>2, <1>3 DEF AtStart, UserTypes
<1>6. Loading /\ Running /\ Mapping
  BY DEF AtStart, Loading, Running, Mapping
<1>7. \A s \in DOMAIN phdr : Upto(s) = Vaddr(s) /\ Vaddr(s) \in Nat
  BY <1>2 DEF Upto, AtStart, Vaddr
<1>8. Copied(bytes)
  <2>1. \A s \in DOMAIN phdr : Vaddr(s) .. Upto(s) - 1 = {}
    BY <1>7
  <2> QED BY <2>1 DEF Copied
<1>9. RestIsZero(bytes)
  BY DEF RestIsZero, AtStart
<1> QED
  BY <1>5, <1>6, <1>8, <1>9 DEF UserInv, AtStart

LEMMA InitUser == WellLinked /\ UserInit => UserInv
<1> SUFFICES ASSUME WellLinked, UserInit PROVE AtStart
  BY StartIs
<1>1. pages \in PageStates /\ BlocksAreTracked
  BY DEF UserInit, PageStates, BlocksAreTracked
<1>2. RoomAbove(max_user_vaddr)
  BY DEF WellLinked, UserInit
<1> QED
  BY <1>1, <1>2, UserSizes DEF UserInit, AtStart

\* The slot of a load that failed.
LEMMA LoadAgainStarts == WellLinked /\ UserInv /\ LoadAgain => AtStart'
<1> SUFFICES ASSUME WellLinked, UserInv, LoadAgain PROVE AtStart'
  OBVIOUS
<1>1. /\ load_pc = "failed" /\ UserTypes /\ BlocksAreTracked /\ grants = {}
      /\ pages' = [pages EXCEPT !.mapped = {}, !.tables = {}, !.lost = {}]
  BY DEF LoadAgain, UserInv, Loading
<1>2. /\ pages' \in PageStates /\ pages'.mapped = {}
      /\ pages'.count = pages.count /\ pages'.taken = pages.taken
  BY <1>1 DEF UserTypes, PageStates
<1>3. BlocksAreTracked'
  BY <1>1, <1>2 DEF BlocksAreTracked
<1>4. /\ max_user_vaddr' = HeapFloor /\ RoomAbove(HeapFloor)
  BY DEF LoadAgain, WellLinked
<1>5. RoomAbove(max_user_vaddr)'
  BY <1>4 DEF RoomAbove
<1> QED
  BY <1>1, <1>2, <1>3, <1>4, <1>5, UserSizes DEF LoadAgain, AtStart, UserTypes

LEMMA LoadAgainKeeps == WellLinked /\ UserInv /\ LoadAgain => UserInv'
  BY LoadAgainStarts, StartIs, PTL

\* The next segment, when the one before has been copied.
LEMMA SegmentStep ==
    ASSUME WellLinked, UserInv, load_pc \in {"start", "segments"},
           NEW n \in 1 .. Len(phdr) + 1, Segment(n),
           load_pc = "start" => n = 1,
           load_pc = "segments" => n = segment + 1 /\ cur_vaddr >= End(segment),
           UNCHANGED <<phdr, bytes, asked, vpage, grants>>,
           pages' \in PageStates, pages'.mapped = pages.mapped, pages'.lost = pages.lost,
           BlocksAreTracked'
    PROVE  UserInv'
<1>1. /\ UserTypes /\ Loading /\ RoomAbove(max_user_vaddr)
      /\ Copied(bytes) /\ RestIsZero(bytes) /\ grants = {}
  BY DEF UserInv, Loading
<1>2. Len(phdr) \in Nat /\ DOMAIN phdr = 1 .. Len(phdr)
  <2> DEFINE S == [vaddr : Nat, memsz : Nat, filesz : Nat]
  <2>1. phdr \in Seq(S)
    BY <1>1, UserHeapAssumption DEF UserTypes
  <2> HIDE DEF S
  <2> QED BY <2>1
<1>3. \A s \in DOMAIN phdr :
        /\ Vaddr(s) \in Nat /\ End(s) \in Nat /\ Vaddr(s) <= End(s) /\ RoomAbove(End(s))
        /\ Vaddr(s)' = Vaddr(s) /\ End(s)' = End(s)
  BY <1>1, SegmentIs DEF Vaddr, End
<1>4. \A s \in DOMAIN phdr : s < n => End(s) <= max_user_vaddr
  BY <1>1, <1>2 DEF Loading, UserTypes
<1>5. /\ segment' = n /\ n \in Nat
      /\ load_pc' \in {"segments", "loaded"}
      /\ load_pc' = "segments" <=> n <= Len(phdr)
  BY <1>2 DEF Segment
<1>6. CASE n <= Len(phdr)
  <2>1. n \in DOMAIN phdr
    BY <1>2, <1>6
  <2>2. /\ load_pc' = "segments" /\ cur_vaddr' = Vaddr(n)
        /\ max_user_vaddr' = IF End(n) > max_user_vaddr THEN End(n) ELSE max_user_vaddr
        /\ user_heap_ptr' = user_heap_ptr
    BY <1>6 DEF Segment
  <2>3. max_user_vaddr' \in Nat /\ RoomAbove(max_user_vaddr')
    BY <1>1, <1>3, <2>1, <2>2 DEF UserTypes
  <2>4. \A s \in DOMAIN phdr : s <= n => End(s) <= max_user_vaddr'
    <3>1. max_user_vaddr <= max_user_vaddr' /\ End(n) <= max_user_vaddr'
      BY <1>1, <1>3, <2>1, <2>2 DEF UserTypes
    <3>2. \A s \in DOMAIN phdr : s <= n => s < n \/ s = n
      BY <1>2
    <3> QED BY <1>1, <1>3, <1>4, <2>3, <3>1, <3>2 DEF UserTypes
  <2>5. Loading' /\ Running' /\ Mapping'
    BY <1>1, <1>3, <1>5, <2>1, <2>2, <2>4 DEF Loading, Running, Mapping
  <2>6. UserTypes'
    BY <1>1, <1>3, <1>5, <2>1, <2>2, <2>3 DEF UserTypes
  <2>7. \A s \in DOMAIN phdr : Upto(s)' = Upto(s)
    BY <1>1, <1>2, <1>3, <1>5, <2>2 DEF Upto, Loading, UserTypes
  <2>8. Copied(bytes)' /\ RestIsZero(bytes)'
    BY <1>1, <2>7, CopyKept
  <2> QED BY <2>3, <2>5, <2>6, <2>8 DEF UserInv
<1>7. CASE n = Len(phdr) + 1
  <2>1. /\ load_pc' = "loaded" /\ user_heap_ptr' = PageUp(max_user_vaddr) * PAGE
        /\ cur_vaddr' = cur_vaddr /\ max_user_vaddr' = max_user_vaddr
    BY <1>2, <1>7 DEF Segment
  <2> DEFINE v == PageUp(max_user_vaddr)
  <2>2. max_user_vaddr \in Nat /\ max_user_vaddr + PAGE + PAGE <= StackAt
    BY <1>1, RoomIs, StackIs, UserSizes DEF UserTypes
  <2>3. /\ v \in Nat /\ v * PAGE \in Nat /\ v * PAGE + PAGE <= StackAt
        /\ v * PAGE + PAGE <= AddressSpace
    <3>1. v \in Nat /\ v * PAGE \in Nat /\ v * PAGE < max_user_vaddr + PAGE
      <4>1. max_user_vaddr + PAGE <= AddressSpace
        BY <2>2, StackIs, UserSizes
      <4> QED BY <2>2, <4>1, PageUpIs
    <3> HIDE DEF v
    <3> QED BY <2>2, <3>1, StackIs, UserSizes
  <2>4. PageUp(user_heap_ptr') = v /\ user_heap_ptr' \in Nat
    BY <2>1, <2>3, PageUpOfPage
  <2> HIDE DEF v
  <2>5. \A s \in DOMAIN phdr : End(s) <= max_user_vaddr
    BY <1>2, <1>4, <1>7
  <2>6. pages'.count \in Nat
    BY DEF PageStates
  <2>7. /\ v + pages'.count >= v /\ v .. v - 1 = {}
        /\ v * PAGE <= v * PAGE
    BY <2>3, <2>6
  <2>8. Running'
    BY <1>1, <1>3, <1>5, <1>7, <2>1, <2>3, <2>4, <2>5, <2>7 DEF Running, v
  <2>9. Loading' /\ Mapping'
    BY <1>1, <2>1 DEF Loading, Mapping
  <2>10. UserTypes'
    BY <1>1, <1>5, <2>1, <2>4 DEF UserTypes
  <2>11. \A s \in DOMAIN phdr : Upto(s)' = Upto(s)
    BY <1>1, <1>2, <1>3, <1>5, <1>7, <2>1 DEF Upto, Loading, UserTypes
  <2>12. Copied(bytes)' /\ RestIsZero(bytes)'
    BY <1>1, <2>11, CopyKept
  <2> QED BY <1>1, <2>1, <2>8, <2>9, <2>10, <2>12 DEF UserInv
<1> QED
  BY <1>2, <1>6, <1>7

LEMMA CopiedToIs ==
    ASSUME WellLinked, UserTypes, Loading, load_pc = "segments", cur_vaddr < End(segment)
    PROVE  /\ CopiedTo \in Nat /\ cur_vaddr < CopiedTo /\ CopiedTo <= End(segment)
           /\ cur_vaddr .. CopiedTo - 1 \subseteq BytesOf(PageOf(cur_vaddr))
<1> DEFINE v == PageOf(cur_vaddr)
<1>1. /\ v \in Nat /\ v * PAGE \in Nat
      /\ v * PAGE <= cur_vaddr /\ cur_vaddr < v * PAGE + PAGE /\ cur_vaddr \in Nat
  BY PageIs DEF UserTypes
<1>2. (v + 1) * PAGE = v * PAGE + PAGE
  BY <1>1, NextPage
<1>3. End(segment) \in Nat
  BY SegmentIs DEF Loading
<1>4. CopiedTo = IF v * PAGE + PAGE < End(segment) THEN v * PAGE + PAGE ELSE End(segment)
  BY <1>2 DEF CopiedTo
<1> HIDE DEF v
<1>5. CopiedTo \in Nat /\ cur_vaddr < CopiedTo /\ CopiedTo <= End(segment)
      /\ CopiedTo <= v * PAGE + PAGE
  BY <1>1, <1>3, <1>4, UserSizes
<1>6. cur_vaddr .. CopiedTo - 1 \subseteq v * PAGE .. v * PAGE + PAGE - 1
  BY <1>1, <1>5, UserSizes
<1> QED
  BY <1>5, <1>6 DEF BytesOf, v

\* A copy into a page that is there.
LEMMA FilledIs ==
    ASSUME WellLinked, UserTypes, Loading, load_pc = "segments", cur_vaddr < End(segment),
           NEW f, Copied(f), RestIsZero(f), BytesOf(PageOf(cur_vaddr)) \subseteq DOMAIN f,
           bytes' = Filled(f), cur_vaddr' = CopiedTo, UNCHANGED <<load_pc, phdr, segment>>,
           pages.lost \subseteq pages'.lost
    PROVE  DOMAIN bytes' = DOMAIN f /\ Copied(bytes)' /\ RestIsZero(bytes)'
<1> DEFINE Part == cur_vaddr .. CopiedTo - 1
<1>1. /\ CopiedTo \in Nat /\ cur_vaddr \in Nat /\ cur_vaddr < CopiedTo
      /\ CopiedTo <= End(segment)
      /\ segment \in DOMAIN phdr /\ Vaddr(segment) <= cur_vaddr
  BY CopiedToIs DEF Loading, UserTypes
<1>2. Part \subseteq DOMAIN f
  BY CopiedToIs
<1>3. \A s \in DOMAIN phdr :
        /\ Vaddr(s) \in Nat /\ End(s) \in Nat /\ phdr[s].filesz \in Nat
        /\ Upto(s) \in Nat /\ Vaddr(s) <= Upto(s) /\ Upto(s) <= End(s)
        /\ \A t \in DOMAIN phdr : s # t => End(s) <= Vaddr(t) \/ End(t) <= Vaddr(s)
  BY SegmentIs, UptoIs
<1>4. \A s \in DOMAIN phdr :
        /\ Vaddr(s)' = Vaddr(s)
        /\ Upto(s)' = IF s = segment THEN CopiedTo ELSE Upto(s)
        /\ \A b : Linked(s, b)' = Linked(s, b)
  <2> SUFFICES ASSUME NEW s \in DOMAIN phdr
               PROVE  /\ Vaddr(s)' = Vaddr(s)
                      /\ Upto(s)' = IF s = segment THEN CopiedTo ELSE Upto(s)
                      /\ \A b : Linked(s, b)' = Linked(s, b)
    OBVIOUS
  <2>1. Vaddr(s)' = Vaddr(s) /\ End(s)' = End(s)
    BY DEF Vaddr, End
  <2>2. ~(segment < segment)
    BY DEF UserTypes
  <2>3. Upto(s)' = IF s = segment THEN CopiedTo ELSE Upto(s)
    BY <2>1, <2>2, Zenon DEF Upto
  <2>4. \A b : Linked(s, b)' = Linked(s, b)
    BY <2>1 DEF Linked
  <2> QED BY <2>1, <2>3, <2>4
<1>5. /\ DOMAIN bytes' = DOMAIN f
      /\ \A b \in DOMAIN f : b \notin Part => bytes'[b] = f[b]
      /\ \A b \in DOMAIN f : b \in Part =>
            bytes'[b] = IF b - Vaddr(segment) < phdr[segment].filesz
                        THEN <<segment, b - Vaddr(segment)>> ELSE f[b]
  BY DEF Filled
<1>6. Upto(segment) = cur_vaddr
  BY <1>1 DEF Upto, UserTypes
<1> HIDE DEF Part
<1>7. \A b \in Part : b \in Nat /\ cur_vaddr <= b /\ b < CopiedTo
  BY <1>1 DEF Part
<1>8. \A b : b \in Nat /\ cur_vaddr <= b /\ b < CopiedTo => b \in Part
  BY <1>1 DEF Part
<1>9. \A s \in DOMAIN phdr : s # segment =>
        \A b \in Vaddr(s) .. Upto(s) - 1 : b \notin Part
  BY <1>1, <1>3, <1>7
<1>10. \A b \in Part : \A s \in DOMAIN phdr : b \notin Vaddr(s) .. Upto(s) - 1
  <2>1. \A b \in Part : b \notin Vaddr(segment) .. Upto(segment) - 1
    BY <1>1, <1>3, <1>6, <1>7
  <2> QED BY <1>9, <2>1
<1>11. \A b \in Part : bytes'[b] = Linked(segment, b)
  <2> SUFFICES ASSUME NEW b \in Part PROVE bytes'[b] = Linked(segment, b)
    OBVIOUS
  <2>1. f[b] = ZERO
    BY <1>2, <1>10 DEF RestIsZero
  <2>2. bytes'[b] = IF b - Vaddr(segment) < phdr[segment].filesz
                    THEN <<segment, b - Vaddr(segment)>> ELSE ZERO
    BY <1>2, <1>5, <2>1
  <2>3. (b - Vaddr(segment) < phdr[segment].filesz)
          <=> (b < Vaddr(segment) + phdr[segment].filesz)
    BY <1>1, <1>3, <1>7
  <2> QED BY <2>2, <2>3 DEF Linked
<1>12. Copied(bytes)'
  <2> SUFFICES ASSUME NEW s \in DOMAIN phdr, NEW b \in Vaddr(s) .. Upto(s)' - 1,
                      PageOf(b) \notin pages.lost
               PROVE  b \in DOMAIN f /\ bytes'[b] = Linked(s, b)
    BY <1>4, <1>5 DEF Copied
  <2>1. CASE s # segment
    <3>1. b \in DOMAIN f /\ f[b] = Linked(s, b) /\ b \notin Part
      BY <1>4, <1>9, <2>1 DEF Copied
    <3> QED BY <1>5, <3>1
  <2>2. CASE s = segment /\ b \in Part
    BY <1>2, <1>11, <2>2
  <2>3. CASE s = segment /\ b \notin Part
    <3>1. b \in Vaddr(s) .. Upto(s) - 1
      BY <1>1, <1>3, <1>4, <1>6, <1>8, <2>3
    <3>2. b \in DOMAIN f /\ f[b] = Linked(s, b)
      BY <3>1 DEF Copied
    <3> QED BY <1>5, <2>3, <3>2
  <2> QED BY <2>1, <2>2, <2>3
<1>13. RestIsZero(bytes)'
  <2> SUFFICES ASSUME NEW b \in DOMAIN f,
                      \A s \in DOMAIN phdr : b \notin Vaddr(s) .. Upto(s)' - 1
               PROVE  bytes'[b] = ZERO
    BY <1>4, <1>5 DEF RestIsZero
  <2>1. b \notin Part
    <3>1. b \notin Vaddr(segment) .. CopiedTo - 1
      BY <1>1, <1>4
    <3> QED BY <1>1, <1>3, <1>7, <3>1
  <2>2. \A s \in DOMAIN phdr : b \notin Vaddr(s) .. Upto(s) - 1
    <3>1. \A s \in DOMAIN phdr : s # segment => b \notin Vaddr(s) .. Upto(s) - 1
      BY <1>4
    <3>2. b \notin Vaddr(segment) .. Upto(segment) - 1
      <4>1. b \notin Vaddr(segment) .. CopiedTo - 1
        BY <1>1, <1>4
      <4> QED BY <1>1, <1>3, <1>6, <4>1
    <3> QED BY <3>1, <3>2
  <2> QED BY <1>5, <2>1, <2>2 DEF RestIsZero
<1> QED
  BY <1>5, <1>12, <1>13

\* A page for which there is no table: what belongs there is nowhere.
LEMMA LostIs ==
    ASSUME WellLinked, UserTypes, Loading, load_pc = "segments", cur_vaddr < End(segment),
           Copied(bytes), RestIsZero(bytes),
           cur_vaddr' = CopiedTo, UNCHANGED <<load_pc, phdr, segment, bytes>>,
           pages.lost \subseteq pages'.lost, PageOf(cur_vaddr) \in pages'.lost
    PROVE  Copied(bytes)' /\ RestIsZero(bytes)'
<1> DEFINE v == PageOf(cur_vaddr)
<1>1. /\ CopiedTo \in Nat /\ cur_vaddr \in Nat /\ cur_vaddr < CopiedTo
      /\ segment \in DOMAIN phdr /\ segment \in Nat /\ v \in Nat /\ v \in pages'.lost
      /\ \A b \in cur_vaddr .. CopiedTo - 1 : b \in BytesOf(v)
  <2>1. cur_vaddr \in Nat /\ segment \in Nat
    BY DEF UserTypes
  <2>2. segment \in DOMAIN phdr
    BY DEF Loading
  <2>3. /\ CopiedTo \in Nat /\ cur_vaddr < CopiedTo
        /\ cur_vaddr .. CopiedTo - 1 \subseteq BytesOf(v)
    BY CopiedToIs
  <2> QED BY <2>1, <2>2, <2>3, PageIs
<1> HIDE DEF v
<1>2. \A s \in DOMAIN phdr :
        /\ Vaddr(s) \in Nat /\ Upto(s) \in Nat /\ Vaddr(s)' = Vaddr(s) /\ End(s)' = End(s)
        /\ \A b : Linked(s, b)' = Linked(s, b)
  BY SegmentIs, UptoIs DEF Vaddr, End, Linked
<1>3. \A s \in DOMAIN phdr :
         Upto(s) = IF s = segment THEN cur_vaddr ELSE Upto(s)
  BY <1>1 DEF Upto
<1>4. \A s \in DOMAIN phdr :
         Upto(s)' = IF s = segment THEN CopiedTo ELSE Upto(s)
  <2> TAKE s \in DOMAIN phdr
  <2>1. ~(segment < segment)
    BY <1>1
  <2> QED BY <1>2, <2>1, Zenon DEF Upto
<1>5. Copied(bytes)'
  <2> SUFFICES ASSUME NEW s \in DOMAIN phdr, NEW b \in Vaddr(s) .. Upto(s)' - 1,
                      PageOf(b) \notin pages'.lost
               PROVE  b \in DOMAIN bytes /\ bytes[b] = Linked(s, b)
    BY <1>2 DEF Copied
  <2>1. b \in Nat /\ b \notin cur_vaddr .. CopiedTo - 1
    BY <1>1, <1>2, <1>4, PageOfByte
  <2>2. b \in Vaddr(s) .. Upto(s) - 1
    BY <1>1, <1>2, <1>3, <1>4, <2>1
  <2> QED BY <2>2 DEF Copied
<1>6. RestIsZero(bytes)'
  <2> SUFFICES ASSUME NEW b \in DOMAIN bytes,
                      \A s \in DOMAIN phdr : b \notin Vaddr(s) .. Upto(s)' - 1
               PROVE  bytes[b] = ZERO
    BY <1>2 DEF RestIsZero
  <2>1. \A s \in DOMAIN phdr : b \notin Vaddr(s) .. Upto(s) - 1
    BY <1>1, <1>2, <1>3, <1>4
  <2> QED BY <2>1 DEF RestIsZero
<1> QED
  BY <1>5, <1>6

LEMMA LoadPageKeeps ==
    ASSUME WellLinked, UserInv, LoadPage
    PROVE  UserInv'
<1> DEFINE v == PageOf(cur_vaddr)
<1>1. /\ UserTypes /\ Loading /\ RoomAbove(max_user_vaddr) /\ BlocksAreTracked
      /\ Copied(bytes) /\ RestIsZero(bytes) /\ grants = {}
      /\ load_pc = "segments" /\ cur_vaddr < End(segment)
      /\ segment \in DOMAIN phdr
      /\ UNCHANGED <<phdr, segment, max_user_vaddr, user_heap_ptr, asked, vpage, grants>>
  BY DEF UserInv, Loading, LoadPage
<1>2. v \in Nat /\ \A b \in BytesOf(v) : b \in Nat /\ PageOf(b) = v
  BY <1>1, PageIs, PageOfByte DEF UserTypes
<1>3. /\ CopiedTo \in Nat /\ cur_vaddr < CopiedTo /\ CopiedTo <= End(segment)
      /\ Vaddr(segment) <= cur_vaddr
      /\ Vaddr(segment)' = Vaddr(segment)
      /\ \A s \in DOMAIN phdr : End(s)' = End(s) /\ End(s) \in Nat
      /\ Vaddr(segment) \in Nat /\ cur_vaddr \in Nat
  BY <1>1, CopiedToIs, SegmentIs DEF Loading, Vaddr, End, UserTypes
<1> HIDE DEF v
\* What is left to show when the step has come to the end of the page.
<1>8. ASSUME load_pc' = "segments", cur_vaddr' = CopiedTo,
             pages' \in PageStates, BytesOfPages(bytes', pages'.mapped), BlocksAreTracked',
             Copied(bytes)', RestIsZero(bytes)'
      PROVE  UserInv'
  <2>2. UserTypes'
    BY <1>1, <1>3, <1>8 DEF UserTypes
  <2>3. Loading'
    BY <1>1, <1>3, <1>8 DEF Loading
  <2>4. Running' /\ Mapping'
    BY <1>8 DEF Running, Mapping
  <2> QED BY <1>1, <1>8, <2>2, <2>3, <2>4 DEF UserInv
\* The same of a page copied.
<1>4. ASSUME load_pc' = "segments", cur_vaddr' = CopiedTo,
             NEW f, Copied(f), RestIsZero(f), bytes' = Filled(f), BytesOf(v) \subseteq DOMAIN f,
             pages' \in PageStates, BytesOfPages(f, pages'.mapped), BlocksAreTracked',
             pages.lost \subseteq pages'.lost
      PROVE  UserInv'
  <2>1. DOMAIN bytes' = DOMAIN f /\ Copied(bytes)' /\ RestIsZero(bytes)'
    BY <1>1, <1>4, FilledIs DEF v
  <2>2. BytesOfPages(bytes', pages'.mapped)
    BY <1>4, <2>1 DEF BytesOfPages
  <2> QED BY <1>4, <1>8, <2>1, <2>2
<1>5. CASE /\ v \in pages.mapped
           /\ bytes' = Filled(bytes)
           /\ cur_vaddr' = CopiedTo
           /\ UNCHANGED <<load_pc, pages>>
  <2>1. BytesOf(v) \subseteq DOMAIN bytes
    BY <1>1, <1>2, <1>5 DEF UserTypes, BytesOfPages
  <2>2. pages' \in PageStates /\ BytesOfPages(bytes, pages'.mapped) /\ BlocksAreTracked'
    BY <1>1, <1>5 DEF UserTypes, BlocksAreTracked
  <2> QED BY <1>1, <1>4, <1>5, <2>1, <2>2
<1>6. CASE /\ v \notin pages.mapped
           /\ \E fails \in Fails("table") :
                 /\ pages' = NewPage(v, fails)
                 /\ bytes' = IF v \in pages'.mapped THEN Filled(Zeroed(v)) ELSE bytes
           /\ cur_vaddr' = CopiedTo
           /\ UNCHANGED load_pc
  <2>1. PICK fails \in BOOLEAN :
           /\ pages' = NewPage(v, fails)
           /\ bytes' = IF v \in pages'.mapped THEN Filled(Zeroed(v)) ELSE bytes
    BY <1>6 DEF Fails
  <2>2. /\ pages' \in PageStates
        /\ IF v \in pages'.mapped THEN pages'.mapped = pages.mapped \union {v}
                                  ELSE pages'.mapped = pages.mapped /\ v \in pages'.lost
        /\ pages.lost \subseteq pages'.lost
        /\ BlocksAreTracked'
    BY <1>1, <1>2, <2>1, NewPageIs DEF BlocksAreTracked
  <2>3. v \notin pages.lost =>
           \A s \in DOMAIN phdr : \A b \in Vaddr(s) .. Upto(s) - 1 : b \notin BytesOf(v)
    BY <1>1, <1>2, <1>6 DEF Copied, UserTypes, BytesOfPages
  <2>4. CASE v \in pages'.mapped
    <3>1. /\ BytesOfPages(Zeroed(v), pages'.mapped)
          /\ Copied(Zeroed(v)) /\ RestIsZero(Zeroed(v))
      BY <1>1, <1>2, <2>2, <2>3, <2>4, ZeroedIs
    <3>2. BytesOf(v) \subseteq DOMAIN Zeroed(v)
      BY DEF Zeroed
    <3>3. bytes' = Filled(Zeroed(v))
      BY <2>1, <2>4
    <3> QED BY <1>1, <1>4, <1>6, <2>2, <3>1, <3>2, <3>3
  <2>5. CASE v \notin pages'.mapped
    <3>1. bytes' = bytes /\ pages'.mapped = pages.mapped /\ v \in pages'.lost
      BY <2>1, <2>2, <2>5
    <3>2. Copied(bytes)' /\ RestIsZero(bytes)'
      BY <1>1, <1>6, <2>2, <3>1, LostIs DEF v
    <3>3. BytesOfPages(bytes', pages'.mapped)
      BY <1>1, <3>1 DEF UserTypes
    <3> QED BY <1>1, <1>6, <1>8, <2>2, <3>2, <3>3
  <2> QED BY <2>4, <2>5
<1>7. CASE load_pc' = "failed" /\ UNCHANGED <<pages, bytes, cur_vaddr>>
  <2>1. UserTypes' /\ BlocksAreTracked'
    BY <1>1, <1>7 DEF UserTypes, BlocksAreTracked, BytesOfPages
  <2>2. Loading' /\ Running' /\ Mapping'
    BY <1>1, <1>7 DEF Loading, Running, Mapping
  <2> QED BY <1>1, <1>7, <2>1, <2>2 DEF UserInv
<1> QED
  BY <1>5, <1>6, <1>7 DEF LoadPage, v

\* What the mapping loop is about to return does not wrap around.
LEMMA NextHeapIs ==
    ASSUME WellLinked, UserInv, load_pc = "mapping"
    PROVE  /\ next_heap \in Nat /\ user_heap_ptr + asked <= next_heap
           /\ next_heap + PAGE <= StackAt
<1> DEFINE v == PageUp(max_user_vaddr)
           u == PageUp(user_heap_ptr)
           T == TrackLimit * PAGE
           x == asked + 7
<1>1. /\ max_user_vaddr \in Nat /\ user_heap_ptr \in Nat /\ asked \in Nat
      /\ asked \in Requests /\ RoomAbove(max_user_vaddr)
      /\ user_heap_ptr + PAGE <= StackAt /\ u < v + TrackLimit
  BY DEF UserInv, UserTypes, Running, Mapping
<1>2. /\ T \in Nat
      /\ max_user_vaddr + T + PAGE + PAGE + 8 <= StackAt
      /\ max_user_vaddr + T + PAGE + PAGE + asked + 8 <= StackAt
  BY <1>1, RoomIs
<1> HIDE DEF T
<1>3. max_user_vaddr + PAGE <= AddressSpace /\ user_heap_ptr + PAGE <= AddressSpace
  BY <1>1, <1>2, StackIs, UserSizes
<1>4. v \in Nat /\ v * PAGE \in Nat /\ v * PAGE < max_user_vaddr + PAGE
  BY <1>1, <1>3, PageUpIs
<1>5. u \in Nat /\ u * PAGE \in Nat /\ user_heap_ptr <= u * PAGE
  BY <1>1, <1>3, PageUpIs
<1> HIDE DEF u, v
<1>6. u * PAGE <= (v + TrackLimit) * PAGE
  BY <1>1, <1>4, <1>5, PagesMonotone, UserSizes
<1>7. (v + TrackLimit) * PAGE = v * PAGE + T
  BY <1>4, UserSizes DEF T
<1>8. user_heap_ptr <= max_user_vaddr + PAGE + T
  BY <1>1, <1>2, <1>4, <1>5, <1>6, <1>7, UserSizes
<1>9. Aligned(asked) \in Nat /\ asked <= Aligned(asked) /\ Aligned(asked) <= asked + 7
  <2>1. x \in Nat /\ x < AddressSpace
    BY <1>1, <1>2, StackIs, UserSizes
  <2> HIDE DEF x
  <2>2. x % AddressSpace = x
    BY <2>1, UserSizes
  <2>3. /\ (x \div 8) * 8 \in Nat /\ (x \div 8) * 8 <= x /\ x < (x \div 8) * 8 + 8
    BY <2>1
  <2>4. Aligned(asked) = (x \div 8) * 8
    BY <2>2 DEF Aligned, x
  <2> QED BY <1>1, <2>3, <2>4 DEF x
<1> DEFINE e == user_heap_ptr + Aligned(asked)
<1>10. /\ e \in Nat /\ user_heap_ptr + asked <= e /\ e + PAGE <= StackAt
       /\ e < AddressSpace
  BY <1>1, <1>2, <1>8, <1>9, StackIs, UserSizes
<1>11. next_heap = e % AddressSpace
  BY DEF next_heap
<1> HIDE DEF e
<1>12. next_heap = e
  BY <1>10, <1>11, UserSizes
<1> QED
  BY <1>10, <1>12

\* Where the heap of a running program lies.
LEMMA HeapIs ==
    ASSUME WellLinked, UserInv, load_pc \in {"loaded", "running", "mapping"}
    PROVE  LET v == PageUp(max_user_vaddr)
               u == PageUp(user_heap_ptr)
           IN  /\ v \in Nat /\ v * PAGE \in Nat /\ max_user_vaddr <= v * PAGE
               /\ u \in Nat /\ u * PAGE \in Nat /\ user_heap_ptr <= u * PAGE
               /\ v <= u
<1> DEFINE v == PageUp(max_user_vaddr)
           u == PageUp(user_heap_ptr)
<1>1. /\ max_user_vaddr \in Nat /\ user_heap_ptr \in Nat /\ RoomAbove(max_user_vaddr)
      /\ user_heap_ptr + PAGE <= StackAt /\ v * PAGE <= user_heap_ptr
  BY DEF UserInv, UserTypes, Running
<1>2. max_user_vaddr + PAGE <= AddressSpace /\ user_heap_ptr + PAGE <= AddressSpace
  <2>1. /\ TrackLimit * PAGE \in Nat
        /\ max_user_vaddr + TrackLimit * PAGE + PAGE + PAGE + 8 <= StackAt
    BY <1>1, RoomIs
  <2> DEFINE T == TrackLimit * PAGE
  <2> HIDE DEF T
  <2> QED BY <1>1, <2>1, StackIs, UserSizes DEF T
<1>3. v \in Nat /\ v * PAGE \in Nat /\ max_user_vaddr <= v * PAGE
  BY <1>1, <1>2, PageUpIs
<1>4. u \in Nat /\ u * PAGE \in Nat /\ user_heap_ptr <= u * PAGE
  BY <1>1, <1>2, PageUpIs
<1> HIDE DEF u, v
<1>5. v * PAGE < u * PAGE + PAGE
  BY <1>1, <1>3, <1>4, UserSizes
<1>6. v <= u
  BY <1>3, <1>4, <1>5, PagesInOrder
<1> QED
  BY <1>3, <1>4, <1>6 DEF u, v

\* The calls of malloc copy nothing.
LEMMA UptoOfRunning ==
    ASSUME load_pc \in {"loaded", "running", "mapping"},
           load_pc' \in {"loaded", "running", "mapping"},
           UNCHANGED <<phdr, segment>>
    PROVE  \A s \in DOMAIN phdr : Upto(s)' = Upto(s) /\ Vaddr(s)' = Vaddr(s)
  BY DEF Upto, End, Vaddr

LEMMA MallocKeeps ==
    ASSUME WellLinked, UserInv, NEW size \in Requests, Malloc(size)
    PROVE  UserInv'
<1>1. /\ load_pc = "running" /\ pages.count < TrackLimit
      /\ load_pc' = "mapping" /\ asked' = size /\ vpage' = PageUp(user_heap_ptr)
      /\ UNCHANGED <<phdr, segment, cur_vaddr, max_user_vaddr, pages, bytes,
                     user_heap_ptr, grants>>
  BY DEF Malloc
<1>2. /\ UserTypes /\ Running /\ RoomAbove(max_user_vaddr) /\ BlocksAreTracked
      /\ Copied(bytes) /\ RestIsZero(bytes) /\ size \in Nat /\ pages.count \in Nat
  BY <1>1, UserSizes DEF UserInv, UserTypes, PageStates
<1>3. /\ PageUp(max_user_vaddr) \in Nat /\ PageUp(user_heap_ptr) \in Nat
      /\ PageUp(user_heap_ptr) <= PageUp(max_user_vaddr) + pages.count
  BY <1>1, HeapIs DEF UserInv, Running
<1>4. PageUp(user_heap_ptr) .. PageUp(user_heap_ptr) - 1 = {}
  BY <1>3
<1>5. PageUp(user_heap_ptr) < PageUp(max_user_vaddr) + TrackLimit
  BY <1>1, <1>2, <1>3, UserSizes
<1>6. Mapping'
  BY <1>1, <1>3, <1>4, <1>5 DEF Mapping
<1>7. Running' /\ Loading'
  <2>1. \A s : End(s)' = End(s)
    BY <1>1 DEF End
  <2> QED BY <1>1, <1>2, <2>1 DEF Running, Loading
<1>8. UserTypes' /\ BlocksAreTracked'
  BY <1>1, <1>2, <1>3 DEF UserTypes, BlocksAreTracked, BytesOfPages
<1>9. Copied(bytes)' /\ RestIsZero(bytes)'
  BY <1>1, <1>2, CopyKept, UptoOfRunning
<1> QED
  BY <1>1, <1>2, <1>6, <1>7, <1>8, <1>9 DEF UserInv

LEMMA MallocReturnsKeeps ==
    ASSUME WellLinked, UserInv, MallocReturns
    PROVE  UserInv'
<1> DEFINE v == PageUp(max_user_vaddr)
           u == PageUp(user_heap_ptr)
           n == PageUp(next_heap)
<1>1. /\ load_pc = "mapping" /\ vpage >= n
      /\ grants' = grants \union {<<user_heap_ptr, asked>>}
      /\ user_heap_ptr' = next_heap
      /\ load_pc' = "running" /\ asked' = 0 /\ vpage' = 0
      /\ UNCHANGED <<phdr, segment, cur_vaddr, max_user_vaddr, pages, bytes>>
  BY DEF MallocReturns, Needed
<1>2. /\ UserTypes /\ Running /\ Mapping /\ RoomAbove(max_user_vaddr) /\ BlocksAreTracked
      /\ Copied(bytes) /\ RestIsZero(bytes)
      /\ user_heap_ptr \in Nat /\ asked \in Nat /\ vpage \in Nat /\ pages.count \in Nat
  BY <1>1 DEF UserInv, UserTypes, PageStates
<1>3. v \in Nat /\ v * PAGE \in Nat /\ u \in Nat /\ v <= u /\ v * PAGE <= user_heap_ptr
  BY <1>1, <1>2, HeapIs DEF Running
<1>4. /\ next_heap \in Nat /\ user_heap_ptr + asked <= next_heap
      /\ next_heap + PAGE <= StackAt /\ n \in Nat
  <2>1. /\ next_heap \in Nat /\ user_heap_ptr + asked <= next_heap
        /\ next_heap + PAGE <= StackAt
    BY <1>1, NextHeapIs
  <2>2. next_heap + PAGE <= AddressSpace
    BY <2>1, StackIs, UserSizes
  <2> QED BY <2>1, <2>2, PageUpIs
<1>5. /\ v .. u - 1 \subseteq pages.mapped \union pages.lost
      /\ u .. vpage - 1 \subseteq pages.mapped \union pages.lost
      /\ vpage <= v + pages.count
  BY <1>1, <1>2 DEF Running, Mapping
<1>6. \A g \in grants :
         /\ g \in Nat \X Nat /\ v * PAGE <= g[1] /\ g[1] + g[2] <= user_heap_ptr
  BY <1>1, <1>2 DEF Running
<1>7. \A g, h \in grants : g # h => g[1] + g[2] <= h[1] \/ h[1] + h[2] <= g[1]
  BY <1>1, <1>2 DEF Running
<1> HIDE DEF u, v, n
<1>8. v .. n - 1 \subseteq pages.mapped \union pages.lost /\ n <= v + pages.count
  <2>1. n <= v + pages.count
    BY <1>1, <1>2, <1>3, <1>4, <1>5
  <2>2. \A p \in v .. n - 1 : p \in v .. u - 1 \/ p \in u .. vpage - 1
    BY <1>1, <1>2, <1>3, <1>4
  <2> QED BY <1>5, <2>1, <2>2
<1> DEFINE new == <<user_heap_ptr, asked>>
<1>9. /\ new \in Nat \X Nat /\ new[1] = user_heap_ptr /\ new[2] = asked
  BY <1>2
<1>10. \A g \in grants' : g \in grants \/ g = new
  BY <1>1
<1> HIDE DEF new
<1>11. \A g \in grants' :
          /\ g \in Nat \X Nat /\ v * PAGE <= g[1] /\ g[1] + g[2] <= next_heap
  <2> TAKE g \in grants'
  <2>1. CASE g \in grants
    <3>1. g[1] \in Nat /\ g[2] \in Nat /\ g[1] + g[2] <= user_heap_ptr
      BY <1>6, <2>1
    <3>2. g[1] + g[2] <= next_heap
      BY <1>2, <1>4, <3>1
    <3> QED BY <1>6, <2>1, <3>2
  <2>2. CASE g = new
    BY <1>3, <1>4, <1>9, <2>2
  <2> QED BY <1>10, <2>1, <2>2
<1>12. \A g, h \in grants' : g # h => g[1] + g[2] <= h[1] \/ h[1] + h[2] <= g[1]
  BY <1>6, <1>7, <1>9, <1>10
<1>13. Running'
  <2>1. \A s : End(s)' = End(s)
    BY <1>1 DEF End
  <2>2. /\ segment = Len(phdr) + 1
        /\ \A s \in DOMAIN phdr : End(s) <= max_user_vaddr
    BY <1>1, <1>2 DEF Running
  <2>3. v * PAGE <= next_heap
    BY <1>2, <1>3, <1>4
  <2> QED BY <1>1, <1>4, <1>8, <1>11, <1>12, <2>1, <2>2, <2>3 DEF Running, v, n
<1>14. Loading' /\ Mapping'
  BY <1>1 DEF Loading, Mapping
<1>15. UserTypes' /\ BlocksAreTracked'
  BY <1>1, <1>2, <1>4 DEF UserTypes, BlocksAreTracked, BytesOfPages
<1>16. Copied(bytes)' /\ RestIsZero(bytes)'
  BY <1>1, <1>2, CopyKept, UptoOfRunning
<1> QED
  BY <1>1, <1>2, <1>13, <1>14, <1>15, <1>16 DEF UserInv

\* What is left to show of a step that maps pages behind the program or none.
LEMMA PageStepKeeps ==
    ASSUME WellLinked, UserInv, load_pc \in {"loaded", "mapping"},
           load_pc' \in {"running", "mapping"},
           UNCHANGED <<phdr, segment, cur_vaddr, max_user_vaddr, user_heap_ptr, grants>>,
           asked' \in Nat, vpage' \in Nat,
           pages' \in PageStates, pages.mapped \subseteq pages'.mapped,
           pages.lost \subseteq pages'.lost,
           pages'.count >= pages.count, BlocksAreTracked', Mapping',
           BytesOfPages(bytes', pages'.mapped), Copied(bytes)', RestIsZero(bytes)'
    PROVE  UserInv'
<1>1. UserTypes /\ Running /\ RoomAbove(max_user_vaddr)
  BY DEF UserInv
<1>2. UserTypes'
  BY <1>1 DEF UserTypes
<1>3. PageUp(user_heap_ptr) <= PageUp(max_user_vaddr) + pages'.count
  <2>1. /\ PageUp(max_user_vaddr) \in Nat /\ PageUp(user_heap_ptr) \in Nat
        /\ PageUp(user_heap_ptr) <= PageUp(max_user_vaddr) + pages.count
    BY <1>1, HeapIs DEF Running
  <2>2. pages.count \in Nat /\ pages'.count \in Nat
    BY <1>1 DEF UserTypes, PageStates
  <2> QED BY <2>1, <2>2
<1>4. Running'
  <2>1. \A s : End(s)' = End(s)
    BY DEF End
  <2>2. PageUp(max_user_vaddr) .. PageUp(user_heap_ptr) - 1
           \subseteq pages'.mapped \union pages'.lost
    BY <1>1 DEF Running
  <2> QED BY <1>1, <1>3, <2>1, <2>2 DEF Running
<1>5. Loading'
  BY DEF Loading
<1> QED
  BY <1>1, <1>2, <1>4, <1>5 DEF UserInv

\* A page behind the program: after it the program is as it was.
LEMMA PageBehind ==
    ASSUME WellLinked, UserInv, load_pc \in {"loaded", "mapping"},
           load_pc' \in {"loaded", "running", "mapping"}, UNCHANGED <<phdr, segment>>,
           NEW p \in Nat, max_user_vaddr <= p * PAGE,
           NEW fails \in BOOLEAN, pages' = NewPage(p, fails),
           bytes' = IF p \in pages'.mapped THEN Zeroed(p) ELSE bytes
    PROVE  /\ pages' \in PageStates /\ BlocksAreTracked'
           /\ pages.mapped \subseteq pages'.mapped /\ pages.lost \subseteq pages'.lost
           /\ p \in pages'.mapped \union pages'.lost
           /\ pages'.count \in Nat /\ pages'.count >= pages.count + 1
           /\ BytesOfPages(bytes', pages'.mapped)
           /\ Copied(bytes)' /\ RestIsZero(bytes)'
<1>1. /\ UserTypes /\ Loading /\ Running /\ BlocksAreTracked
      /\ Copied(bytes) /\ RestIsZero(bytes) /\ BytesOfPages(bytes, pages.mapped)
      /\ max_user_vaddr \in Nat
  BY DEF UserInv, UserTypes
<1>2. /\ pages' \in PageStates
      /\ IF p \in pages'.mapped THEN pages'.mapped = pages.mapped \union {p}
                                ELSE pages'.mapped = pages.mapped /\ p \in pages'.lost
      /\ pages.lost \subseteq pages'.lost /\ pages.mapped \subseteq pages'.mapped
      /\ pages'.count \in Nat /\ pages'.count >= pages.count + 1
      /\ BlocksAreTracked'
  BY <1>1, NewPageIs DEF BlocksAreTracked
<1>3. \A s \in DOMAIN phdr : Upto(s)' = Upto(s) /\ Vaddr(s)' = Vaddr(s)
  BY UptoOfRunning
<1>4. CASE p \notin pages'.mapped
  <2>1. bytes' = bytes /\ pages'.mapped = pages.mapped
    BY <1>2, <1>4
  <2> QED BY <1>1, <1>2, <1>3, <2>1, CopyKept
<1>5. CASE p \in pages'.mapped
  <2>1. bytes' = Zeroed(p) /\ pages'.mapped = pages.mapped \union {p}
    BY <1>2, <1>5
  <2>2. \A s \in DOMAIN phdr : \A b \in Vaddr(s) .. Upto(s) - 1 : b \notin BytesOf(p)
    <3> DEFINE w == p * PAGE
    <3>1. w \in Nat /\ max_user_vaddr <= w
      BY NextPage
    <3>2. \A b \in BytesOf(p) : b >= w
      BY <3>1, UserSizes DEF BytesOf
    <3>3. \A s \in DOMAIN phdr :
             /\ Vaddr(s) \in Nat /\ Upto(s) \in Nat /\ End(s) \in Nat
             /\ Upto(s) <= End(s) /\ End(s) <= max_user_vaddr
      BY <1>1, SegmentIs, UptoIs DEF Running
    <3> HIDE DEF w
    <3>4. \A s \in DOMAIN phdr : \A b \in Vaddr(s) .. Upto(s) - 1 : ~(b >= w)
      BY <1>1, <3>1, <3>3
    <3> QED BY <3>2, <3>4
  <2>3. /\ BytesOfPages(Zeroed(p), pages'.mapped)
        /\ Copied(Zeroed(p)) /\ RestIsZero(Zeroed(p))
    BY <1>1, <2>1, <2>2, ZeroedIs
  <2>4. \A s \in DOMAIN phdr : \A b : Linked(s, b)' = Linked(s, b)
    BY <1>3 DEF Linked
  <2>5. Copied(bytes)' /\ RestIsZero(bytes)'
    BY <1>2, <1>3, <2>1, <2>3, <2>4 DEF Copied, RestIsZero
  <2> QED BY <1>2, <2>1, <2>3, <2>5
<1> QED
  BY <1>4, <1>5

LEMMA StackMadeKeeps ==
    ASSUME WellLinked, UserInv, StackMade
    PROVE  UserInv'
<1>1. /\ load_pc = "loaded" /\ load_pc' = "running"
      /\ UNCHANGED <<phdr, segment, cur_vaddr, max_user_vaddr, user_heap_ptr, asked, vpage,
                     grants>>
      /\ UserTypes /\ asked \in Nat /\ vpage \in Nat /\ max_user_vaddr \in Nat
      /\ RoomAbove(max_user_vaddr) /\ pages.count \in Nat
  BY DEF StackMade, UserInv, UserTypes, PageStates
<1>2. PICK fails \in BOOLEAN :
         /\ pages' = NewPage(StackPage, fails)
         /\ bytes' = IF StackPage \in pages'.mapped THEN Zeroed(StackPage) ELSE bytes
  BY DEF StackMade, Fails
<1>3. max_user_vaddr <= StackPage * PAGE
  <2> DEFINE T == TrackLimit * PAGE
  <2>1. T \in Nat /\ max_user_vaddr + T + PAGE + PAGE + 8 <= StackAt
    BY <1>1, RoomIs
  <2> HIDE DEF T
  <2>2. max_user_vaddr <= StackAt
    BY <1>1, <2>1, StackIs, UserSizes
  <2> QED BY <2>2 DEF StackAt
<1>4. /\ pages' \in PageStates /\ BlocksAreTracked'
      /\ pages.mapped \subseteq pages'.mapped /\ pages.lost \subseteq pages'.lost
      /\ pages'.count \in Nat /\ pages'.count >= pages.count + 1
      /\ BytesOfPages(bytes', pages'.mapped)
      /\ Copied(bytes)' /\ RestIsZero(bytes)'
  BY <1>1, <1>2, <1>3, StackIs, PageBehind
<1>5. Mapping' /\ pages'.count >= pages.count
  BY <1>1, <1>4 DEF Mapping
<1> QED
  BY <1>1, <1>4, <1>5, PageStepKeeps

LEMMA MallocPageKeeps ==
    ASSUME WellLinked, UserInv, MallocPage
    PROVE  UserInv'
<1> DEFINE v == PageUp(max_user_vaddr)
           u == PageUp(user_heap_ptr)
<1>1. /\ load_pc = "mapping"
      /\ UNCHANGED <<phdr, segment, cur_vaddr, max_user_vaddr, user_heap_ptr, grants>>
      /\ UserTypes /\ Running /\ Mapping /\ BlocksAreTracked
      /\ Copied(bytes) /\ RestIsZero(bytes)
      /\ vpage \in Nat /\ asked \in Nat /\ pages \in PageStates /\ pages.count \in Nat
      /\ BytesOfPages(bytes, pages.mapped) /\ max_user_vaddr \in Nat
  BY DEF UserInv, MallocPage, UserTypes, PageStates
<1>2. /\ v \in Nat /\ v * PAGE \in Nat /\ max_user_vaddr <= v * PAGE
      /\ u \in Nat /\ v <= u
  BY <1>1, HeapIs
<1>3. /\ asked \in Requests /\ u < v + TrackLimit
      /\ u <= vpage /\ vpage <= v + pages.count
      /\ u .. vpage - 1 \subseteq pages.mapped \union pages.lost
  BY <1>1 DEF Mapping
<1> HIDE DEF u, v
<1>4. CASE /\ \E fails \in Fails("table") :
                 /\ pages' = NewPage(vpage, fails)
                 /\ bytes' = IF vpage \in pages'.mapped THEN Zeroed(vpage) ELSE bytes
           /\ vpage' = vpage + 1
           /\ UNCHANGED <<load_pc, asked>>
  <2>1. PICK fails \in BOOLEAN :
           /\ pages' = NewPage(vpage, fails)
           /\ bytes' = IF vpage \in pages'.mapped THEN Zeroed(vpage) ELSE bytes
    BY <1>4 DEF Fails
  \* The page lies behind the program.
  <2>2. max_user_vaddr <= vpage * PAGE
    <3>1. v * PAGE <= vpage * PAGE /\ vpage * PAGE \in Nat
      BY <1>1, <1>2, <1>3, PagesMonotone
    <3> DEFINE w == vpage * PAGE
               z == v * PAGE
    <3>2. w \in Nat /\ z \in Nat /\ max_user_vaddr <= z /\ z <= w
      BY <1>2, <3>1
    <3> HIDE DEF w, z
    <3>3. max_user_vaddr <= w
      BY <1>1, <3>2
    <3> QED BY <3>3 DEF w
  <2>3. /\ pages' \in PageStates /\ BlocksAreTracked'
        /\ pages.mapped \subseteq pages'.mapped /\ pages.lost \subseteq pages'.lost
        /\ vpage \in pages'.mapped \union pages'.lost
        /\ pages'.count \in Nat /\ pages'.count >= pages.count + 1
        /\ BytesOfPages(bytes', pages'.mapped)
        /\ Copied(bytes)' /\ RestIsZero(bytes)'
    BY <1>1, <1>4, <2>1, <2>2, PageBehind
  <2>8. /\ vpage + 1 \in Nat /\ u <= vpage + 1 /\ vpage + 1 <= v + pages'.count
        /\ u .. vpage + 1 - 1 \subseteq pages'.mapped \union pages'.lost
    <3>1. \A p \in u .. vpage + 1 - 1 : p \in u .. vpage - 1 \/ p = vpage
      BY <1>1, <1>2
    <3>2. vpage + 1 <= v + pages'.count
      BY <1>1, <1>2, <1>3, <2>3
    <3> QED BY <1>1, <1>2, <1>3, <2>3, <3>1, <3>2
  <2>9. Mapping'
    BY <1>1, <1>3, <1>4, <2>8 DEF Mapping, u, v
  <2>10. pages'.count >= pages.count
    BY <1>1, <2>3
  <2>11. vpage' \in Nat /\ asked' \in Nat /\ load_pc' = "mapping"
    BY <1>1, <1>4, <2>8
  <2> QED BY <1>1, <2>3, <2>9, <2>10, <2>11, PageStepKeeps
<1>5. CASE /\ load_pc' = "running" /\ asked' = 0 /\ vpage' = 0
           /\ UNCHANGED <<pages, bytes>>
  <2>1. Copied(bytes)' /\ RestIsZero(bytes)'
    BY <1>1, <1>5, CopyKept, UptoOfRunning
  <2>2. BlocksAreTracked' /\ Mapping'
    BY <1>1, <1>5 DEF BlocksAreTracked, Mapping
  <2> QED BY <1>1, <1>5, <2>1, <2>2, PageStepKeeps
<1> QED
  BY <1>4, <1>5 DEF MallocPage

\* A load that fails, and an append behind the end of the list.
LEMMA EndsKeep ==
    ASSUME UserInv, load_pc' \in {"failed", "overrun"},
           load_pc' = "failed" => load_pc \in {"start", "loaded"},
           UNCHANGED <<phdr, segment, cur_vaddr, max_user_vaddr, pages, bytes,
                       user_heap_ptr, asked, vpage, grants>>
    PROVE  UserInv'
<1>1. UserTypes' /\ BlocksAreTracked' /\ Loading' /\ Running' /\ Mapping'
  BY DEF UserInv, UserTypes, BlocksAreTracked, Loading, Running, Mapping, BytesOfPages
<1> QED
  BY <1>1 DEF UserInv

LEMMA NextUser == WellLinked /\ UserInv /\ [UserNext]_userVars => UserInv'
<1> SUFFICES ASSUME WellLinked, UserInv, [UserNext]_userVars PROVE UserInv'
  OBVIOUS
<1>1. CASE LoadFails \/ LoadOverruns \/ MallocOverruns
  <2>1. LoadFails => UserInv'
    BY EndsKeep DEF LoadFails
  <2>2. Overrun => UserInv'
    BY EndsKeep DEF Overrun
  <2> QED BY <1>1, <2>1, <2>2 DEF LoadOverruns, MallocOverruns
<1>2. CASE DirectoryMade
  <2>1. /\ load_pc = "start"
        /\ pages' = [pages EXCEPT !.count = @ + 1, !.taken = @ + 1]
        /\ Segment(1) /\ UNCHANGED <<phdr, bytes, asked, vpage, grants>>
        /\ UserTypes /\ BlocksAreTracked
    BY <1>2 DEF DirectoryMade, UserInv
  <2>2. /\ pages' \in PageStates /\ pages'.mapped = pages.mapped /\ pages'.lost = pages.lost
        /\ pages'.count = pages.count + 1 /\ pages'.taken = pages.taken + 1
        /\ pages.count \in Nat
    <3>1. ASSUME NEW c \in Nat, NEW t \in Nat
          PROVE  [pages EXCEPT !.count = c, !.taken = t] \in PageStates
      BY <2>1 DEF UserTypes, PageStates
    <3>2. pages.count + 1 \in Nat /\ pages.taken + 1 \in Nat /\ pages.count \in Nat
      BY <2>1 DEF UserTypes, PageStates
    <3>3. pages' \in PageStates
      BY <2>1, <3>1, <3>2, Zenon
    <3>4. /\ pages'.mapped = pages.mapped /\ pages'.lost = pages.lost
          /\ pages'.count = pages.count + 1 /\ pages'.taken = pages.taken + 1
      BY <2>1 DEF UserTypes, PageStates
    <3> QED BY <3>2, <3>3, <3>4
  <2>3. BlocksAreTracked'
    BY <2>1, <2>2, UserSizes DEF BlocksAreTracked
  <2>4. 1 \in 1 .. Len(phdr) + 1
    BY <2>1 DEF UserTypes
  <2> QED BY <2>1, <2>2, <2>3, <2>4, SegmentStep
<1>3. CASE SegmentDone
  <2>1. /\ load_pc = "segments" /\ cur_vaddr >= End(segment)
        /\ Segment(segment + 1) /\ UNCHANGED <<phdr, pages, bytes, asked, vpage, grants>>
        /\ UserTypes /\ Loading /\ BlocksAreTracked
    BY <1>3 DEF SegmentDone, UserInv
  <2>2. /\ pages' \in PageStates /\ pages'.mapped = pages.mapped /\ pages'.lost = pages.lost
        /\ BlocksAreTracked'
    BY <2>1 DEF UserTypes, BlocksAreTracked
  <2>3. segment + 1 \in 1 .. Len(phdr) + 1
    <3> DEFINE S == [vaddr : Nat, memsz : Nat, filesz : Nat]
    <3>1. phdr \in Seq(S)
      BY <2>1, UserHeapAssumption DEF UserTypes
    <3> HIDE DEF S
    <3>2. Len(phdr) \in Nat /\ DOMAIN phdr = 1 .. Len(phdr)
      BY <3>1
    <3>3. segment \in 1 .. Len(phdr)
      BY <2>1, <3>2 DEF Loading
    <3> QED BY <3>2, <3>3
  <2> QED BY <2>1, <2>2, <2>3, SegmentStep
<1>4. CASE LoadPage \/ StackMade \/ LoadAgain
  BY <1>4, LoadPageKeeps, StackMadeKeeps, LoadAgainKeeps
<1>5. CASE \E size \in Requests : Malloc(size)
  BY <1>5, MallocKeeps
<1>6. CASE MallocPage
  BY <1>6, MallocPageKeeps
<1>7. CASE MallocReturns
  BY <1>7, MallocReturnsKeeps
<1>8. CASE UNCHANGED userVars
  <2>1. \A s \in DOMAIN phdr : Upto(s)' = Upto(s)
    BY <1>8 DEF userVars, Upto, End, Vaddr
  <2>2. load_pc \notin {"failed", "overrun"} => Copied(bytes)' /\ RestIsZero(bytes)'
    BY <1>8, <2>1, CopyKept DEF UserInv, userVars
  <2>3. \A s : End(s)' = End(s) /\ Vaddr(s)' = Vaddr(s)
    BY <1>8 DEF userVars, End, Vaddr
  <2>4. UserTypes' /\ BlocksAreTracked' /\ Loading' /\ Running' /\ Mapping'
    BY <1>8, <2>3 DEF userVars, UserInv, UserTypes, BlocksAreTracked, Loading, Running,
                      Mapping, BytesOfPages
  <2> QED BY <1>8, <2>2, <2>4 DEF userVars, UserInv
<1> QED
  BY <1>1, <1>2, <1>3, <1>4, <1>5, <1>6, <1>7, <1>8 DEF UserNext, MallocRefuses

LEMMA UserInvIsSound == WellLinked /\ UserInv => UserMemorySound
<1> SUFFICES ASSUME WellLinked, UserInv PROVE UserMemorySound
  OBVIOUS
<1>1. UserTypes /\ Loading /\ Running /\ BlocksAreTracked
  BY DEF UserInv
<1>2. UserTypeOK
  <2>1. DOMAIN bytes = UNION {BytesOf(v) : v \in pages.mapped}
    <3>1. pages.mapped \subseteq Nat
      BY <1>1 DEF UserTypes, PageStates
    <3>2. \A b : b \in DOMAIN bytes <=> b \in Nat /\ PageOf(b) \in pages.mapped
      BY <1>1 DEF UserTypes, BytesOfPages
    <3>3. \A b \in DOMAIN bytes : b \in BytesOf(PageOf(b)) /\ PageOf(b) \in pages.mapped
      BY <3>2, ByteOfPage
    <3>4. \A v \in pages.mapped : \A b \in BytesOf(v) : b \in DOMAIN bytes
      BY <3>1, <3>2, PageOfByte
    <3> QED BY <3>3, <3>4, Zenon
  <2> QED BY <1>1, <2>1 DEF UserTypes, UserTypeOK, PageStates
<1>3. LoadedAsLinked
  <2> SUFFICES ASSUME load_pc \in {"running", "mapping"}, NEW s \in DOMAIN phdr,
                      NEW b \in Vaddr(s) .. End(s) - 1, PageOf(b) \notin pages.lost
               PROVE  b \in DOMAIN bytes /\ bytes[b] = Linked(s, b)
    BY DEF LoadedAsLinked, Linked
  <2>1. s < segment
    <3> DEFINE S == [vaddr : Nat, memsz : Nat, filesz : Nat]
    <3>1. phdr \in Seq(S)
      BY <1>1, UserHeapAssumption DEF UserTypes
    <3> HIDE DEF S
    <3>2. Len(phdr) \in Nat /\ DOMAIN phdr = 1 .. Len(phdr)
      BY <3>1
    <3>3. segment = Len(phdr) + 1
      BY <1>1 DEF Running
    <3> QED BY <3>2, <3>3
  <2>2. Upto(s) = End(s)
    BY <2>1 DEF Upto
  <2>3. Copied(bytes)
    BY DEF UserInv
  <2> QED BY <2>2, <2>3 DEF Copied
<1>4. ASSUME NEW g \in grants, load_pc # "overrun"
      PROVE  /\ load_pc \in {"running", "mapping"}
             /\ g[1] \in Nat /\ g[2] \in Nat
             /\ PageUp(max_user_vaddr) * PAGE <= g[1] /\ g[1] + g[2] <= user_heap_ptr
  <2>1. load_pc \in {"running", "mapping"}
    <3>1. grants # {}
      BY <1>4
    <3> QED BY <1>1, <1>4, <3>1, Zenon DEF Loading
  <2> QED BY <1>1, <2>1 DEF Running
<1>5. load_pc # "overrun" => GrantsAreMapped
  <2> SUFFICES ASSUME NEW g \in grants, NEW b \in g[1] .. g[1] + g[2] - 1,
                      load_pc # "overrun"
               PROVE  b < AddressSpace /\ (b \in DOMAIN bytes \/ PageOf(b) \in pages.lost)
    BY DEF GrantsAreMapped
  <2> DEFINE v == PageUp(max_user_vaddr)
             u == PageUp(user_heap_ptr)
             p == PageOf(b)
  <2>1. /\ load_pc \in {"running", "mapping"} /\ b \in Nat /\ v * PAGE <= b
        /\ b < user_heap_ptr /\ user_heap_ptr \in Nat
    <3>1. /\ load_pc \in {"running", "mapping"} /\ g[1] \in Nat /\ g[2] \in Nat
          /\ v * PAGE <= g[1] /\ g[1] + g[2] <= user_heap_ptr
      BY <1>4
    <3>2. user_heap_ptr \in Nat /\ v * PAGE \in Nat
      BY <1>1, <3>1, HeapIs DEF UserTypes
    <3> DEFINE z == v * PAGE
    <3> HIDE DEF v, z
    <3> QED BY <3>1, <3>2 DEF z
  <2>2. /\ v \in Nat /\ v * PAGE \in Nat /\ u \in Nat /\ u * PAGE \in Nat
        /\ user_heap_ptr <= u * PAGE
        /\ user_heap_ptr + PAGE <= StackAt
        /\ v .. u - 1 \subseteq pages.mapped \union pages.lost
    BY <1>1, <2>1, HeapIs DEF Running
  <2>3. p \in Nat /\ p * PAGE \in Nat /\ p * PAGE <= b /\ b < p * PAGE + PAGE
    BY <2>1, PageIs
  <2> HIDE DEF u, v, p
  <2>4. v <= p
    <3>1. v * PAGE < p * PAGE + PAGE
      BY <2>1, <2>2, <2>3, UserSizes
    <3> QED BY <2>2, <2>3, <3>1, PagesInOrder
  <2>5. p < u
    <3>1. CASE u <= p
      <4>1. u * PAGE <= p * PAGE
        BY <2>2, <2>3, <3>1, PagesMonotone
      <4> QED BY <2>1, <2>2, <2>3, <4>1
    <3> QED BY <2>2, <2>3, <3>1
  <2>6. p \in pages.mapped \/ p \in pages.lost
    BY <2>2, <2>3, <2>4, <2>5
  <2>7. b \in DOMAIN bytes \/ PageOf(b) \in pages.lost
    BY <1>1, <2>1, <2>6 DEF UserTypes, BytesOfPages, p
  <2>8. b < AddressSpace
    BY <2>1, <2>2, StackIs, UserSizes
  <2> QED BY <2>7, <2>8
<1>6. load_pc # "overrun" => GrantsAreApart
  <2> SUFFICES ASSUME load_pc # "overrun" PROVE GrantsAreApart
    OBVIOUS
  <2>1. \A g, h \in grants : g # h => g[1] + g[2] <= h[1] \/ h[1] + h[2] <= g[1]
    BY <1>1, <1>4 DEF Running
  <2>2. ASSUME NEW g \in grants, NEW s \in DOMAIN phdr PROVE End(s) <= g[1]
    <3> DEFINE z == PageUp(max_user_vaddr) * PAGE
    <3>1. /\ z \in Nat /\ max_user_vaddr <= z /\ z <= g[1] /\ g[1] \in Nat
          /\ End(s) \in Nat /\ End(s) <= max_user_vaddr /\ max_user_vaddr \in Nat
      BY <1>1, <1>4, HeapIs, SegmentIs DEF Running, UserTypes
    <3> HIDE DEF z
    <3> QED BY <3>1
  <2>3. ASSUME NEW g \in grants PROVE g[1] + g[2] <= StackPage * PAGE
    <3>1. /\ g[1] \in Nat /\ g[2] \in Nat /\ g[1] + g[2] <= user_heap_ptr
          /\ user_heap_ptr \in Nat /\ user_heap_ptr + PAGE <= StackAt
      BY <1>1, <1>4 DEF Running, UserTypes
    <3>2. g[1] + g[2] <= StackAt
      BY <3>1, StackIs, UserSizes
    <3> QED BY <3>2 DEF StackAt
  <2> QED BY <2>1, <2>2, <2>3 DEF GrantsAreApart
<1> QED
  BY <1>1, <1>2, <1>3, <1>5, <1>6 DEF UserMemorySound

(* Whatever program is loaded and whatever it asks of malloc, with kmalloc
   failing for any page and any page table and loads that fail half-way and are
   followed by others: as long as the list of blocks is not overrun, the segments
   are what the file says, also where two share a page; what malloc returns is
   mapped to the last byte; only the pages that found no table are missing of
   either; no block overlaps the program, the stack or another block; and all
   blocks are in the list that the scheduler frees, while it has room
   (elf_load, process_create_elf, map_user_page, user_space_malloc). *)
THEOREM ProgramsFindTheirMemory ==
    ASSUME WellLinked
    PROVE  UserSpec => []UserMemorySound
<1>1. UserInit => UserInv
  BY InitUser
<1>2. UserInv /\ [UserNext]_userVars => UserInv'
  BY NextUser
<1>3. UserInv => UserMemorySound
  BY UserInvIsSound
<1> QED
  BY <1>1, <1>2, <1>3, PTL DEF UserSpec

=============================================================================
