--------------------------- MODULE MemoryAllocator ---------------------------
(***************************************************************************)
(* MemoryAllocator (StackAllocation/MemoryAllocator.{h,cpp}): the free-list *)
(* allocator of the 32-byte memory words that hold spilled values.  The     *)
(* class is a value (StackAllocator owns a copy of it), so it is modelled   *)
(* by operators over one record; StackAllocator holds that record.          *)
(*                                                                          *)
(* Bound: offsets are uint32_t in the code and naturals here.  They wrap    *)
(* only after 2^27 spilled values.                                          *)
(***************************************************************************)
EXTENDS Naturals, Sequences

WordSize == 32      \* EVM word size

NewMemory == [nextOffset |-> 0, freeList |-> <<>>]

hasFreeSlots(mem) == mem.freeList # <<>>

(* The offset allocate() returns: the back of the free list, or a new word. *)
allocatedOffset(mem) ==
  IF hasFreeSlots(mem) THEN mem.freeList[Len(mem.freeList)] ELSE mem.nextOffset

(* Variant of allocate() that forgets to advance nextOffset. *)
allocateWithoutAdvance(mem) ==
  IF hasFreeSlots(mem)
  THEN [mem EXCEPT !.freeList = SubSeq(@, 1, Len(@) - 1)]
  ELSE mem

(* What allocate() leaves behind. *)
allocate(mem) ==
  IF hasFreeSlots(mem)
  THEN [mem EXCEPT !.freeList = SubSeq(@, 1, Len(@) - 1)]
  ELSE [mem EXCEPT !.nextOffset = @ + WordSize]

(* free() called once for each offset of the sequence, in that order.  The  *)
(* code checks neither that the offset is allocated nor that it is not      *)
(* already on the list.                                                     *)
freeAll(mem, offsets) == [mem EXCEPT !.freeList = @ \o offsets]

Words(mem) == mem.nextOffset \div WordSize

(* Variant of expansionCost() without the part that grows with the memory.  *)
linearCost(mem) == 3

(* expansionCost(): gas charged for touching one more word, as estimated by *)
(* the code from the words in use.                                          *)
expansionCost(mem) == 3 + (2 * Words(mem) + 1) \div 512

(* Gas for n words of memory, as OsakaSpec.cpp states it for every opcode   *)
(* that grows active memory.                                                *)
MemoryGas(n) == (n * n) \div 512 + 3 * n

(* The estimate is never above what the EVM takes for one more word, and at *)
(* most one below.                                                          *)
EstimateClose(mem) ==
  LET exact == MemoryGas(Words(mem) + 1) - MemoryGas(Words(mem))
  IN  expansionCost(mem) \in (exact - 1)..exact
=============================================================================
