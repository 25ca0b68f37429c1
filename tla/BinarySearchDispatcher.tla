------------------------ MODULE BinarySearchDispatcher ------------------------
(***************************************************************************)
(* BinarySearchDispatcher (CodeGen/BinarySearchDispatcher.{h,cpp}): the     *)
(* code that takes the function selector from the calldata and jumps to the *)
(* function.  An entry is a record of a selector, the label of the function *)
(* and its number of arguments.                                             *)
(***************************************************************************)
EXTENDS BytecodeStream, Integers

LOCAL INSTANCE SequencesExt   \* ToSet, SetToSeqs

NoLabel == -1      \* std::nullopt for a fallback label

emitSelectorLoad(stream) ==
  emitAll(stream, <<PushInstr(0), OpcodeInstr(CALLDATALOAD),
                    PushInstr(\hE0), OpcodeInstr(SHR)>>)

RevertInstrs == <<PushInstr(0), PushInstr(0), OpcodeInstr(REVERT)>>

(* No entries: jump to the fallback, or revert. *)
emitFallback(stream, fallback) ==
  emitAll(stream, IF fallback # NoLabel
                  THEN <<LabelRefInstr(fallback), OpcodeInstr(JUMP)>>
                  ELSE RevertInstrs)

(* Variant of LoadArguments that loads the first argument first. *)
loadInOrder(args) ==
  [k \in 1..(2 * args) |->
     IF k % 2 = 1 THEN PushInstr(4 + 32 * (k \div 2))
     ELSE OpcodeInstr(CALLDATALOAD)]

(* Loads the arguments from the calldata, the last one first. *)
LoadArguments(args) ==
  [k \in 1..(2 * args) |->
     IF k % 2 = 1 THEN PushInstr(4 + 32 * (args - 1 - k \div 2))
     ELSE OpcodeInstr(CALLDATALOAD)]

(* Variant of CompareSelector with the comparison of the inner nodes. *)
compareBelow(entry) ==
  <<OpcodeInstr(DUP1), PushInstr(entry.selector), OpcodeInstr(LT)>>

CompareSelector(entry) ==
  <<OpcodeInstr(DUP1), PushInstr(entry.selector), OpcodeInstr(EQ)>>

(* One entry left: jump to the function if the selector is the entry's, by  *)
(* way of the decoding of the arguments if it has any, and revert if not.   *)
emitLeaf(stream, entry) ==
  LET matchLabel == createdLabel(stream)
  IN  IF entry.args = 0
      THEN emitAll(stream,
             CompareSelector(entry)
             \o <<LabelRefInstr(entry.label), OpcodeInstr(JUMPI)>>
             \o RevertInstrs)
      ELSE emitAll(createLabel(stream),
             CompareSelector(entry)
             \o <<LabelRefInstr(matchLabel), OpcodeInstr(JUMPI)>>
             \o RevertInstrs
             \o <<LabelDefInstr(matchLabel), OpcodeInstr(JUMPDEST)>>
             \o LoadArguments(entry.args)
             \o <<LabelRefInstr(entry.label), OpcodeInstr(JUMP)>>
             \o RevertInstrs)

(* The entries before the middle go to the left, the others to the right. *)
middle(entries) == Len(entries) \div 2

(* Several entries: LT compares the pivot, pushed last, with the selector,  *)
(* so the right half is taken by the selectors above the pivot's.           *)
RECURSIVE emitBinarySearch(_, _, _)
emitBinarySearch(entries, stream, fallback) ==
  IF entries = <<>> THEN emitFallback(stream, fallback)
  ELSE IF Len(entries) = 1 THEN emitLeaf(stream, entries[1])
  ELSE LET mid        == middle(entries)
           rightLabel == createdLabel(stream)
           compared   == emitAll(createLabel(stream),
                           <<OpcodeInstr(DUP1),
                             PushInstr(entries[mid + 1].selector),
                             OpcodeInstr(LT),
                             LabelRefInstr(rightLabel), OpcodeInstr(JUMPI)>>)
           left       == emitBinarySearch(SubSeq(entries, 1, mid), compared,
                                          fallback)
           marked     == emitAll(left, <<LabelDefInstr(rightLabel),
                                         OpcodeInstr(JUMPDEST)>>)
       IN  emitBinarySearch(SubSeq(entries, mid + 1, Len(entries)), marked,
                            fallback)

(* Variant of SortedOrders that leaves the entries as they are in the module. *)
unsorted(entries) == {entries}

(* The orders llvm::sort may leave the entries in: entries with the same    *)
(* selector come in any order.                                              *)
SortedOrders(entries) ==
  {order \in SetToSeqs(ToSet(entries)) :
     \A i, j \in 1..Len(order) : i < j => order[i].selector <= order[j].selector}
=============================================================================
