---------------------------- MODULE DialectExecution ----------------------------
(***************************************************************************)
(* What MLIR and the cost model conclude from the effects that operations   *)
(* declare (EVMOps), against what the EVM does.  A block is executed twice, *)
(* in lock step: as it was written, and as the CSE pass of evmlir-opt       *)
(* leaves it.  CSE drops an operation whose result is not used and which    *)
(* writes nothing, and gives an operation the result of an earlier, equal   *)
(* one if it has no effect, or if it only reads and nothing between the two *)
(* declares a write or leaves its effects open.                             *)
(*                                                                          *)
(* The EVM's state is cut into parts; what a part holds is one of Contents. *)
(* "Machine" stands for the program counter and the gas that is left.  An   *)
(* operation is a record of its name and of its operands, as one value; for *)
(* operations on memory that is also the size they make the memory have.    *)
(***************************************************************************)
EXTENDS EVMOps, Naturals

CONSTANTS
  Contents,      \* what a part of the state may hold
  Vocabularies   \* sets of operations, one of which a block is made of

ASSUME VocabulariesAssumption ==
  \A ops \in Vocabularies : ops \subseteq [name : STRING, operands : Nat]

VARIABLES
  ops,         \* the operations of the block, never changed
  world,       \* the state of the EVM that runs the block as it was written
  worldSize,   \* and the size of its memory
  optimized,   \* the state of the EVM that runs the block without what CSE
  optimizedSize, \* has removed, and the size of its memory
  known        \* for the operations executed so far in the optimized block
               \* that declare no write: what the last one read, and whether
               \* CSE has seen nothing since then that may write

vars == <<ops, world, worldSize, optimized, optimizedSize, known>>

-----------------------------------------------------------------------------
(* The EVM. *)

Parts == Resources \cup {"Machine"}

Uses ==
  ({"sload"} \X {"Storage"})
  \cup ({"tload"} \X {"TransientStorage"})
  \cup ({"mload", "keccak256", "mcopy", "log0", "log1", "log2", "log3", "log4"}
        \X {"Memory"})
  \cup ({"selfbalance", "balance", "extcodesize", "extcodehash", "extcodecopy"}
        \X {"Default"})
  \cup ({"returndatasize", "returndatacopy"} \X {"ReturnData"})
  \cup ({"gas", "pc"} \X {"Machine"})
  \cup ({"call", "callcode", "delegatecall", "staticcall", "create", "create2",
         "inline_bytecode"} \X Parts)

(* A call or a creation may come back to the contract, so that its storage  *)
(* is written although a call does not say so; a creation empties the       *)
(* return data.                                                             *)
Changes ==
  ({"sstore"} \X {"Storage"})
  \cup ({"tstore"} \X {"TransientStorage"})
  \cup ({"mstore", "mstore8", "mcopy", "calldatacopy", "codecopy", "extcodecopy",
         "returndatacopy"} \X {"Memory"})
  \cup ({"log0", "log1", "log2", "log3", "log4"} \X {"Log"})
  \cup ({"staticcall"} \X {"Memory", "ReturnData"})
  \cup ({"create", "create2"} \X (Resources \ {"Memory"}))
  \cup ({"call", "callcode", "delegatecall", "inline_bytecode"} \X Resources)

TouchesMemory ==
  {"mload", "keccak256", "mstore", "mstore8", "mcopy", "calldatacopy", "codecopy",
   "extcodecopy", "returndatacopy", "log0", "log1", "log2", "log3", "log4", "call",
   "callcode", "delegatecall", "staticcall", "create", "create2"}

Read(op, state) == [part \in {p \in Parts : <<op.name, p>> \in Uses} |-> state[part]]

Changed(op) == {"Machine"} \cup {p \in Parts : <<op.name, p>> \in Changes}

(* The state after an operation that has left new behind. *)
After(state, new) ==
  [part \in Parts |-> IF part \in DOMAIN new THEN new[part] ELSE state[part]]

SizeAfter(op, size) ==
  IF op.name \in TouchesMemory /\ op.operands > size THEN op.operands ELSE size

-----------------------------------------------------------------------------
(* What is concluded from the declared effects. *)

(* Variant of Droppable that looks at the result only. *)
dropUnused(op) == TRUE

(* isOpTriviallyDead(), for an operation whose result is not used. *)
Droppable(op) == hasInterface(op.name) /\ ~declaresWrite(op.name)

(* hasOtherSideEffectingOpInBetween() stops at it. *)
MayWrite(op) == declaresWrite(op.name) \/ ~hasInterface(op.name)

(* CSE uses the earlier result. *)
Mergeable(op) ==
  /\ op \in DOMAIN known
  /\ canRecompute(op.name) \/ (onlyReads(op.name) /\ known[op].clean)

-----------------------------------------------------------------------------
Init ==
  /\ ops \in Vocabularies
  /\ \E content \in Contents : world = [part \in Parts |-> content]
  /\ worldSize = 0
  /\ optimized = world
  /\ optimizedSize = 0
  /\ known = [op \in {} |-> op]

ExecuteAsWritten(op, new) ==
  /\ world' = After(world, new)
  /\ worldSize' = SizeAfter(op, worldSize)

(* The block as it was written goes on alone. *)
Remove(op, new) ==
  /\ ExecuteAsWritten(op, new)
  /\ UNCHANGED <<ops, optimized, optimizedSize, known>>

Drop(op, new) == Droppable(op) /\ Remove(op, new)

Merge(op, new) == Mergeable(op) /\ Remove(op, new)

(* Variant of Seen that takes for known what is so in the block as it was   *)
(* written.                                                                 *)
seenAsWritten(op) == [read |-> Read(op, world), size |-> worldSize]

(* What the operation finds in the optimized block. *)
Seen(op) == [read |-> Read(op, optimized), size |-> optimizedSize]

(* Both blocks execute the operation.  It leaves behind the same in both:   *)
(* RemainingSeeTheSame is why.                                              *)
Keep(op, new) ==
  /\ ~Mergeable(op)
  /\ ExecuteAsWritten(op, new)
  /\ optimized' = After(optimized, new)
  /\ optimizedSize' = SizeAfter(op, optimizedSize)
  /\ known' = [other \in DOMAIN known \cup (IF declaresWrite(op.name) THEN {} ELSE {op}) |->
                 IF other = op
                 THEN [read |-> Seen(op).read, size |-> Seen(op).size,
                       clean |-> ~MayWrite(op)]
                 ELSE [known[other] EXCEPT !.clean = @ /\ ~MayWrite(op)]]
  /\ UNCHANGED ops

Next ==
  \E op \in ops : \E new \in [Changed(op) -> Contents] :
    \/ Drop(op, new)
    \/ Merge(op, new)
    \/ Keep(op, new)

Spec == Init /\ [][Next]_vars

-----------------------------------------------------------------------------
(* Properties. *)

(* Type correctness; an operation that can be merged is known from an       *)
(* execution of that very operation.                                        *)
TypeOK ==
  /\ ops \in Vocabularies
  /\ world \in [Parts -> Contents]
  /\ optimized \in [Parts -> Contents]
  /\ worldSize \in Nat
  /\ optimizedSize \in 0..worldSize
  /\ DOMAIN known \subseteq ops
  /\ \A op \in DOMAIN known :
       /\ known[op].read = Read(op, known[op].read)
       /\ known[op].clean \in BOOLEAN
       /\ known[op].size \in 0..optimizedSize

(* An operation the cost model accepts for recomputation gives the same     *)
(* result whenever it is computed again (emitRecompute), whatever has been  *)
(* executed since: all it depends on is its operands.                       *)
RecomputationRepeats ==
  \A op \in DOMAIN known :
    canRecompute(op.name) => known[op].read = Read(op, world)

(* CSE keeps the meaning of a block: a result that is used again is what    *)
(* the second operation would have given, although a call declares no write *)
(* of the storage, nor a creation one of the return data.  evm.msize is the *)
(* exception.                                                               *)
MergedResultsRight ==
  \A op \in DOMAIN known :
    Mergeable(op) => known[op].read = Read(op, world)

(* Every operation that remains finds the state it would have found, and so *)
(* has the same result and effect.  Those that observe the size of the      *)
(* memory, the gas or the program counter are exceptions.                   *)
RemainingSeeTheSame ==
  \A op \in ops :
    op.name \notin {"gas", "pc", "inline_bytecode"} =>
      \A part \in DOMAIN Read(op, world) \ {"Machine"} :
        optimized[part] = world[part]

(* "Returns the current size of the EVM memory region in bytes": evm.msize  *)
(* gives the size that the memory has where it stands.                      *)
MsizeIsCurrent ==
  \A op \in DOMAIN known :
    op.name = "msize" /\ Mergeable(op) => known[op].size = worldSize
=============================================================================
