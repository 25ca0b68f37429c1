------------------------------- MODULE CostModel -------------------------------
(***************************************************************************)
(* The cost model as StackAllocator asks it: what does it cost to compute a *)
(* value once more, and what to keep it in memory?                          *)
(***************************************************************************)
EXTENDS EVMCostModel, MemoryAllocator, Integers

CONSTANTS
  Functions,    \* functions: the operation that computes each value
  Asked,        \* the values that are asked about
  Stacks,       \* sets of values that may be on the stack then
  Memories,     \* states of the memory allocator
  MaxOperands,  \* the most operands of an operation
  Gas           \* the gas of each kind of operation that may run again

NoValue == 0

ASSUME MaxOperandsAssumption == MaxOperands \in Nat

(* Operations use values of their function. *)
ASSUME FunctionsAssumption ==
  \A defs \in Functions :
    /\ NoValue \notin DOMAIN defs
    /\ Asked \subseteq DOMAIN defs
    /\ \A v \in DOMAIN defs : defs[v] # Argument =>
         defs[v].operands \in UNION {[1..n -> DOMAIN defs] : n \in 0..MaxOperands}

(* What the gas of an operation depends on: its name, for a constant        *)
(* whether it is zero, for a comparison which one it is.                    *)
Kind(op) ==
  <<op.name,
    IF op.name = "constant" /\ op.value = 0 THEN "zero"
    ELSE IF op.name = "cmpi" THEN op.predicate ELSE "">>

(* The table of the fork has the gas of the operations that may run again,  *)
(* and of storing and loading a word, as the Yellow Paper gives it.         *)
WordGas == 3 + 3

ASSUME GasAssumption ==
  /\ \A kind \in DOMAIN Gas : Gas[kind] \in Nat
  /\ StaticGas("MSTORE") + StaticGas("MLOAD") = WordGas
  /\ \A defs \in Functions : \A v \in DOMAIN defs :
       IF Kind(defs[v]) \in DOMAIN Gas
       THEN /\ defs[v] # Argument
            /\ canRecompute(defs[v].name)
            /\ opcodeCost(defs, v) = Gas[Kind(defs[v])]
       ELSE canRecompute(defs[v].name) => opcodeCost(defs, v) = NoCost

ASSUME MemoriesAssumption == \A mem \in Memories : mem.nextOffset \in Nat

VARIABLE question

Questions ==
  [defs : Functions, v : Asked, currentStack : Stacks, memory : Memories]

Init == question \in Questions
Next == UNCHANGED question
Spec == Init /\ [][Next]_question

Answer ==
  recomputeCost(question.v, question.defs, question.currentStack,
                hasFreeSlots(question.memory), expansionCost(question.memory))

-----------------------------------------------------------------------------
(* The computation of a value is a tree; a node is named by the operand     *)
(* numbers on the way to it.                                                *)

(* The k-th operand that v is computed from, unless v is on the stack.      *)
OperandOf(q, v, k) ==
  IF /\ v \in DOMAIN q.defs \ q.currentStack
     /\ q.defs[v] # Argument
     /\ k \in DOMAIN q.defs[v].operands
  THEN q.defs[v].operands[k] ELSE NoValue

ValueAt(q, v, node) ==
  LET value[n \in 0..Len(node)] ==
        IF n = 0 THEN v ELSE OperandOf(q, value[n - 1], node[n])
  IN  value[Len(node)]

(* The nodes where something has to be computed for v, down to the height.  *)
Tree(q, v, height) ==
  {node \in UNION {[1..n -> 1..MaxOperands] : n \in 0..height} :
     ValueAt(q, v, node) \in DOMAIN q.defs \ q.currentStack}

Computed(q, v, node) == Kind(q.defs[ValueAt(q, v, node)])

Computable(q, v, height) ==
  \A node \in Tree(q, v, height) :
    Len(node) < height /\ Computed(q, v, node) \in DOMAIN Gas

(* Each unit of gas that the computation takes. *)
GasUnits(q, v, height) ==
  UNION {{node} \X (1..Gas[Computed(q, v, node)]) : node \in Tree(q, v, height)}

TotalGas(q, v, height) == Cardinality(GasUnits(q, v, height))

SpillGas(q) ==
  WordGas + IF q.memory.freeList # <<>> THEN 0 ELSE 2 * expansionCost(q.memory)

-----------------------------------------------------------------------------
(* Properties. *)

(* The estimate of MemoryAllocator::expansionCost(), on which the decision  *)
(* between spilling and recomputing rests, is never above what the EVM      *)
(* takes for one more word, and at most one below, for every size of the    *)
(* memory.                                                                  *)
ExpansionCostClose == EstimateClose(question.memory)

(* The answer is the gas of all operations that have to run again, counted  *)
(* as often as they run, exactly when each of them can run again, none is   *)
(* five levels down, and all together cost less than a memory word.  The    *)
(* budget that the recursion hands down decides nothing else.               *)
CostExact ==
  LET feasible == /\ Computable(question, question.v, MAX_DEPTH)
                  /\ TotalGas(question, question.v, MAX_DEPTH) < SpillGas(question)
  IN  Answer = IF feasible THEN TotalGas(question, question.v, MAX_DEPTH) ELSE None
=============================================================================
