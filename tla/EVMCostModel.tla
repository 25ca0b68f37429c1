----------------------------- MODULE EVMCostModel -----------------------------
(***************************************************************************)
(* EVMCostModel (CodeGen/EVMCostModel.{h,cpp}): the gas of computing a      *)
(* value once more, if that is possible and cheaper than a memory word.     *)
(*                                                                          *)
(* A function is given as defs, which for each value has the operation that *)
(* computes it, as in OpcodeMapper, or Argument for a block argument.       *)
(***************************************************************************)
EXTENDS OpcodeMapper, OsakaSpec, EVMOps

None      == -1   \* std::nullopt
NoCost    == -1   \* UINT32_MAX
MAX_DEPTH == 5

Argument == [name |-> "argument"]

StaticGas(mnemonic) == opcodes[Opcode[mnemonic]].staticGas

opcodeCost(defs, v) ==
  LET operands == defs[v].operands
      opcode   == getOpcode(defs[v], [k \in 1..Len(operands) |-> defs[operands[k]]])
  IN  IF opcode = NoOpcode THEN NoCost ELSE StaticGas(opcode)

spillMemoryCost(nextSlotIsWarm, memExpansionCost) ==
  StaticGas("MSTORE") + StaticGas("MLOAD")
  + (IF nextSlotIsWarm THEN 0 ELSE 2 * memExpansionCost)

Affordable(budget, threshold) == budget < threshold

(* Variant of WithinDepth that looks one level deeper. *)
oneLevelMore(depth) == depth <= MAX_DEPTH

WithinDepth(depth) == depth < MAX_DEPTH

(* What has been spent when an operand is looked at. *)
OperandBudget(accumulatedCost, cost) == accumulatedCost + cost

(* What recomputeCostImpl() is called with, but for what never changes.     *)
Call(v, depth, accumulatedCost) ==
  [v |-> v, depth |-> depth, accumulatedCost |-> accumulatedCost]

Calls(defs) == [v : DOMAIN defs, depth : Nat, accumulatedCost : Nat]

(* What an operation has cost before and one more operand of it, for which  *)
(* impl answers.                                                            *)
addOperand(impl, v, threshold, call, before) ==
  LET budget  == OperandBudget(call.accumulatedCost, before)
      operand == impl[Call(v, call.depth + 1, budget)]
  IN  IF /\ before # None
         /\ operand # None
         /\ Affordable(budget + operand, threshold)
      THEN before + operand ELSE None

(* An operation that takes the gas itself, and all its operands in order.   *)
costWithOperands(impl, operands, gas, threshold, call) ==
  LET cost[k \in 0..Len(operands)] ==
        IF k = 0
        THEN IF Affordable(call.accumulatedCost + gas, threshold) THEN gas ELSE None
        ELSE addOperand(impl, operands[k], threshold, call, cost[k - 1])
  IN  cost[Len(operands)]

costOfCall(impl, defs, currentStack, threshold, call) ==
  LET gas == opcodeCost(defs, call.v)
  IN  IF call.v \in currentStack THEN 0
      ELSE IF /\ WithinDepth(call.depth)
              /\ Affordable(call.accumulatedCost, threshold)
              /\ canRecompute(defs[call.v].name)
              /\ gas # NoCost
      THEN costWithOperands(impl, defs[call.v].operands, gas, threshold, call)
      ELSE None

(* recomputeCostImpl(): defs gives every value's definition.                *)
recomputeCostImpl(defs, currentStack, threshold) ==
  LET impl[call \in Calls(defs)] ==
        costOfCall(impl, defs, currentStack, threshold, call)
  IN  impl

recomputeCost(v, defs, currentStack, nextSlotIsWarm, memExpansionCost) ==
  LET threshold == spillMemoryCost(nextSlotIsWarm, memExpansionCost)
  IN  recomputeCostImpl(defs, currentStack, threshold)[Call(v, 0, 0)]
=============================================================================
