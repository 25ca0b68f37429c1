SPECIFICATION Spec
CONSTANTS
  Functions   <- MCFunctions
  Asked       <- MCAsked
  Stacks      <- MCStacks
  Memories    <- MCMemories
  Gas         <- MCGas
  MaxOperands = 2
INVARIANTS
  ExpansionCostClose
  CostExact
