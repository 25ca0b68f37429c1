CONSTANTS
  Values <- HeuristicValues
  StackReach = 3
  Inputs <- HeuristicInputs
SPECIFICATION Spec
INVARIANT
  HigherUsageNotSpilledInstead
