CONSTANTS
  Values <- FiveValues
  StackReach = 2
  Inputs <- SmallProblems
SPECIFICATION Spec
INVARIANTS
  TypeOK
  ProperColoring
  ColorWithinReach
  SpilledSlotsDistinct
  SnapshotExact
  AllPlacedWhenDone
  WordPerSpill
  SpillOnlyInCore
  SpillOnlyUnderPressure
PROPERTIES
  LocationsAreFinal
  NoAllocationAfterFree
  Terminates
  ImplementsLocationAssignment
