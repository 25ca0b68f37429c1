CONSTANTS
  Programs <- SmallPrograms
SPECIFICATION Spec
INVARIANTS
  TypeOK
  TrackerExact
  InPlaceIsCorrect
