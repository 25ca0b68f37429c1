CONSTANTS
  Programs <- SpillPrograms
SPECIFICATION Spec
INVARIANT ReturnsTheRightValues
