CONSTANTS
  Programs <- ExpPrograms
SPECIFICATION Spec
INVARIANT ReturnsTheRightValues
