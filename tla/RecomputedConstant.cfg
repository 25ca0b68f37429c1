CONSTANTS
  Programs <- ConstantPrograms
SPECIFICATION Spec
INVARIANT CodeRead
