CONSTANTS
  Contents <- Bits
  Vocabularies <- Memory
SPECIFICATION Spec
INVARIANTS
  MsizeIsCurrent
