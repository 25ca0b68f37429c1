CONSTANTS
  Contents <- Bits
  Vocabularies <- Pairs
SPECIFICATION Spec
INVARIANTS
  TypeOK
  RecomputationRepeats
  MergedResultsRight
  RemainingSeeTheSame
