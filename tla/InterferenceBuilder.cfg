CONSTANTS
  Funcs <- SmallFunctions
SPECIFICATION Spec
INVARIANTS
  TypeOK
  LiveNowExact
  EdgesComplete
  EdgesJustified
  NoIsolatedNodes
  BuiltGraphChordal
