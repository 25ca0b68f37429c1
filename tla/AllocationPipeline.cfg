CONSTANTS
  Funcs <- SmallFunctions
  Values <- FiveValues
  StackReach = 2
SPECIFICATION PipelineSpec
INVARIANTS
  LiveValuesApart
  UnplacedLiveAlone
  FitsOnStack
