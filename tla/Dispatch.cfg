CONSTANTS
  Contracts <- SmallContracts
  Selectors <- SmallSelectors
SPECIFICATION Spec
INVARIANT
  EverySelectorAnswered
