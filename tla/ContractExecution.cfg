CONSTANTS
  Contracts <- SmallContracts
  Selectors <- SmallSelectors
SPECIFICATION Spec
INVARIANTS
  TypeOK
  OnlyInvalidTraps
  DeployInstallsRuntime
  NeverMisdispatched
  ArgumentsInOrder
PROPERTY
  ImplementsContractService
