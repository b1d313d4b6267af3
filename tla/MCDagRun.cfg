CONSTANTS
  Names <- MCNames
  EmptyName <- MCEmpty
  Inputs <- MCInputs
SPECIFICATION FairSpec
INVARIANTS
  AcceptedIsAcyclic
  CircularIsCyclic
  DependenciesFirst
  RecordsTopological
  AnswerAccounts
PROPERTIES
  RunReturns
CHECK_DEADLOCK FALSE
