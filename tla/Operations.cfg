SPECIFICATION RetrySpec
CONSTANTS
  Token = {t1}
  Caller = {c1, c2}
  Kind <- MCKind
  Parts <- MCParts
  MaxParts = 2
  BatchKind = {"batch"}
  FileKind = {"send"}
  EmptyFile = empty
  Content = {empty, v1}
  Connection = {x1, x2}
  TTL = 1
  ExecLimit = 1
  Retention = 0
CONSTRAINT OneEdit
INVARIANTS
  AtMostOnce
  OutcomesAreTrue
  AnswersAgree
  ExecutesWhatWasApproved
PROPERTIES
  KeepsPromise
  OnlyTheProviderHoldsACall
  EveryClaimIsDecided
