SPECIFICATION Spec
CONSTANTS
  Token = {t1}
  Caller = {c1}
  Kind = {"single"}
  Parts <- MCParts
  MaxParts = 2
  BatchKind = {}
  FileKind = {}
  EmptyFile = empty
  Content = {empty}
  Connection = {x1}
  TTL = 1
  ExecLimit = 1
  Retention = 0
PROPERTIES NoClaimAfterExpiry
