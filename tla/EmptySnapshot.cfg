SPECIFICATION Spec
CONSTANTS
  Token = {t1}
  Caller = {c1}
  Kind = {"send"}
  Parts <- MCParts
  MaxParts = 2
  BatchKind = {}
  FileKind = {"send"}
  EmptyFile = empty
  Content = {empty, v1, v2}
  Connection = {x1}
  TTL = 1
  ExecLimit = 1
  Retention = 0
INVARIANTS ExecutesApprovedBytes
