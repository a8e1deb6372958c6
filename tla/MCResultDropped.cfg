SPECIFICATION SysSpec
CONSTANTS
  c1 = c1  c2 = c2  c3 = c3
  n1 = n1  p1 = p1
  NotUuid = NotUuid
  None = None
  Command <- MCCommand
  Id <- MCCommand
  Canonical <- MCCanonical
  Device <- MCDevice
  Node <- MCNode
  NodeIds <- MCNodeIds
  NodeOf <- MCNodeOf
  Action <- MCAction
  Created <- MCCreated
  Expires <- MCExpires
  Status <- MCStatus
  Retention = 2
  BatchSize = 1
  Lease = 1
  ScanTime = 1
  MaxTtl = 7
  WriteTime = 1
  LossEnd = 0
  MaxTime = 3
PROPERTIES TerminalResultPassedOn
