SPECIFICATION HearingSpec
CONSTANTS
  c1 = c1  c2 = c2  c3 = c3
  n1 = n1  p1 = p1
  NotUuid = NotUuid
  None = None
  Command <- OddCommand
  Id <- OddCommand
  Canonical <- OddCanonical
  Device <- MCDevice
  Node <- MCNode
  NodeIds <- MCNodeIds
  NodeOf <- OddNodeOf
  Action <- OddAction
  Created <- OddCreated
  Expires <- OddExpires
  Status <- MCStatus
  Retention = 1
  BatchSize = 1
  Lease = 1
  ScanTime = 1
  MaxTtl = 7
  WriteTime = 1
  LossEnd = 2
  MaxTime = 4
INVARIANTS RefusedIsNeverSent
PROPERTIES EveryCommandIsHeardOf
