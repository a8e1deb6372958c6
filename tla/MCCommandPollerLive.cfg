SPECIFICATION FairSpec
CONSTANTS
  n1 = n1  n2 = n2  addr = addr  p1 = p1  p2 = p2
  NotUuid = NotUuid
  None = None
  Command <- LiveCommand
  Id <- LiveId
  Canonical <- LiveCanonical
  Device <- LiveDevice
  Node <- LiveNode
  NodeIds <- LiveNodeIds
  NodeOf <- LiveNodeOf
  Action <- LiveAction
  Created <- LiveCreated
  Expires <- LiveExpires
  Status <- LiveStatus
  Retention = 2
  BatchSize = 1
  Width = 2
  Breaks = {1}
  MaxTime = 3
PROPERTIES NothingStaysForever
