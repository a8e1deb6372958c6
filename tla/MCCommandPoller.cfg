SPECIFICATION Spec
CONSTANTS
  n1 = n1  n2 = n2  addr = addr  p1 = p1  p2 = p2
  NotUuid = NotUuid
  None = None
  Command <- MCCommand
  Id <- MCId
  Canonical <- MCCanonical
  Device <- MCDevice
  Node <- MCNode
  NodeIds <- MCNodeIds
  NodeOf <- MCNodeOf
  Action <- MCAction
  Created <- MCCreated
  Expires <- MCExpires
  Status <- MCStatus
  Retention = 2
  BatchSize = 1
  Width = 2
  Breaks = {1}
  MaxTime = 4
INVARIANTS TypeOK ProcessingIsWaiting CompletesWhatWasWritten HeldOnce
PROPERTIES LeavesForCause IsMailbox
