SPECIFICATION CycleFairSpec
CONSTANTS
  p1 = p1  p2 = p2  n1 = n1  n2 = n2  a1 = a1
  setupName = setupName  probeName = probeName  other = other
  v0 = v0  v1 = v1
  None = None
  Address <- MCAddress
  Name <- MCName
  SETUP_PROBE_NAME = setupName
  PROBE_NAME = probeName
  Version <- MCVersion
  ZeroVersion = v0
  Packet <- MCPacket
  Node <- MCNode
  NodeIds <- MCNodeIds
  Sends <- MCSends
  MaxAttempts = 3
  LineLength <- MCLineLength
  MaxBytes = 4
  MaxPending = 2
INVARIANTS CycleTypeOK SetupIsNotLost MetaWasHeard UploadIsHonest NoSelfDeadlock ShownFits
PROPERTIES KeepsCycling SetupIsTakenUp NormalGetsKnown
