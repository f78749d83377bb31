SPECIFICATION Spec
CONSTANTS
  PacketLength = 1312
  MinBytes = 4000
  SendSteps <- Sends
  ReceiveSteps <- Receives
  MaxReported = 3
  MaxPackets = 7
INVARIANTS TypeOK ClusterExact
PROPERTIES ResultOfFirstSecond
CHECK_DEADLOCK FALSE
