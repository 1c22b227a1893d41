SPECIFICATION Spec
CONSTANTS
  Client <- MCClient
  Id <- MCId
  DbId <- MCDbId
  Data <- MCData
  Datagram <- CollidingDatagram
  Driver <- MCDriver
  NoDriver = NoDriver
  Config <- ReloadConfig
  SetupFault <- AllFaults
  MaxRecv = 3
INVARIANT TypeOK
INVARIANT HandOver
INVARIANT OneReplyPerReceipt
INVARIANT ReplyKindMatches
INVARIANT NoLostWakeup
INVARIANT MetricsConservation
INVARIANT NoSecondReply
