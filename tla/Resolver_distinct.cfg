SPECIFICATION FairSpec
CONSTANTS
  Client <- MCClient
  Id <- MCId
  DbId <- MCDbId
  Data <- MCData
  Datagram <- DistinctDatagram
  Driver <- MCDriver
  NoDriver = NoDriver
  Config <- TimedConfig
  SetupFault <- NoFaults
  MaxRecv = 3
INVARIANT AnswerIsForTheNumberAsked
INVARIANT CachedForTheNumberAsked
INVARIANT NoRequestForgotten
PROPERTY EveryRequestAnswered
