SPECIFICATION Spec
CONSTANTS
  Client <- MCClient
  Id <- MCId
  DbId <- MCDbId
  Data <- MCData
  Datagram <- SameId
  Driver <- MCDriver
  NoDriver = NoDriver
  Config <- OneConfig
  SetupFault <- NoFaults
  MaxRecv = 2
INVARIANT AnswerIsForTheNumberAsked
