SPECIFICATION FairSpec
CONSTANTS
  NClients = 2
  NServers = 2
  Masters = {0}
  ServerId <- GatewayServerId
  Ids = {1, 2}
  Numbers = 2
  RetryComm = 1
  RespTimeout = 1
  LIMIT_CALLS = 5
  MaxRemote = 1
  AppHigher = TRUE
INVARIANTS
  TypeOK
  BusyIsOwned
  AnswerToRequester
  BlockedHasCommand
  RetriesBounded
PROPERTIES
  CommandsEnd
