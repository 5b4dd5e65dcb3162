\* Every request, on every registration, with one move in between.
SPECIFICATION Spec
CONSTANTS
  World <- Worlds
  Request <- AllRequests
  SdkConfig <- SdkConfigs
  MaxMoves = 1
INVARIANTS
  TypeOK
  ConfigNeverRoutes
  ValueIsTaken
  LandsUnlessMoved
  NothingIdleApproved
  SilenceBuildsNothing
  OwnConfigAccepted
  NamedMarketOnly
  ClientOfTheChain
CHECK_DEADLOCK FALSE
