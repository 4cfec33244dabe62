SPECIFICATION FairSpec
CONSTANTS
  Worker = {w1, w2}
  Token = {t1, t2, t3}
  NoToken = NoToken
  StartEvent <- MCStart
  SignalEvent <- MCSignal
  OtherEvent <- MCOther
  Target <- MCTarget
  BatchLimit = 2
  MaxFaults = 2
INVARIANTS
  DeliveredWasApplied
  OneRunPerCommand
  DuplicatesNeedFaults
  OrphansNeedFaults
PROPERTIES
  LiveClaimIsRespected
  DeliveredIsFinal
  ImplementsDelivery
  CommandsAreDelivered
CHECK_DEADLOCK FALSE
