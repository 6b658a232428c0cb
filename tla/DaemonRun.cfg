SPECIFICATION FairSpec
CONSTANTS
  q1 = q1
  Clients = {q1}
  Failure = Failure
  Starting = Starting
  None = None
INVARIANTS
  AtMostOneDaemon
PROPERTIES
  ClientsOfDeadEnd
  FailureIsShown
  ReadyIsShown
CHECK_DEADLOCK FALSE
