CONSTANTS
  Slots = {"web", "api"}
  Asked = {"web", "other"}
  Events = {"e1", "e2", "e3"}
  SourceOf <- MCSourceOf
  Tunnel = "tunnel"
  MaxLines = 2
SPECIFICATION FairSpec
CHECK_DEADLOCK FALSE
INVARIANT TypeOK
INVARIANT ResolvesToUrl
INVARIANT RunningHasUrl
INVARIANT EndIsShown
PROPERTY StartedOnceWithAll
PROPERTY EndpointsResolve
