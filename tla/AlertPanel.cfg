CONSTANTS
  v1 = v1
  a1 = a1
  a2 = a2
  a3 = a3
  Views <- OneView
  LogViews <- OneView
  Alerts <- ThreeAlerts
  CreatedAt <- Seconds
  FetchLimit = 2
  ShowLimit = 2
  MaxAsked = 1
SPECIFICATION Spec
SYMMETRY Symmetry
CHECK_DEADLOCK FALSE
INVARIANT ShownOnce
INVARIANT NothingMissed
