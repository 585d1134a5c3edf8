CONSTANTS
  a1 = a1
  a2 = a2
  NotANumber = NotANumber
  DEFAULT_FLAG_RADIUS = 30
  CommandLines <- MCCommandLines
  Alerts <- MCAlerts
SPECIFICATION TrackerSpec
INVARIANTS
  TrackerTypeOK
  QueuedAlertsHandled
  ObjectsOutliveUsers
  RadiusUsable
PROPERTIES
  ShutdownEnds
\* The process exits.
CHECK_DEADLOCK FALSE
