SPECIFICATION QueueSpec
CONSTANTS
  t1 = t1
  t2 = t2
  a1 = a1
  a2 = a2
  HttpThreads <- MCHttpThreads
  Alerts <- MCAlerts
  MaxPushes = 4
INVARIANTS
  QueueTypeOK
  NoLostWakeup
  DrainedAtExit
PROPERTIES
  ImplementsChannel
\* the tracker stops
CHECK_DEADLOCK FALSE
