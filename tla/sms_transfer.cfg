SPECIFICATION Spec
CONSTANTS
  MaxRetr = 1
  Fill = "ACK_MT"
  Mo = {1, 2}
  Mt = {3}
  Unencodable = {2}
  Ref = {1, 2, 3}
  MaxFaults = 1
INVARIANTS
  NotBroken
  WaitGuarded
  NoneForgotten
  ReportedOnce
PROPERTIES
  ServiceKept
CHECK_DEADLOCK FALSE
