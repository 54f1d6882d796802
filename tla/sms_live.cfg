SPECIFICATION FairSpec
CONSTANTS
  MaxRetr = 1
  Fill = "ACK_MT"
  Mo = {1}
  Mt = {}
  Unencodable = {}
  Ref = {1, 2}
  MaxFaults = 3
PROPERTIES
  Concluded
CHECK_DEADLOCK FALSE
