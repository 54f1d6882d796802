SPECIFICATION FairSpec
CONSTANTS
  MaxRetry = 1
  Arfcns = {1, 2}
  Slots = {0, 1}
  Kinds = {"FBSB", "RESET", "EST_H0", "REL", "PM", "PARAM", "EST_H1", "CCCH_MODE"}
  MaxRequests = 2
  MaxConnects = 1
  MaxCmdLoss = 2
  MaxRspLoss = 1
  MaxEarly = 1
INVARIANTS
  OneOutstanding
  TransceiverAgrees
  HeadGuarded
  PowerMatchesState
PROPERTIES
  ConfSolicited
  ExecutedInOrder
  QueueWorkedOff
  PmConcluded
  FbsbConcluded
CHECK_DEADLOCK FALSE
