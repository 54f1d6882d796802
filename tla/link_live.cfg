SPECIFICATION FairSpec
CONSTANTS
  ms1 = ms1
  ms2 = ms2
  bts = bts
  u1 = u1
  u2 = u2
  d1 = d1
  d2 = d2
  ho = ho
  id1 = id1
  id2 = id2
  Empty = Empty
  Null = Null
  Bts = bts
  Msg = {u1,d1}
  Segments <- TwoSegments
  Content = {id1}
  K = 1
  N200 = 1
  N200_EST_REL = 0
  MaxF = 4
  Mobiles = {ms1}
  Listening = {}
  SabmInfo <- ContentSabm
  Outbox <- BothWays
  Handover = {}
  Requests <- Transfer
  MaxRequests = 1
  AirMax = 1
  TxMax = 3
  EarlyT200 = TRUE
INVARIANTS
  TimerGuardsWait
  UnackedInBuffer
  DeliveredInOrder
PROPERTIES
  Concluded
  ServiceLive
CHECK_DEADLOCK FALSE
