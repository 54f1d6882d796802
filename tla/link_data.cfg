SPECIFICATION Spec
CONSTANTS
  ms1 = ms1
  ms2 = ms2
  bts = bts
  u1 = u1
  u2 = u2
  d1 = d1
  d2 = d2
  ho = ho
  id1 = id1
  id2 = id2
  Empty = Empty
  Null = Null
  Bts = bts
  Msg = {u1,u2,d1}
  Segments <- LongAndShort
  Content = {id1}
  K = 2
  N200 = 2
  N200_EST_REL = 0
  MaxF = 10
  Mobiles = {ms1}
  Listening = {}
  SabmInfo <- ContentSabm
  Outbox <- TwoUpDown
  Handover = {}
  Requests <- Transfer
  MaxRequests = 1
  AirMax = 2
  TxMax = 4
  EarlyT200 = FALSE
INVARIANTS
  WindowAgreement
  NrValid
PROPERTIES
  ServiceSpec
CHECK_DEADLOCK FALSE
