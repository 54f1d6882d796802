SPECIFICATION FairSpec
CONSTANTS
  Producers = {p1, p2}
  Item = {a, b, c, d}
  MaxLength = 2
  LengthMod = 3
  MaxFlush = 1
INVARIANTS
  EmptiedOnlyByFlush
  LengthAgrees
  Accounted
  Announced
PROPERTY
  EventuallyDelivered
CHECK_DEADLOCK FALSE
