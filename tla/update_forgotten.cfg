SPECIFICATION Spec
CONSTANTS
  None = None
  Lupd = Lupd
  Calls = {}
  Messages = {}
  Incoming = {}
  Areas = {a, b}
  Periodic = TRUE
  Said = {"CHAN_REL", "LU_ACC"}
INVARIANT UpdateTriedLater
