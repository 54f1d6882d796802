SPECIFICATION FairSpec
CONSTANTS
  None = None
  Lupd = Lupd
  Calls = {}
  Messages = {}
  Incoming = {}
  Areas = {a, b}
  Periodic = TRUE
  Said = {"CHAN_REL", "REL_IND", "ERROR_IND", "AUTH_REJ", "LU_ACC", "LU_AREA", "LU_ROAMING", "LU_ILLEGAL", "LU_OTHER"}
INVARIANTS
  UpdateGuarded
  ServiceTrue
  ChannelOnCell

  
