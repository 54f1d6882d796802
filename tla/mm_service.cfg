SPECIFICATION FairSpec
CONSTANTS
  None = None
  Lupd = Lupd
  Calls = {c1, c2}
  Messages = {s1}
  Incoming = {i1}
  Areas = {a}
  Periodic = FALSE
  Said = {"CM_SERV_ACC", "CM_REJ", "CHAN_REL", "MM_ABORT", "REL_IND", "ERROR_IND", "EST_IND"}
INVARIANTS
  TypeOK
  ViewKept
  ChannelKnown

  
