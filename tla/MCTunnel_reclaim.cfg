CONSTANTS
  s1 = s1  s2 = s2  
  Owners <- MCOwners
  Tunnels <- OneTunnel
  SlotNames <- OneSlot
  BadNames = {}
  Sessions = {s1, s2}
  NoEntry = NoEntry
  NoFrame = NoFrame
  NoReply = NoReply
  Clients = {"c1"}
  FrameOf <- Alone
  Frames <- FramesAlone
  NoSession = NoSession
  Requests = {}
  NoKey = NoKey
  NoOne = NoOne
  DiskFaults = FALSE
  LinkFaults = FALSE
  Interrupts = TRUE
SPECIFICATION Spec
INVARIANT ReadyIsRouted
