CONSTANTS
  s1 = s1  s2 = s2   r1 = r1
  Owners <- MCOwners
  Tunnels <- OneTunnel
  SlotNames <- MCSlotNames
  BadNames = {}
  Sessions = {s1, s2}
  NoEntry = NoEntry
  NoFrame = NoFrame
  NoReply = NoReply
  Clients <- MCClients
  FrameOf <- Contending
  Frames <- FramesContending
  NoSession = NoSession
  Requests = {r1}
  NoKey = NoKey
  NoOne = NoOne
  DiskFaults = TRUE
  LinkFaults = FALSE
  Interrupts = FALSE
SPECIFICATION Spec
PROPERTY NobodyMeansNobody
