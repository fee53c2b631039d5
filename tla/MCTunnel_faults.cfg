CONSTANTS
  s1 = s1  s2 = s2   r1 = r1
  Owners <- MCOwners
  Tunnels <- OneTunnel
  SlotNames <- OneSlot
  BadNames = {}
  Sessions = {s1, s2}
  NoEntry = NoEntry
  NoFrame = NoFrame
  NoReply = NoReply
  Clients = {"c1"}
  FrameOf <- Alone
  Frames <- FramesAlone
  NoSession = NoSession
  Requests = {r1}
  NoKey = NoKey
  NoOne = NoOne
  DiskFaults = TRUE
  LinkFaults = TRUE
  Interrupts = TRUE
SPECIFICATION FairSpec
PROPERTY RequestIsAnswered
PROPERTY TurnsKeepReady
