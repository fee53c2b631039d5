CONSTANTS
  s1 = s1  s2 = s2  s3 = s3 
  Owners <- MCOwners
  Tunnels <- MCTunnels
  SlotNames <- OneSlot
  BadNames = {}
  Sessions = {s1, s2, s3}
  NoEntry = NoEntry
  NoFrame = NoFrame
  NoReply = NoReply
  Clients <- MCClients
  FrameOf <- Apart
  Frames <- FramesApart
  NoSession = NoSession
  Requests = {}
  NoKey = NoKey
  NoOne = NoOne
  DiskFaults = FALSE
  LinkFaults = FALSE
  Interrupts = FALSE
SPECIFICATION FairSpec
PROPERTY SelfHeals
