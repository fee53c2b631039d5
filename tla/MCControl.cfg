CONSTANTS
  s1 = s1  s2 = s2
  Owners <- MCOwners
  Tunnels <- MCTunnels
  SlotNames <- MCSlotNames
  BadNames <- MCBadNames
  Sessions = {s1, s2}
  NoEntry = NoEntry
  Frames <- MCFrames
  NoFrame = NoFrame
  NoReply = NoReply
  DiskFaults = TRUE
  LinkFaults = TRUE
SPECIFICATION FairControlSpec
INVARIANT ControlTypeOK
INVARIANT BoundAsRegistered
INVARIANT BoundIsPersisted
INVARIANT AckedStaysServed
PROPERTY CleanupOnlyOwn
PROPERTY ImplementsDirectory
PROPERTY DroppedClientReleasesSlots
PROPERTY RegisterIsAnswered
