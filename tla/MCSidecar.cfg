CONSTANTS
  w1 = w1  w2 = w2  i1 = i1  i2 = i2  i3 = i3
  Writers = {w1, w2}
  Versions <- MCVersions
  Size <- MCSize
  Inodes = {i1, i2, i3}
  NoInode = NoInode
  Empty = Empty
  Torn = Torn
  WriteFaults = TRUE
  PowerLoss = TRUE
SPECIFICATION TurnSpec
INVARIANT TypeOK
INVARIANT ReadersSeeWhole
PROPERTY ResultIsTrue
PROPERTY ImplementsAtomicFile
SYMMETRY MCSymmetry
