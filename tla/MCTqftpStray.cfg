SPECIFICATION Spec
CONSTANTS
  r1 = r1
  r2 = r2
  r3 = r3
  r4 = r4
  w1 = w1
  w2 = w2
  x1 = x1
  fw = fw
  fw2 = fw2
  fnew = fnew
  fold = fold
  none = none
  Readers = {r1}
  Options <- MCOptions
  Writers = {}
  Strangers = {x1}
  NodeOf <- MCNodeOf
  LocalNode = 1
  Socks = {s1, s2}
  PathOf <- MCPathOf
  Kind <- MCKind
  Stored <- MCStored
  Payload <- MCPayload
  Blk = 2
  WBlk = 2
  BlockMod = 4
  MaxTransfers = 3
  MaxLosses = 1
  MaxResends = 1
  MaxRepeats = 0
  MaxStray = 1
  MaxByes = 0
  Faults = FALSE
  Units = {1, 2, 3}
  Null = Null
PROPERTIES StrayDropped
CHECK_DEADLOCK FALSE
