SPECIFICATION Spec
CONSTANTS
  r1 = r1
  r2 = r2
  r3 = r3
  r4 = r4
  w1 = w1
  w2 = w2
  x1 = x1
  fw = fw
  fw2 = fw2
  fnew = fnew
  fold = fold
  none = none
  Readers = {r1, r2}
  Options <- MCOptions
  Writers = {w1, w2}
  Strangers = {x1}
  NodeOf <- MCNodeOf
  LocalNode = 1
  Socks = {s1, s2}
  PathOf <- MCPathOf
  Kind <- MCKind
  Stored <- MCStored
  Payload <- MCPayload
  Blk = 2
  WBlk = 2
  BlockMod = 4
  MaxTransfers = 2
  MaxLosses = 1
  MaxResends = 1
  MaxRepeats = 1
  MaxStray = 1
  MaxByes = 1
  Faults = TRUE
  Units = {1, 2, 3}
  Null = Null
INVARIANTS ReadIntact WriteExact
CHECK_DEADLOCK FALSE
