CONSTANTS
  Threads = {t1, t2}
  Streams = {s1, s2}
  NoThread = NoThread
  NoStream = NoStream
  Routes = {0, 1}
  Substreams = 1
  BufferSize = 1
  WrittenMod = 2
  MaxWrite = 1
  MaxFrames = 2
  MaxPcms = 2
  Handles = {h1, h2}
  Bos = {b1, b2}
  Absent = Absent
  NoBo = NoBo
  Shapes <- MCShapes
  LockUsages <- MCLockUsages
  Regions <- MCRegions
  MaxOpens = 2
  MaxLocks = 2
SPECIFICATION HalsSpec
SYMMETRY Symmetry
INVARIANTS
  PcmUsedOpen
  PcmAccounted
  NoLockCycle
  PositionTrue
  BuffersBacked
  NoMisuse
  MappedWhileLocked
  MapInside
