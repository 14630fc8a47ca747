SPECIFICATION Spec
CONSTANTS
  Tickets = {t1, t2, t3}
  Temp = temp
  Fds = {f}
  Intervals = {0, 1, 2}
  Chunk = 2
  MaxPoll = 1
  MaxDrift = 1
  Null = Null
SYMMETRY Symmetric
INVARIANTS PollsetFits NoTimerLeftDue
