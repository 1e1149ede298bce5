SPECIFICATION Spec
CONSTANTS
  Mod = 128
  Start = 120
  Interval = 2
  JumpLimit = 5
  RtoDef = 4
  RtoMin = 3
  RtoMax = 9
  Resent = 1
  DeadLink = 3
  Window = 2
  Gaps = {1, 3}
  Jumps <- MCJumps
  MaxTime = 13
  MaxJumps = 1
  MaxSegs = 2
  MaxXmit = 7
INVARIANTS TypeOK FlushGoesOn ResendOnTime RttWithinSamples
PROPERTY NeverEarly
CHECK_DEADLOCK FALSE
