SPECIFICATION Spec
CONSTANTS
  Readers = {r1, r2}
  SlotNum = 3
  BufSize = 8
  AlignBytes = 2
  FrameNum = 4
  RetryNum = 4
  Sizes = {3}
  Modes = {"NON_BLOCK"}
  MaxWrites = 3
  MaxRestarts = 1
  MaxVisits = 2
INVARIANT HolesAvoided
CHECK_DEADLOCK FALSE
