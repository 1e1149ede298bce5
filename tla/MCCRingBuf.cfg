SPECIFICATION Spec
CONSTANTS
  Readers = {r1, r2}
  SlotNum = 3
  BufSize = 8
  AlignBytes = 2
  FrameNum = 3
  RetryNum = 4
  Sizes = {3}
  Modes = {"BLOCK", "NON_BLOCK"}
  MaxWrites = 3
  MaxRestarts = 2
  MaxVisits = 2
SYMMETRY Symmetry
INVARIANTS TypeOK HeldIntact UnreadIntact HoleCovers
CHECK_DEADLOCK FALSE
