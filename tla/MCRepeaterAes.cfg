\* Two threads, three MACs, a table of two entries.
SPECIFICATION Spec
CONSTANTS
  Thread = {t1, t2}
  Mac = {m1, m2, m3}
  MaxKeys = 2
  Versions = 1
INVARIANTS
  TypeOK
  DuplicatesBounded
  EncOfMac
