\* One thread and a list of more MACs than the table has room for.
SPECIFICATION Spec
CONSTANTS
  Thread = {t1}
  Mac = {m1, m2, m3}
  MaxKeys = 2
  Versions = 1
PROPERTY SyncKeepsListed
