\* A file in an open and one in an encrypted room that get the same entry id one
\* after the other, two readers at a time and any number in all.
SPECIFICATION FairSpec
CONSTANTS
  f1 = f1
  f2 = f2
  Entry = {e1}
  File <- MCFile
  Encrypted <- MCEncrypted
  Reader = {t1, t2}
  Blocks = 2
  MaxFaults = 1
  None = None
  Empty = Empty
INVARIANTS
  SpentWhole
  MissingIsDeleted
PROPERTIES
  OnceIsOnce
\* Every entry is deleted in the end and ids are finite.
CHECK_DEADLOCK FALSE
