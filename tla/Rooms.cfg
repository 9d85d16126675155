\* One entry id and legacy uploads in one room at its quota, read while drafts,
\* commits, deletions and expiry go on.
SPECIFICATION SnapshotSpec
CONSTANTS
  Room = {A}
  Shown = A
  Id = {e1}
  File = {f1, f2}
  Size = {1, 2}
  Expected = {0, 1, 2}
  MaxRooms = 1
  MaxItems = 2
  MaxRoomBytes = 2
  MaxActive = 2
  None = None
INVARIANTS
  DraftNeverLeaks
  CommittedIsClosed
  CommittedIsWhole
  QuotaKept
  ShownInOrder
PROPERTIES
  CommittedOnlyShrinks
SYMMETRY Symmetry
