\* Two rooms and any two of texts, changes, switches and faults, with
\* WebSockets and without.  The history file is of either room; without one the
\* client behaves as with that of another room.
SPECIFICATION FairSpec
CONSTANTS
  Room = {r1, r2}
  First = r1
  Left = {r1, r2}
  MaxThreads = 2
  Free = Free
  Nothing = Nothing
  MaxEvents = 2
INVARIANTS
  ShownIsOfRoom
  RefreshAccounted
  OneListener
PROPERTIES
  CatchesUp
