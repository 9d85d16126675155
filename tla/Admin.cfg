SPECIFICATION FairSpec
CONSTANTS
  File = {f1}
  Offline = {"restore", "reconcile"}
  Absent = Absent
  Torn = Torn
  None = None
  MaxCommands = 4
  MaxFaults = 2
INVARIANTS
  BackupCovers
  DataAtHand
PROPERTIES
  RestoredAsArchived
  RestoreRepeatable
