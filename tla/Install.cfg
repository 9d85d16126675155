\* Two commands of the operator's choice and the ones that set things right,
\* each broken off anywhere, with crashes and reboots of the host.
SPECIFICATION FairSpec
CONSTANTS
  Version = {1, 2, 3}
  SchemaOf <- MCSchemaOf
  Broken = {2}
  Latest = 3
  None = None
  MaxCommands = 4
  MaxFaults = 3
INVARIANTS
  RolledBack
PROPERTIES
  RollbackServes
  OperatorRecovers
\* The end of every behavior: the service runs and nothing is left to be done.
CHECK_DEADLOCK FALSE
