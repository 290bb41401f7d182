SPECIFICATION FairSpec
CONSTANTS
  Procs = {"server", "import"}
  Server = "server"
  Messages = {1, 2}
  Names = {1, 2}
  Defaults <- MCDefaults
  MaxTxns = 2
  MaxFaults = 2
INVARIANTS
  ServedComplete
  MigrationInv
PROPERTY ServerServes
