SPECIFICATION Spec
CONSTANTS
  PangramLen = 10
  MinRepeats = 1
  Commands <- MCCommands
INVARIANTS ShardsPartition RowsInShard GuardNeverFires
