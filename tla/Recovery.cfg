\* Two loggers, two storages, epochs up to 4 (the first with transactions
\* is 2, so epochs 2 and 3 can be flushed by one logger and not the other),
\* two snapshots (a later one replaces a root page), two crashes (a crash
\* after a restart from a savepoint).  Creates are always valid here
\* (validation is get_instance's, in StorageRegistry.cfg); name and id
\* conflicts still happen.
CONSTANTS
  StorageIds = {1, 2}
  Names = {n1, n2}
  StorageTypes = {"array"}
  ArraySizes = {4}
  PayloadSizes = {8}
  MaxStorages = 2
  NoStorage = NoStorage
  LoggerCount = 2
  MaxEpoch = 4
  MaxSnapshots = 2
  MaxCrashes = 2
  NoFile = NoFile
SPECIFICATION RSpec
INVARIANT EpochsOrdered
PROPERTY RecoveredStoragesMatch
PROPERTY SavepointRoundTrip
