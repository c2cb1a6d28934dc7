CONSTANTS
  Pids = {p1, p2}
  Start = 1
  Unreadable = {p2}
  MaxBoots = 3
SPECIFICATION FairSpec
INVARIANTS TypeOK SnapshotConsistent ShutdownKeepsAll
PROPERTIES Stored
