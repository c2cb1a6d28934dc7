\* The loop with its breaker: entries, partial fills, reverts, drawdowns,
\* balances, geoblocks and a restart.
CONSTANTS
  Enabled = TRUE
  DrawdownNum = 1
  DrawdownDen = 10
  MaxErrors = 3
  ErrorWindow = 1
  ApiTimeout = 2
  RecoveryThreshold = 2
  WindowSize = 2
  MinFills = 2
  RevertNum = 35
  RevertDen = 100
  Values <- MCValues
  Every <- MCEvery
  MaxBatch = 2
  MaxFills = 1
  MaxPinned = 1
  MaxBoots = 2
SPECIFICATION FairSpec
INVARIANTS TypeOK StrandedEntryHalts
PROPERTIES GeoblockRecovers EntryCheckedAgainstPeak RecoveryNeedsAnswers
