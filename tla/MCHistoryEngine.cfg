SPECIFICATION FairHistorySpec
CONSTANTS
  w1 = w1
  w2 = w2
  Wallets = {w1, w2}
  MaxBlock = 3
  Contents <- FullBlocks
  MaxBlocksPerPoll = 2
  ChunkSize = 1
  FloorBlock = 2
  InitialCursors = {0, 1}
  MaxFaults = 1
\* every block may be scanned and every wallet backfilled: the system may stop
CHECK_DEADLOCK FALSE
INVARIANTS
  HistoryTypeOK
  CoveredIsRecorded
PROPERTIES
  CursorCatchesUp
  WalletsGetBackfilled
