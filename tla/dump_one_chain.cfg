CONSTANTS
  f1 = f1
  f2 = f2
  b1 = b1
  b2 = b2
  b3 = b3
  b4 = b4
  b5 = b5
  b6 = b6
  b7 = b7
  b8 = b8
  NoNode = NoNode
  Nodes <- OneNode
  Blocks <- FourBlocks
  Flags <- MCFlags
  SLOT_MAX = 3
  CHAIN_LENGTH = 1
  NUM_BLOCKS = 1
  Sizes = {0, 1}
  STORAGE_FAULTS = FALSE
  MAX_INFLIGHT = 2
SPECIFICATION SpecSplitDump
CHECK_DEADLOCK FALSE
INVARIANT InMemoryBlocksOwned
