SPECIFICATION RSpec
CONSTANTS
  Units = 8
  SectorUnits = 4
  RecUnits = 3
  QueueLen = 1
  MaxSeq = 1
  MaxBoots = 0
  Slots <- MCSlots
  ReplayBatch = 5
  MaxEvents = 1
INVARIANT NothingForgotten
