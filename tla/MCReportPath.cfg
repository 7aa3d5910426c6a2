SPECIFICATION RSpec
CONSTANTS
  Units = 8
  SectorUnits = 4
  RecUnits = 3
  QueueLen = 1
  MaxSeq = 2
  MaxBoots = 1
  Slots <- MCSlots
  ReplayBatch = 5
  MaxEvents = 1
INVARIANTS
  OneInFlight
  KeptUntilAcked
  CounterExact
PROPERTY AckedWasReceived
