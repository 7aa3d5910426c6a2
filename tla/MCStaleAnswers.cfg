SPECIFICATION StaleSpec
CONSTANTS
  i1 = i1
  i2 = i2
  Images = {i1, i2}
  NoImage = NoImage
  Size <- MCSize
  Version <- MCVersion
  Linked <- MCLinked
  SlotBlocks = 3
  MaxVersion = 1
  SeqMod = 5
  MaxRecords = 2
  MaxBootAttempts = 1
  OtaSeqMod = 7
  Offers <- MCOffers
  FlashFaults = FALSE
  Catalogue <- MCCatalogue
  MaxRetries = 2
  MaxSessions = 3
  MaxResets = 1
  LineBound = 3
INVARIANTS
  CommitsOnlyVerified
CHECK_DEADLOCK FALSE
