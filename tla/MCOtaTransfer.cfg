SPECIFICATION HSpec
CONSTANTS
  i1 = i1
  i2 = i2
  Images = {i1, i2}
  NoImage = NoImage
  Size <- MCSize
  Version <- MCVersion
  Linked <- MCLinked
  SlotBlocks = 2
  MaxVersion = 1
  SeqMod = 5
  MaxRecords = 2
  MaxBootAttempts = 1
  OtaSeqMod = 6
  Offers <- MCOffers
  FlashFaults = FALSE
  Catalogue <- MCCatalogue
  MaxRetries = 2
  MaxSessions = 2
  MaxResets = 1
  LineBound = 2
INVARIANTS
  VerifiedUnlessMisled
PROPERTY SessionAdvances
CHECK_DEADLOCK FALSE
