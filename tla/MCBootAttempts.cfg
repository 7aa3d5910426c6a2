SPECIFICATION ASpec
CONSTANTS
  i1 = i1
  i2 = i2
  Images = {i1}
  NoImage = NoImage
  Size <- MCOneSize
  Version <- MCOneVersion
  Linked <- MCOneLinked
  SlotBlocks = 1
  MaxVersion = 1
  SeqMod = 13
  MaxRecords = 6
  MaxBootAttempts = 3
  OtaSeqMod = 4
  Offers <- MCOneOffers
  FlashFaults = FALSE
INVARIANT BootAttemptsBounded
