SPECIFICATION Spec
CONSTANTS
  i1 = i1
  i2 = i2
  Images = {i1, i2}
  NoImage = NoImage
  Size <- MCSize
  Version <- MCVersion
  Linked <- MCLinked
  SlotBlocks = 2
  MaxVersion = 1
  SeqMod = 5
  MaxRecords = 2
  MaxBootAttempts = 1
  OtaSeqMod = 4
  Offers <- MCOffers
  FlashFaults = TRUE
INVARIANTS
  TypeOK
  RunningImageIntact
  MetadataCoherent
  ConfirmedBootable
  ScanFindsLatest
PROPERTIES
  EventuallyGivesUp
  ActiveSlotUntouched
  AppendAtomic
  FloorMonotone
