SPECIFICATION CmdSpec
CONSTANTS
  Consoles = {console}
  Clients = {http, mqtt}
  MaxId = 2
  MaxCommands = 4
SYMMETRY Interchangeable
INVARIANTS
  CmdTypeOK
  EntryHasWaiter
  AckIsOwn
  InTimeIsTold
  UniqueUnlessTracked
CHECK_DEADLOCK FALSE
