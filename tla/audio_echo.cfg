\* Packets of one and three against reads of two, FIFOs of four samples and two timestamps.
CONSTANTS
  SpkCapacity = 4
  TsCapacity = 2
  WriteSizes = {1, 3}
  ReadSize = 2
  Waits = 1
  EOVERFLOW = 1
  None = None
  MaxPackets = 3
  MaxOpens = 2
SPECIFICATION FairAecSpec
INVARIANTS AecTypeOK   
PROPERTIES ReadReturns
