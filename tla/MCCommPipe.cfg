SPECIFICATION FairSpec
CONSTANTS
  Word <- MCWord
  size <- MCsize
  chunks <- MCchunks
INVARIANTS
  TypeOK
  NoOverrun
  NoUnderrun
  NoLostReaderWake
  NoLostWriterWake
  PipeInv
PROPERTIES
  ImplementsFifo
  FlushWakesReader
  FullWriteReturns
