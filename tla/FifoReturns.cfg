CONSTANTS
  FileLen = 2600
  Capacity = 4096
  Word = 16384
  HeaderBytes = {0, 300}
  Packets = {600, 1460}
  ReadLens = {512, 2048}
  SeekOffsets = {0, 1024, 2560}
SPECIFICATION FairSpec
PROPERTIES RequestReturns
CHECK_DEADLOCK FALSE
