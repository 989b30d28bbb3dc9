CONSTANTS
  b1 = b1 b2 = b2 b3 = b3 b4 = b4 b5 = b5 b6 = b6 b7 = b7 b8 = b8 b9 = b9 b10 = b10 b11 = b11
  NULL = NULL
  Blocks <- MCBlocks
  Procs <- MCProcs
  TaskIDs <- MCTaskIDs
  Devices <- MCDevices
  Handles <- MCHandles
  Unbalanced <- MCUnbalanced
  NoMemory <- MCNoMemory
  BootDevice = "UART"
  BootHandle = "UartHDC"
  MaxCommands = 3
SPECIFICATION FairSpec
PROPERTIES WifiCloseOver
CHECK_DEADLOCK FALSE
