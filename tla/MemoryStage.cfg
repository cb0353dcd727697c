SPECIFICATION Spec
CONSTANTS
  LANES = 8
  WORDS = 2
  Addrs = {0, 4, 6, 11}
  StoreData <- MCStoreData
  InitMem <- MCInitMem
PROPERTY ByteAddressed
