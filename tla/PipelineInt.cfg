SPECIFICATION Spec
CONSTANTS
  Words = 8
  Slots = 5
  PCINIT = 0
  IntLines = {0}
  Regs <- MCRegs
  Programs <- MCIntPrograms
  InitRegs <- MCInitRegs
  InitMem <- MCInitMem
  InitCsr <- MCIntCsr
  Garbage <- MCGarbage
PROPERTIES NothingLost
