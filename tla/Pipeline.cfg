SPECIFICATION FairSpec
CONSTANTS
  Words = 8
  Slots = 5
  PCINIT = 0
  IntLines = {}
  Regs <- MCRegs
  Programs <- MCPrograms
  InitRegs <- MCInitRegs
  InitMem <- MCInitMem
  InitCsr <- MCInitCsr
  Garbage <- MCGarbage
INVARIANTS TypeOK MemoryPrecise NoSpeculativeAccess
PROPERTIES Sequential Progress
