CONSTANTS
  WordSize = 16
  Reg = {0, 1, 2}
  ResetPc = 8
  Programs <- SinglePrograms
  DivLatency = 1
  EnableDualIssue = FALSE
  DmemAddr <- LowWords
  Bits = 4
  ByteBits = 1
  ShiftRange = 4
  MaxCycles = 30
  Alu <- AluSv
  Mul <- MulSv
  BranchTaken <- BranchSv
  LoadValue <- LoadSv
  StoreWord <- StoreSv
  DivY <- DivPy
SPECIFICATION PerfSpec
INVARIANTS TimingModelIsExact
PROPERTY ImplementsRV32IM
