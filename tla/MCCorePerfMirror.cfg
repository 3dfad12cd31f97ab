CONSTANTS
  WordSize = 32
  Reg = {0, 1, 2}
  ResetPc = 0
  Programs <- LoadUsePrograms
  DivLatency = 1
  EnableDualIssue = TRUE
  DmemAddr <- LowWords
  Bits = 5
  ByteBits = 1
  ShiftRange = 4
  MaxCycles = 20
  Alu <- AluSv
  Mul <- MulSv
  BranchTaken <- BranchSv
  LoadValue <- LoadSv
  StoreWord <- StoreSv
  DivY <- DivPy
SPECIFICATION PerfSpec
INVARIANT TimingModelMirrorsCore
