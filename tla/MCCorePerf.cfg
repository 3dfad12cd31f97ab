CONSTANTS
  WordSize = 32
  Reg = {0, 1, 2, 3}
  ResetPc = 0
  Programs <- StraightAndBent
  DivLatency = 1
  EnableDualIssue = TRUE
  DmemAddr <- LowWords
  Bits = 5
  ByteBits = 1
  ShiftRange = 4
  MaxCycles = 20
  Alu <- AluSv
  Mul <- MulSv
  BranchTaken <- BranchSv
  LoadValue <- LoadSv
  StoreWord <- StoreSv
  DivY <- DivPy
SPECIFICATION PerfSpec
INVARIANTS Lane1Discipline OperandsInOrder
  IssuesAreAccountedFor CyclesAreAccountedFor DivideCost LoadUseIsExact TimingModelIsExact CoverageSeesOutcomes IssueModelIsExact
PROPERTY ImplementsRV32IM
