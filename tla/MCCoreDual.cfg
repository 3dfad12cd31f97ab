CONSTANTS
  WordSize = 16
  Reg = {0, 1, 2}
  ResetPc = 12
  Programs <- DualPrograms
  DivLatency = 2
  EnableDualIssue = TRUE
  DmemAddr <- MCWords
  Bits = 4
  ByteBits = 1
  ShiftRange = 4
  Alu <- AluSv
  Mul <- MulSv
  BranchTaken <- BranchSv
  LoadValue <- LoadSv
  StoreWord <- StoreSv
  DivY <- DivPy
SPECIFICATION Spec
INVARIANTS TypeOK DividerOwnership PreciseTrap ProgramOrder
PROPERTIES ImplementsRV32IM QuietAfterTrap Progress
