CONSTANTS
  WordSize = 48
  Reg = {0}
  ResetPc = 32
  Programs <- MCPrograms
SPECIFICATION Spec
INVARIANTS TypeOK WindowOK
PROPERTY InProgramOrder
