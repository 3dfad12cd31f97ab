CONSTANTS
  WordSize = 16
  Reg = {0}
  Bits = 4
  ByteBits = 1
  ShiftRange = 4
  Latency = 2
  DivY <- DivPy
SPECIFICATION Spec
INVARIANTS RestoringInvariant AlgorithmIsTheUnit
PROPERTIES ImplementsContract Delivered
