CONSTANTS
  Bits = 8
  ByteBits = 2
  ShiftRange = 8
  DmemBytes = 8
  Addresses = {0, 1, 2, 3, 4, 5, 6, 7}
  Values <- MCValues
  MaxBytes = 8
SPECIFICATION MemSpec
INVARIANT LoadsAgree
PROPERTY StoresAreWordMerges
