CONSTANTS
  Calls <- EveryCall
  RawWords <- EveryOpcode
  PairCalls <- FewCalls
  PairWords <- ReservedWords
SPECIFICATION Spec
INVARIANTS EncoderReadsBack OneSetOfIllegalWords FlagsFollowClass MetaAgrees PairingAgrees
