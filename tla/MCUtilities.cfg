CONSTANTS
  StateSize = 16
  Inputs <- MCInputs
  Seeds <- MCSeeds
  LongSeeds <- MCLongSeeds
  OtherBytes <- MCOtherBytes
  Key <- MCKey
SPECIFICATION StreamSpec
INVARIANTS StreamsAgree EveryByteTells ConversionsInvert
CHECK_DEADLOCK FALSE
