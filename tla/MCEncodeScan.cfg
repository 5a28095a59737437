CONSTANTS
  All = All
  Byte = {"a", "<", ">"}
  MaxText = 4
  Texts <- MCTexts
  SpecialSets <- MCSpecialSets
  KnownSets <- MCKnownSets
SPECIFICATION Spec
INVARIANTS Lossless SpecialsAsDefined
PROPERTY Terminates
