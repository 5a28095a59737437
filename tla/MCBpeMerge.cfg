CONSTANTS
  Byte = {"a", "b"}
  MaxPiece = 5
  NoRank = 9
  Pieces <- MCPieces
  RankTables <- MCRankTables
SPECIFICATION Spec
INVARIANTS PartsCoverPiece CachedRanksFresh ThrowsOnlyOnUnknownByte Lossless
PROPERTIES ImplementsReference Terminates
