CONSTANTS
  Params <- MCParams
  Buffers <- MCBuffers
  Embed <- EmbedWeight
  LmHead <- LmHeadWeight
  Shards <- MCShards
  Single = "model.safetensors"
  Contents <- MCContents
  Indexes <- MCIndexes
  NoDisk <- MCNoDisk
  NumBytes = 3
  Printable <- MCPrintable
  Files <- MCFiles
  Bad = 99
  EndOfText <- MCEndOfText
  Slots = {0, 1}
  Ids = {1, 9}
  MaxItems = 2
  NoFile <- MCNoFile
SPECIFICATION Spec
INVARIANTS LoadedFromLastFile FailsBetweenTensors UsableWhenAccepted RoundTrip
CHECK_DEADLOCK FALSE
