CONSTANTS
  Token = {a, b}
  Zero = Zero
  NumLayers = 2
  MaxSeqLen = 4
  MaxNew = 3
  MaxPrompt = 2
  Prompts <- MCPrompts
SPECIFICATION Spec
INVARIANT ContextCached
PROPERTY ImplementsUncached
