SPECIFICATION Spec
CONSTANTS
  h1 = h1
  h2 = h2
  Heart <- MCHeart
  Prompt <- MCPrompt
INVARIANTS
  TypeOK
  StoppedHeartDropped
  PromptHeartInTime
PROPERTIES
  PromptHeartKept
  PromptHeartFound
  ImplementsDetector
