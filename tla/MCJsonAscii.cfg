SPECIFICATION Spec
CONSTANTS
  Keys <- MCKeys
  Numbers = {"1"}
  MaxTokens = 1
  Characters <- MCCharacters
  Bytes <- MCBytes
  Continuations <- MCContinuations
INVARIANT AsciiKept
CHECK_DEADLOCK FALSE
