SPECIFICATION Spec
CONSTANTS
  Keys <- MCKeys
  Numbers = {"1"}
  MaxTokens = 9
  Characters <- MCCharacters
  Bytes <- MCBytes
  Continuations <- MCContinuations
INVARIANTS DecodesJson ValuesCounted Utf8Exact StringsKept
CHECK_DEADLOCK FALSE
