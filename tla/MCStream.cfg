SPECIFICATION FairSpec
CONSTANTS
  MaxOut = 4
  MaxIn = 2
INVARIANTS OutputExact InputExact
PROPERTIES MemorySafe Resumes
CHECK_DEADLOCK FALSE
