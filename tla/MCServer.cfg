SPECIFICATION FairSpec
CONSTANTS
  Sessions = {s1, s2}
  s1 = s1
  s2 = s2
  Width = 4
  Scripts <- MCScripts
  Cuts = {1, 2, 5}
INVARIANTS AnsweredInOrder FreedInTime Framed
PROPERTIES Served
CHECK_DEADLOCK FALSE
