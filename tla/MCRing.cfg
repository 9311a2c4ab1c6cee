SPECIFICATION RingSpec
CONSTANTS
  Once = {o}
  Multi = {m}
  ZeroCopy = {z}
  o = o
  m = m
  z = z
  None = None
  SqSize = 2
  CqSize = 2
  Modulus = 4
  MaxOverflow = 1
INVARIANTS UsersKept
PROPERTIES RingsInOrder
