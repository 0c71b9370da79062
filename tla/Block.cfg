SPECIFICATION Spec
CONSTANTS
  t1 = t1
  t2 = t2
  t3 = t3
  t4 = t4
  t5 = t5
  t6 = t6
  Leaf = {t1, t2, t3, t4, t5, t6}
  MaxLeaves = 6
  Transactions <- SomeTransactions
  Time = {1, 2}
  Bits = {6, 10}
  U32_MAX = 2
  EXPONENT_SHIFT = 3
  EXPONENT_UNIT = 2
  TARGET_BITS = 4
  Hash <- SmallHash
  Forged = 16
INVARIANTS
  SealedIsConsistent
  ReminingReproduces
  RootNamesTheLeaves
