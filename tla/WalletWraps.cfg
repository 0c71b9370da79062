SPECIFICATION Spec
CONSTANTS
  Key = {"k1"}
  Outpoint = "o1"
  Address = {"a1", "a2"}
  U64_MAX = 15
  BALANCE = 10
INVARIANTS
  ExcessIsRefused
