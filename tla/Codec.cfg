SPECIFICATION Spec
CONSTANTS
  FIELD_LENGTH = 4
  ASCII_BOUND = 4
  BASE = 5
  U16 = 2
  U32 = 3
  U64 = 4
  USIZE_MAX = 6
  MaxLength = 5
  Field = {0, 1}
  Count = {0, 1, 2, 3}
  Byte = {0, 1, 2}
  Utf8 <- SmallUtf8
  Reservable <- SmallReservable
  MaxInput = 15
INVARIANTS
  CompactReadsBack
  OneFieldPerName
  
  OwnTransactionsUnderstood
PROPERTIES
  OnlyForward
