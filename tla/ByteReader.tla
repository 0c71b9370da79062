----------------------------- MODULE ByteReader -----------------------------
(***************************************************************************)
(* The bounds-checked cursor every parser reads through (byte_reader.rs)   *)
(* and what is decoded from it: compact integers (get_compact_int, util.rs)*)
(* and command fields, over every short input and sequence of reads.       *)
(*                                                                         *)
(* A byte is a digit in base BASE, whose three largest values are the      *)
(* markers 0xfd, 0xfe and 0xff.  The widths of u16, u32 and u64 and the    *)
(* largest usize are parameters; i32 and fixed arrays are reads of a fixed *)
(* width too and differ only in how the caller uses the bytes.             *)
(***************************************************************************)
EXTENDS CommandField

CONSTANTS
  BASE,        \* the number of values of a byte
  U16, U32, U64,   \* widths in bytes
  USIZE_MAX,   \* the largest usize
  MaxLength    \* bound: the length of the input

ASSUME ReaderAssumption ==
  /\ BASE \in Nat /\ BASE > 3 /\ ASCII_BOUND <= BASE
  /\ U16 \in Nat /\ U32 \in Nat /\ U64 \in Nat
  /\ 0 < U16 /\ U16 < U32 /\ U32 < U64
  /\ USIZE_MAX \in Nat /\ MaxLength \in Nat /\ MaxLength <= USIZE_MAX

VARIABLES
  bytes,      \* the input
  position,   \* how much of it has been taken
  last        \* history: the last read, where it began and what it gave

cursorVars == <<bytes, position, last>>

AnyByte == 0 .. BASE - 1

Err == [ok |-> FALSE, value |-> 0]

Ok(v) == [ok |-> TRUE, value |-> v]

-----------------------------------------------------------------------------
(* Numbers and bytes.                                                      *)

Power[n \in 0 .. U64] == IF n = 0 THEN 1 ELSE BASE * Power[n - 1]

to_le_bytes(n, width) == [i \in 1 .. width |-> (n \div Power[i - 1]) % BASE]

\* The last byte counts most.
from_le_bytes(b) ==
  LET value[k \in 0 .. Len(b)] ==
        IF k = 0 THEN 0 ELSE b[Len(b) - k + 1] + BASE * value[k - 1]
  IN  value[Len(b)]

get_compact_int_OffByOne(number) ==
  CASE number <= BASE - 3 -> to_le_bytes(number, 1)
    [] number > BASE - 3 /\ number < Power[U16] -> <<BASE - 3>> \o to_le_bytes(number, U16)
    [] number >= Power[U16] /\ number < Power[U32] -> <<BASE - 2>> \o to_le_bytes(number, U32)
    [] OTHER -> <<BASE - 1>> \o to_le_bytes(number, U64)

get_compact_int(number) ==
  CASE number < BASE - 3 -> to_le_bytes(number, 1)
    [] number >= BASE - 3 /\ number < Power[U16] -> <<BASE - 3>> \o to_le_bytes(number, U16)
    [] number >= Power[U16] /\ number < Power[U32] -> <<BASE - 2>> \o to_le_bytes(number, U32)
    [] OTHER -> <<BASE - 1>> \o to_le_bytes(number, U64)

-----------------------------------------------------------------------------
(* The cursor.                                                             *)

End_Wraps(from, count) == (from + count) % (USIZE_MAX + 1)

\* The sum take checks against overflow.
End(from, count) == from + count

\* take returns Some.
Takes(from, count) == End(from, count) <= USIZE_MAX /\ End(from, count) <= Len(bytes)

\* A read of count bytes at a place, and the place it leaves the cursor at.
Fixed(from, count) ==
  IF Takes(from, count)
    THEN [result |-> Ok(from_le_bytes(SubSeq(bytes, from + 1, End(from, count)))),
          position |-> End(from, count)]
    ELSE [result |-> Err, position |-> from]

\* The marker is taken before the width it announces, and stays taken.
Compact(from) ==
  LET first == Fixed(from, 1)
      width == [u \in BASE - 3 .. BASE - 1 |-> <<U16, U32, U64>>[u - (BASE - 4)]]
  IN  IF first.result.ok /\ first.result.value \in DOMAIN width
        THEN Fixed(first.position, width[first.result.value])
        ELSE first

Returns(kind, count, read) ==
  /\ position' = read.position
  /\ last' = [kind |-> kind, count |-> count, from |-> position, result |-> read.result]
  /\ UNCHANGED bytes

\* read_byte, read_u16, read_u32, read_i32, read_u64 and read_array.
ReadFixed(width) == Returns("fixed", width, Fixed(position, width))

\* read_bytes, of a length that the input itself may have claimed.
ReadBytes(count) == Returns("bytes", count, Fixed(position, count))

ReadCompact == Returns("compact", 0, Compact(position))

\* The command of a header: an array is read, then parsed as a name.
ReadCommand ==
  LET field == SubSeq(bytes, position + 1, position + FIELD_LENGTH)
      read  == Fixed(position, FIELD_LENGTH)
  IN  Returns("command", FIELD_LENGTH,
              [read EXCEPT !.result =
                 IF @.ok /\ ParsesCommand(field) THEN Ok(parse_command_12(field)) ELSE Err])

-----------------------------------------------------------------------------
Nothing == [kind |-> "none", count |-> 0, from |-> 0, result |-> Err]

ReaderInit ==
  /\ bytes \in BoundedSeq(AnyByte, MaxLength)
  /\ position = 0
  /\ last = Nothing

ReaderNext ==
  \/ \E width \in {1, U16, U32, U64} : ReadFixed(width)
  \/ \E count \in 0 .. USIZE_MAX : ReadBytes(count)
  \/ ReadCompact \/ ReadCommand

ReaderSpec == ReaderInit /\ [][ReaderNext]_cursorVars

-----------------------------------------------------------------------------
(* Properties.                                                             *)

\* Whatever lengths are asked for, the cursor never goes back and never
\* passes the end, so no byte is parsed twice and no slice is out of range.
OnlyForward == [][position <= position' /\ position' <= Len(bytes)]_cursorVars

\* The bytes from the last read's start on.
Rest == SubSeq(bytes, last.from + 1, Len(bytes))

\* read_compact reads back what get_compact_int wrote, whatever follows it,
\* and leaves the cursor right behind it: values at every width's boundary
\* are written so that they are read with the same width.
CompactReadsBack ==
  last.kind = "compact" =>
    \A n \in 0 .. Power[U64] - 1 :
      IsPrefix(get_compact_int(n), Rest) =>
        last.result = Ok(n) /\ position = last.from + Len(get_compact_int(n))

\* Names and fields stand for each other: written again, a parsed name is the
\* field it was parsed from, so no two fields are taken for one command; and
\* every name without a NUL that command_12 accepts is understood as itself,
\* also when it fills the field and when other bytes follow.
OneFieldPerName ==
  last.kind = "command" =>
    /\ last.result.ok =>
         /\ Legal(last.result.value)
         /\ command_12(last.result.value) = SubSeq(bytes, last.from + 1, position)
    /\ \A name \in BoundedSeq(1 .. ASCII_BOUND - 1, FIELD_LENGTH) :
         IsPrefix(command_12(name), Rest) => last.result.ok /\ last.result.value = name
=============================================================================
