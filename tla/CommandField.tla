---------------------------- MODULE CommandField ----------------------------
(***************************************************************************)
(* The command field of a header: command_12 pads a name with zeros to the *)
(* field's fixed length, parse_command_12 takes the padding off and        *)
(* refuses a field no name pads to (src/util.rs).                          *)
(***************************************************************************)
EXTENDS Integers, SequencesExt, FiniteSetsExt

CONSTANTS
  FIELD_LENGTH,   \* 12 in the code
  ASCII_BOUND     \* the first byte beyond ASCII, 128

ASSUME FieldAssumption == FIELD_LENGTH \in Nat \ {0} /\ ASCII_BOUND \in Nat \ {0}

is_ascii(b) == \A i \in DOMAIN b : b[i] < ASCII_BOUND

\* A name that command_12's assertions let through.
Legal(cmd) == Len(cmd) <= FIELD_LENGTH /\ is_ascii(cmd)

command_12(cmd) ==
  [i \in 1 .. FIELD_LENGTH |-> IF i <= Len(cmd) THEN cmd[i] ELSE 0]

Nulls(b) == {i \in DOMAIN b : b[i] = 0}

\* The bytes before the first NUL, or all of them.
Cleaned(b) == SubSeq(b, 1, Min(Nulls(b) \cup {Len(b) + 1}) - 1)

ParsesCommand_AnyPadding(b) == is_ascii(Cleaned(b))

\* parse_command_12 returns Ok: nothing but NULs after the first.
ParsesCommand(b) ==
  /\ \A i \in Nulls(b) : i .. Len(b) \subseteq Nulls(b)
  /\ is_ascii(Cleaned(b))

parse_command_12(b) == Cleaned(b)
=============================================================================
