---------------------------- MODULE Transaction ----------------------------
(***************************************************************************)
(* How the transactions of a block are read from one byte reader and       *)
(* written again: Transaction::parse_raw and get_raw_format, and the loop  *)
(* of Block::parse_raw that calls them.                                    *)
(*                                                                         *)
(* The input is a stream of units that comes into being as it is read, so  *)
(* a run explores every input, and it may end before any read.  A field of *)
(* fixed width and a compact integer are one unit (ByteReader has the      *)
(* bytes below them), a byte of a string is one unit.  input is history.   *)
(***************************************************************************)
EXTENDS Integers, SequencesExt

CONSTANTS
  Field,       \* the values of a field of fixed width
  Count,       \* the values of a compact integer
  Byte,        \* the bytes of a string
  Utf8(_),     \* String::from_utf8 accepts these bytes
  Reservable,  \* how many elements Vec::with_capacity can reserve, by type: two at least
  MaxInput     \* bound: the units of the input

ASSUME TransactionAssumption ==
  /\ Count \subseteq Nat /\ MaxInput \in Nat
  /\ Reservable \in [{"tx", "in", "out", "byte"} -> Nat \ {0, 1}]
  /\ \A s \in BoundedSeq(Byte, 2) : Utf8(s) \in BOOLEAN

VARIABLES
  parser,   \* its next read, or how it ended
  input,    \* history: what has been read
  found,    \* the fields and counts read last, by name
  items     \* the vectors being filled, by the count that sizes them

transactionVars == <<parser, input, found, items>>

-----------------------------------------------------------------------------
(* The encoder.                                                            *)

InFormat(i) == <<i.tx_id, i.v_out, Len(i.signature)>> \o i.signature \o <<i.sequence>>

OutFormat(o) == <<o.value, Len(o.destiny_pub_key)>> \o o.destiny_pub_key

TxFormat(t) ==
  <<t.version, Len(t.inputs)>>
    \o FlattenSeq([i \in DOMAIN t.inputs |-> InFormat(t.inputs[i])])
    \o <<Len(t.outputs)>>
    \o FlattenSeq([i \in DOMAIN t.outputs |-> OutFormat(t.outputs[i])])
    \o <<t.lock_time>>

\* The transactions in Block::get_raw_format.
RawTransactions(ts) ==
  <<Len(ts)>> \o FlattenSeq([i \in DOMAIN ts |-> TxFormat(ts[i])])

-----------------------------------------------------------------------------
(* The parser: one step per read, one per string and vector it completes.  *)

\* Every vector is filled by a loop: what it holds, where a turn of the loop
\* begins, and where the parser goes on after the last one.
Loop == [tx_count         |-> [of |-> "tx",   body |-> "version",   exit |-> "done"],
         input_count      |-> [of |-> "in",   body |-> "tx_id",     exit |-> "output_count"],
         signature_length |-> [of |-> "byte", body |-> "signature", exit |-> "sequence"],
         output_count     |-> [of |-> "out",  body |-> "value",     exit |-> "lock_time"],
         pub_length       |-> [of |-> "byte", body |-> "pub_key",   exit |-> "output"]]

Turn_OffByOne(loop, got, claimed) ==
  IF got <= claimed THEN Loop[loop].body ELSE Loop[loop].exit

\* Where the parser goes with that many of the claimed elements.
Turn(loop, got, claimed) ==
  IF got < claimed THEN Loop[loop].body ELSE Loop[loop].exit

Reads(u) == Len(input) < MaxInput /\ input' = Append(input, u)

\* The fixed fields that are kept until their structure is complete.
NextRead == [version |-> "input_count", tx_id |-> "v_out", v_out |-> "signature_length",
             value |-> "pub_length"]

ReadField(u) ==
  /\ parser \in DOMAIN NextRead
  /\ Reads(u)
  /\ found' = [found EXCEPT ![parser] = u]
  /\ parser' = NextRead[parser]
  /\ UNCHANGED items

ReadCount_KeepsItems(n) ==
  /\ parser \in DOMAIN Loop
  /\ Reads(n)
  /\ found' = [found EXCEPT ![parser] = n]
  /\ parser' = IF n <= Reservable[Loop[parser].of] THEN Turn(parser, 0, n) ELSE "panicked"
  /\ UNCHANGED items

\* A count is read, room is reserved for as many, and its loop begins.
ReadCount(n) ==
  /\ parser \in DOMAIN Loop
  /\ Reads(n)
  /\ found' = [found EXCEPT ![parser] = n]
  /\ items' = [items EXCEPT ![parser] = <<>>]
  /\ parser' = IF n <= Reservable[Loop[parser].of] THEN Turn(parser, 0, n) ELSE "panicked"

\* The read that completes an element pushes it.
Push(loop, element) ==
  /\ items' = [items EXCEPT ![loop] = Append(@, element)]
  /\ parser' = Turn(loop, Len(items'[loop]), found[loop])
  /\ UNCHANGED found

ReadByte(b) ==
  /\ Reads(b)
  /\ \E loop \in {"signature_length", "pub_length"} :
       parser = Loop[loop].body /\ Push(loop, b)

\* String::from_utf8 of what the loop read.
ReadSequence(u) ==
  /\ parser = "sequence" /\ Utf8(items.signature_length)
  /\ Reads(u)
  /\ Push("input_count", [tx_id |-> found.tx_id, v_out |-> found.v_out,
                          signature |-> items.signature_length, sequence |-> u])

MakeOutput ==
  /\ parser = "output" /\ Utf8(items.pub_length)
  /\ Push("output_count", [value |-> found.value, destiny_pub_key |-> items.pub_length])
  /\ UNCHANGED input

InvalidUtf8 ==
  /\ \/ parser = "sequence" /\ ~ Utf8(items.signature_length)
     \/ parser = "output" /\ ~ Utf8(items.pub_length)
  /\ parser' = "refused"
  /\ UNCHANGED <<input, found, items>>

ReadLockTime(u) ==
  /\ parser = "lock_time"
  /\ Reads(u)
  /\ Push("tx_count", [version |-> found.version, inputs |-> items.input_count,
                       outputs |-> items.output_count, lock_time |-> u])

Ended == parser \in {"done", "refused", "panicked", "eof"}

\* The input ends before the next read, which returns Err.
Eof ==
  /\ ~ Ended /\ parser # "output"
  /\ parser = "sequence" => Utf8(items.signature_length)
  /\ parser' = "eof"
  /\ UNCHANGED <<input, found, items>>

Over == Ended /\ UNCHANGED transactionVars

-----------------------------------------------------------------------------
TransactionInit ==
  /\ parser = "tx_count" /\ input = <<>>
  /\ found = [name \in DOMAIN Loop \cup DOMAIN NextRead |-> 0]
  /\ items = [loop \in DOMAIN Loop |-> <<>>]

TransactionNext ==
  \/ \E n \in Count : ReadCount(n)
  \/ \E u \in Field : ReadField(u) \/ ReadSequence(u) \/ ReadLockTime(u)
  \/ \E b \in Byte : ReadByte(b)
  \/ MakeOutput \/ InvalidUtf8 \/ Eof \/ Over

TransactionSpec == TransactionInit /\ [][TransactionNext]_transactionVars

-----------------------------------------------------------------------------
(* Properties.                                                             *)

\* Before every transaction and at the end, the units read are exactly those
\* of the transactions parsed: no field is lost, doubled or taken from its
\* neighbour, so an id computed from a parsed transaction is that of its
\* bytes.
ParsedIsWhatWasRead ==
  parser \in {"version", "done"} =>
    input = <<found.tx_count>> \o Tail(RawTransactions(items.tx_count))

String == {s \in BoundedSeq(Byte, 2) : Utf8(s)}
TxIn == [tx_id : Field, v_out : Field, signature : String, sequence : Field]
TxOut == [value : Field, destiny_pub_key : String]

\* The transactions with at most one input and one output.
SmallTransactions ==
  [version : Field, inputs : BoundedSeq(TxIn, 1), outputs : BoundedSeq(TxOut, 1),
   lock_time : Field]

Written == {[tx |-> t, raw |-> RawTransactions(<<t>>)] : t \in SmallTransactions}

\* A transaction this code wrote is neither refused nor read as another one,
\* and no part of it passes for the whole.
OwnTransactionsUnderstood ==
  parser \in {"refused", "panicked", "done"} =>
    \A w \in Written : IsPrefix(input, w.raw) => items.tx_count = <<w.tx>>
=============================================================================
