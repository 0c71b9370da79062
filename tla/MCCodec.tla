------------------------------ MODULE MCCodec ------------------------------
(* The two decoders in one run: a behaviour is either a sequence of reads  *)
(* from one input, or a parse of the transactions of a block.              *)
EXTENDS ByteReader, Transaction

\* A character is one byte 0, or a byte 1 and its continuation 2.
SmallUtf8(s) == s \in {<<>>, <<0>>, <<0, 0>>, <<1, 2>>}

SmallReservable == [type \in {"tx", "in", "out", "byte"} |-> 2]

vars == <<cursorVars, transactionVars>>

NoTransaction == parser = "none" /\ input = <<>> /\ found = <<>> /\ items = <<>>

NoReader == bytes = <<>> /\ position = 0 /\ last = Nothing

Init ==
  \/ ReaderInit /\ NoTransaction
  \/ TransactionInit /\ NoReader

Next ==
  \/ parser = "none" /\ ReaderNext /\ UNCHANGED transactionVars
  \/ parser # "none" /\ TransactionNext /\ UNCHANGED cursorVars

Spec == Init /\ [][Next]_vars
=============================================================================
