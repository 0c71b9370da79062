--------------------------- MODULE MCConnections ---------------------------
(* Instances of Connections for TLC.                                       *)
EXTENDS Connections, TLC

CONSTANT a1

\* The same address twice, as a configuration file may well say.
DialTwice == <<a1, a1>>
DialOnce == <<a1>>

Symmetry == Permutations(Conn)
=============================================================================
