------------------------------ MODULE MCBlock ------------------------------
(* A small instance of Block for TLC.                                      *)
EXTENDS Block

CONSTANTS t1, t2, t3, t4, t5, t6

\* One list per length: which leaves it has makes no difference.
SomeTransactions == {SubSeq(<<t1, t2, t3, t4, t5, t6>>, 1, n) : n \in {0, 1, 5, 6}}

\* Four bits wide; differs from nonce to nonce and from time to time.
SmallHash(h) == (7 * h.nonce + 5 * h.time + 3 * h.n_bits + 11) % 16
=============================================================================
