----------------------------- MODULE MCFraming -----------------------------
(* An instance of Framing for TLC.                                         *)
EXTENDS Framing

\* Depends on every unit of the payload and on its length.
SmallChecksum(p) ==
  (Len(p) + 2 * FoldSeq(LAMBDA u, v : u + v, 0, p)) % (MaxUnit + 1)
=============================================================================
