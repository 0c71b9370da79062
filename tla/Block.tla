------------------------------- MODULE Block -------------------------------
(***************************************************************************)
(* The life of a block (src/block.rs): built, mined, serialised, parsed,   *)
(* with its public fields written by a caller in between.                  *)
(*                                                                         *)
(* The header array that mining fills and get_raw_format writes is a cache *)
(* of the fields, and nothing keeps the two together but mine.  A header   *)
(* is a record of its fields; the version and the previous hash, which no  *)
(* operation changes or judges, are left out of it.  The hash of a header  *)
(* and the widths of the target are constants.                             *)
(*                                                                         *)
(* sealed is a history variable.                                           *)
(***************************************************************************)
EXTENDS Integers, SequencesExt, MerkleTree

CONSTANTS
  Leaf,            \* transactions
  MaxLeaves,       \* bound: the length of the lists a root is told from
  Transactions,    \* the transaction lists a caller may give a block
  Time,            \* block times
  Bits,            \* values of n_bits
  U32_MAX,         \* u32::MAX, the first nonce that is never tried
  EXPONENT_SHIFT,  \* where the exponent of n_bits starts (24)
  EXPONENT_UNIT,   \* the bits an exponent of one shifts by (8)
  TARGET_BITS,     \* the width of the target (256)
  Hash(_),         \* the double hash of a header, as a number
  Forged           \* a hash that a caller may assign

VARIABLES
  block,     \* the block the caller holds
  raw,       \* what get_raw_format last returned, if anything
  sealed     \* history: mine returned Ok(true) and no field was written since

vars == <<block, raw, sealed>>

None == <<>>

Some(x) == <<x>>

\* The 80 bytes of a header array that was never filled; its root is no root
\* of a list of transactions.
ZeroHeader == [root |-> <<>>, time |-> 0, n_bits |-> 0, nonce |-> 0]

HeaderOf(b) ==
  [root |-> b.merkle_root_hash[1], time |-> b.time, n_bits |-> b.n_bits, nonce |-> b.nonce]

ASSUME BlockAssumption ==
  /\ U32_MAX \in Nat \ {0}
  /\ EXPONENT_SHIFT \in Nat \ {0} /\ EXPONENT_UNIT \in Nat /\ TARGET_BITS \in Nat
  /\ Bits \subseteq Nat /\ Time \subseteq Nat /\ MaxLeaves \in Nat
  /\ Transactions \subseteq Seq(Leaf)

-----------------------------------------------------------------------------
\* get_target_256: the top bit of the mantissa is masked off, and what the
\* shift moves beyond the width is lost.
get_target_256(n_bits) ==
  LET exponent == n_bits \div 2 ^ EXPONENT_SHIFT
      mantissa == n_bits % 2 ^ (EXPONENT_SHIFT - 1)
  IN  (mantissa * 2 ^ (EXPONENT_UNIT * exponent)) % 2 ^ TARGET_BITS

\* The header with which a nonce is tried.
Candidate(b, nonce) == [HeaderOf(b) EXCEPT !.nonce = nonce]

Solves(b, nonce) == Hash(Candidate(b, nonce)) < get_target_256(b.n_bits)

Solutions(b) == {n \in 0 .. U32_MAX - 1 : Solves(b, n)}

First(S) == CHOOSE n \in S : \A m \in S : n <= m

new(time, n_bits, transactions) ==
  [merkle_root_hash |-> None, time |-> time, n_bits |-> n_bits, nonce |-> 0,
   hash |-> None, mine_array |-> ZeroHeader, transactions |-> transactions]

WithRoot(b) == [b EXCEPT !.merkle_root_hash = Some(get_merkle_root_hash(b.transactions))]

mine_KeepsArray(b) ==
  LET r == WithRoot(b)
      n == First(Solutions(r))
  IN  IF Solutions(r) = {} THEN r
      ELSE [r EXCEPT !.nonce = n, !.hash = Some(Hash(Candidate(r, n)))]

mine_Resumes(b) ==
  LET r == WithRoot(b)
      S == {n \in Solutions(r) : n > b.nonce}
  IN  IF S = {} THEN [r EXCEPT !.mine_array = Candidate(r, U32_MAX - 1)]
      ELSE [r EXCEPT !.nonce = First(S), !.hash = Some(Hash(Candidate(r, First(S)))),
                     !.mine_array = Candidate(r, First(S))]

\* mine, of a block with transactions.  A search without success leaves the
\* last candidate in the array, and the old nonce and hash in the fields.
mine(b) ==
  LET r == WithRoot(b)
      n == First(Solutions(r))
  IN  IF Solutions(r) = {} THEN [r EXCEPT !.mine_array = Candidate(r, U32_MAX - 1)]
      ELSE [r EXCEPT !.nonce = n, !.hash = Some(Hash(Candidate(r, n))),
                     !.mine_array = Candidate(r, n)]

get_raw_format(b) == [header |-> b.mine_array, transactions |-> b.transactions]

parse_raw(bytes) ==
  [merkle_root_hash |-> Some(bytes.header.root), time |-> bytes.header.time,
   n_bits |-> bytes.header.n_bits, nonce |-> bytes.header.nonce,
   hash |-> None, mine_array |-> ZeroHeader, transactions |-> bytes.transactions]

-----------------------------------------------------------------------------
(* What a caller may do.                                                   *)

New(t, n, txs) ==
  /\ block' = new(t, n, txs)
  /\ sealed' = FALSE
  /\ UNCHANGED raw

\* The values a caller writes into the public fields.  A root that a caller
\* writes is overwritten by mine before anything reads it.
Values ==
  [time |-> Time, n_bits |-> Bits, nonce |-> 0 .. U32_MAX, transactions |-> Transactions,
   hash |-> {None, Some(Forged)}]

Assign(field, value) ==
  /\ block' = [block EXCEPT ![field] = value]
  /\ sealed' = FALSE
  /\ UNCHANGED raw

\* Without transactions there is no root, and nothing changes.
Mine ==
  /\ block.transactions # <<>>
  /\ block' = mine(block)
  /\ sealed' = (Solutions(WithRoot(block)) # {})
  /\ UNCHANGED raw

\* Refused while the block has no hash.
Serialise ==
  /\ block.hash # None
  /\ raw' = Some(get_raw_format(block))
  /\ UNCHANGED <<block, sealed>>

Parse ==
  /\ raw # None
  /\ block' = parse_raw(raw[1])
  /\ sealed' = FALSE
  /\ UNCHANGED raw

Init ==
  /\ \E t \in Time, n \in Bits, txs \in Transactions : block = new(t, n, txs)
  /\ raw = None /\ sealed = FALSE

Next ==
  \/ \E t \in Time, n \in Bits, txs \in Transactions : New(t, n, txs)
  \/ \E field \in DOMAIN Values : \E value \in Values[field] : Assign(field, value)
  \/ Mine \/ Serialise \/ Parse

Spec == Init /\ [][Next]_vars

-----------------------------------------------------------------------------
(* Properties.                                                             *)

\* A block that mine has just solved is one block: the array that will be
\* written holds its fields, its hash is the array's, below the target, and
\* its root commits to its transactions; also when it was mined before with
\* other fields, or parsed, or carries an assigned hash.
SealedIsConsistent ==
  sealed =>
    /\ block.mine_array = HeaderOf(block)
    /\ block.hash = Some(Hash(block.mine_array))
    /\ block.hash[1] < get_target_256(block.n_bits)
    /\ block.merkle_root_hash = Some(get_merkle_root_hash(block.transactions))

\* The bytes of a solved block are that block: whoever parses them and mines
\* what they parsed has the same block again, nonce, hash, array and all,
\* whatever nonce and hash the first miner started from.
ReminingReproduces == sealed => mine(parse_raw(get_raw_format(block))) = block

\* The lists without a repeated leaf (docs/adr/0010 makes any other block
\* invalid), each with its root.
DistinctLists ==
  {s \in BoundedSeq(Leaf, MaxLeaves) : s # <<>> /\ IsInjective(s)}

Rooted == {[leaves |-> s, root |-> get_merkle_root_hash(s)] : s \in DistinctLists}

\* Whatever the number of transactions, the root of a solved block is that of
\* the left-to-right tree which repeats the last node of an odd level, at any
\* height (docs/adr/0010; six leaves tell it from padding the leaves), and
\* names the list unless a transaction is in it twice: order, count and every
\* leaf are committed to, although odd levels repeat a node.
RootNamesTheLeaves ==
  sealed =>
    /\ block.merkle_root_hash = Some(RefRoot(Leaves(block.transactions)))
    /\ IsInjective(block.transactions) =>
         \A r \in Rooted :
           r.root = block.merkle_root_hash[1] => r.leaves = block.transactions
=============================================================================
