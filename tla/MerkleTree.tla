---------------------------- MODULE MerkleTree ----------------------------
(***************************************************************************)
(* The merkle root of src/block.rs over a free hash: the hash of a         *)
(* transaction has it as its one element and the hash of two joined nodes  *)
(* is the pair of them, so that two roots are equal exactly when the same  *)
(* joins were made of the same leaves in the same order.                   *)
(***************************************************************************)
EXTENDS Naturals, Sequences

\* get_hash of a transaction's bytes.
get_tx_id(tx) == <<tx>>

\* get_hash of the two nodes side by side.
join(left, right) == <<left, right>>

next_level_PadsFirst(level) ==
  [i \in 1 .. (Len(level) + 1) \div 2 |->
     join(level[2 * i - 1], IF 2 * i <= Len(level) THEN level[2 * i] ELSE level[1])]

\* One turn of the loop: chunks of two, the last node paired with itself
\* when it is left alone.
next_level(level) ==
  [i \in 1 .. (Len(level) + 1) \div 2 |->
     join(level[2 * i - 1], level[IF 2 * i <= Len(level) THEN 2 * i ELSE 2 * i - 1])]

\* The loop turns until one node is left, which needs fewer turns than
\* there are leaves.  There is no root without leaves.
merkle_root(leaves) ==
  LET level[k \in 0 .. Len(leaves)] ==
        IF k = 0 THEN leaves
        ELSE IF Len(level[k - 1]) > 1 THEN next_level(level[k - 1]) ELSE level[k - 1]
  IN  level[Len(leaves)][1]

\* The leaves are the ids of the transactions.
Leaves(transactions) == [i \in 1 .. Len(transactions) |-> get_tx_id(transactions[i])]

get_merkle_root_hash(transactions) == merkle_root(Leaves(transactions))

-----------------------------------------------------------------------------
(* The reference: the tree of docs/adr/0010, from its root down.           *)

\* The powers of two up to the n-th.
PowersOfTwo(n) == LET power[d \in 0 .. n] == IF d = 0 THEN 1 ELSE 2 * power[d - 1] IN power

\* How many nodes there are d levels above n leaves.
Width(n, d) == (n + PowersOfTwo(n)[d] - 1) \div PowersOfTwo(n)[d]

\* The level of the root.
Height(n) == CHOOSE d \in 0 .. n : Width(n, d) = 1 /\ \A e \in 0 .. d - 1 : Width(n, e) > 1

\* Where the nodes are: their level above the leaves and their place in it.
Positions(n) == {p \in (0 .. Height(n)) \X (1 .. n) : p[2] <= Width(n, p[1])}

\* A node without a right sibling below it has its left one twice.
RefNode(leaves) ==
  LET Right(i, n) == IF 2 * i <= n THEN 2 * i ELSE n
      node[p \in Positions(Len(leaves))] ==
        LET below == p[1] - 1
            i     == p[2]
        IN  IF p[1] = 0 THEN leaves[i]
            ELSE join(node[<<below, 2 * i - 1>>],
                      node[<<below, Right(i, Width(Len(leaves), below))>>])
  IN  node

RefRoot(leaves) == RefNode(leaves)[<<Height(Len(leaves)), 1>>]
=============================================================================
