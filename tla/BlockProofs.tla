---------------------------- MODULE BlockProofs ----------------------------
(***************************************************************************)
(* What mine returns, for every hash function, target, nonce width, list   *)
(* of transactions and order of calls and assignments.                     *)
(*                                                                         *)
(* A solved block is determined by its time, target and transactions.  Its *)
(* root is that of the reference tree: level by level, the nodes the loop  *)
(* makes are the nodes the tree has.  And it names the list: going down    *)
(* from two equal roots, equal levels come from equal levels, because only *)
(* a node that is there twice could be taken for one that was left alone,  *)
(* and the way down ends at the leaves of both, because a leaf is no pair. *)
(***************************************************************************)
EXTENDS Block, WellFoundedInduction, TLAPS

Built(root, t, n, k, h, array, txs) ==
  [merkle_root_hash |-> root, time |-> t, n_bits |-> n, nonce |-> k,
   hash |-> h, mine_array |-> array, transactions |-> txs]

IsBuilt(b) == \E root, t, n, k, h, array, txs : b = Built(root, t, n, k, h, array, txs)

Header(t, n, txs, k) == [root |-> get_merkle_root_hash(txs), time |-> t, n_bits |-> n, nonce |-> k]

\* The nonces that solve a block: they depend on nothing a search leaves
\* behind, neither the old nonce nor the old hash nor the array.
Winning(t, n, txs) ==
  {k \in 0 .. U32_MAX - 1 : Hash(Header(t, n, txs, k)) < get_target_256(n)}

\* What a successful search leaves, in terms of what it started from.
Mined(t, n, txs) ==
  LET k == First(Winning(t, n, txs))
  IN  Built(Some(get_merkle_root_hash(txs)), t, n, k, Some(Hash(Header(t, n, txs, k))),
            Header(t, n, txs, k), txs)

\* A solved block is the one its time, target and transactions determine.
SealedInv ==
  /\ IsBuilt(block)
  /\ sealed => \E t, n, txs : Winning(t, n, txs) # {} /\ block = Mined(t, n, txs)

-----------------------------------------------------------------------------
\* A set of numbers has a least element: every induction below looks at the
\* least counterexample.
LEMMA LeastNumber ==
  ASSUME NEW S, S \subseteq Nat, S # {}
  PROVE  \E x \in S : \A y \in S : x <= y
<1>1. PICK x \in S : \A y \in S : ~ (<<y, x>> \in OpToRel(<, Nat))
  BY NatLessThanWellFounded, WFMin
<1>2. \A y \in S : <<y, x>> \in Nat \X Nat /\ <<y, x>>[1] = y /\ <<y, x>>[2] = x
  OBVIOUS
<1>3. \A y \in S : ~ (y < x)
  BY <1>1, <1>2 DEF OpToRel
<1>4. \A y \in S : x <= y
  BY <1>3
<1> QED BY <1>4

\* First of a set of nonces is one of them: the search of mine, which goes
\* up from 0, stops at a nonce that solves the block.
LEMMA FirstIsMember ==
  ASSUME NEW S, S \subseteq Nat, S # {}
  PROVE  First(S) \in S
BY LeastNumber DEF First

\* The root that mine puts in first is the only field it changes before it
\* searches, and the candidates it hashes are headers over that root.
LEMMA CandidatesOf ==
  ASSUME NEW root, NEW t, NEW n, NEW k, NEW h, NEW array, NEW txs
  PROVE  LET r == WithRoot(Built(root, t, n, k, h, array, txs))
         IN  /\ r = Built(Some(get_merkle_root_hash(txs)), t, n, k, h, array, txs)
             /\ \A i : Candidate(r, i) = Header(t, n, txs, i)
             /\ Solutions(r) = Winning(t, n, txs)
<1> DEFINE R == get_merkle_root_hash(txs)
           b == Built(root, t, n, k, h, array, txs)
           r == Built(<<R>>, t, n, k, h, array, txs)
<1>1. b.transactions = txs
  BY DEF Built
<1>2. WithRoot(b) = [b EXCEPT !.merkle_root_hash = <<R>>]
  BY <1>1 DEF WithRoot, Some
<1> HIDE DEF R
<1>3. WithRoot(b) = r
  BY <1>2 DEF Built
<1>4. HeaderOf(r) = [root |-> R, time |-> t, n_bits |-> n, nonce |-> k]
  BY DEF HeaderOf, Built
<1>5. ASSUME NEW i PROVE Candidate(r, i) = Header(t, n, txs, i)
  <2>1. Candidate(r, i) = [[root |-> R, time |-> t, n_bits |-> n, nonce |-> k] EXCEPT !.nonce = i]
    BY <1>4 DEF Candidate
  <2>2. Candidate(r, i) = [root |-> R, time |-> t, n_bits |-> n, nonce |-> i]
    BY <2>1
  <2> QED
    BY <2>2 DEF Header, R
<1>6. r.n_bits = n
  BY DEF Built
<1>7. Solutions(r) = Winning(t, n, txs)
  <2> HIDE DEF r
  <2> QED
    BY <1>5, <1>6 DEF Solutions, Solves, Winning
<1> QED
  BY <1>3, <1>5, <1>7 DEF R, Some

\* mine of any block: the block its time, target and transactions determine
\* if some nonce solves it, and the old nonce and hash otherwise.
LEMMA MineOf ==
  ASSUME NEW root, NEW t, NEW n, NEW k, NEW h, NEW array, NEW txs
  PROVE  LET b == Built(root, t, n, k, h, array, txs)
         IN  /\ Solutions(WithRoot(b)) = Winning(t, n, txs)
             /\ Winning(t, n, txs) # {} => mine(b) = Mined(t, n, txs)
             /\ Winning(t, n, txs) = {} =>
                  mine(b) = Built(Some(get_merkle_root_hash(txs)), t, n, k, h,
                                  Header(t, n, txs, U32_MAX - 1), txs)
<1> DEFINE R == Some(get_merkle_root_hash(txs))
           W == Winning(t, n, txs)
           b == Built(root, t, n, k, h, array, txs)
           r == WithRoot(b)
           m == First(W)
<1>1. /\ r = Built(R, t, n, k, h, array, txs)
      /\ \A i : Candidate(r, i) = Header(t, n, txs, i)
      /\ Solutions(r) = W
  BY CandidatesOf
<1>2. mine(b) =
        IF W = {} THEN [r EXCEPT !.mine_array = Header(t, n, txs, U32_MAX - 1)]
        ELSE [r EXCEPT !.nonce = m, !.hash = Some(Hash(Header(t, n, txs, m))),
                       !.mine_array = Header(t, n, txs, m)]
  <2> HIDE DEF b, W
  <2> QED
    BY <1>1 DEF mine
<1> HIDE DEF R, W, r, m
<1>3. W # {} => mine(b) = Built(R, t, n, m, Some(Hash(Header(t, n, txs, m))),
                                Header(t, n, txs, m), txs)
  BY <1>1, <1>2 DEF Built
<1>4. W = {} => mine(b) = Built(R, t, n, k, h, Header(t, n, txs, U32_MAX - 1), txs)
  BY <1>1, <1>2 DEF Built
<1>5. Mined(t, n, txs) = Built(R, t, n, m, Some(Hash(Header(t, n, txs, m))),
                               Header(t, n, txs, m), txs)
  BY DEF Mined, R, W, m
<1> QED
  BY <1>1, <1>3, <1>4, <1>5 DEF R, W, r

-----------------------------------------------------------------------------
\* A caller who writes a public field leaves a block with the same fields.
LEMMA AssignKeepsShape ==
  ASSUME IsBuilt(block), NEW field \in DOMAIN Values, NEW value, Assign(field, value)
  PROVE  IsBuilt(block')
<1>1. PICK root, t, n, k, h, array, txs : block = Built(root, t, n, k, h, array, txs)
  BY DEF IsBuilt
<1>2. field \in {"time", "n_bits", "nonce", "transactions", "hash"}
  BY DEF Values
<1>3. block' = [block EXCEPT ![field] = value]
  BY DEF Assign
<1>4. CASE field = "time"
  <2>1. block' = Built(root, value, n, k, h, array, txs)
    BY <1>1, <1>3, <1>4 DEF Built
  <2> QED
    BY <2>1 DEF IsBuilt
<1>5. CASE field = "n_bits"
  <2>1. block' = Built(root, t, value, k, h, array, txs)
    BY <1>1, <1>3, <1>5 DEF Built
  <2> QED
    BY <2>1 DEF IsBuilt
<1>6. CASE field = "nonce"
  <2>1. block' = Built(root, t, n, value, h, array, txs)
    BY <1>1, <1>3, <1>6 DEF Built
  <2> QED
    BY <2>1 DEF IsBuilt
<1>7. CASE field = "transactions"
  <2>1. block' = Built(root, t, n, k, h, array, value)
    BY <1>1, <1>3, <1>7 DEF Built
  <2> QED
    BY <2>1 DEF IsBuilt
<1>8. CASE field = "hash"
  <2>1. block' = Built(root, t, n, k, value, array, txs)
    BY <1>1, <1>3, <1>8 DEF Built
  <2> QED
    BY <2>1 DEF IsBuilt
<1> QED
  BY <1>2, <1>4, <1>5, <1>6, <1>7, <1>8

LEMMA SealedInit == Init => SealedInv
  BY DEF Init, new, SealedInv, IsBuilt, Built

LEMMA SealedStep == SealedInv /\ [Next]_vars => SealedInv'
<1> SUFFICES ASSUME SealedInv, [Next]_vars PROVE SealedInv'
  OBVIOUS
<1>1. CASE UNCHANGED vars
  BY <1>1 DEF vars, SealedInv
<1>2. ASSUME NEW t, NEW n, NEW txs, New(t, n, txs) PROVE SealedInv'
  BY <1>2 DEF New, new, SealedInv, IsBuilt, Built
<1>3. ASSUME NEW field \in DOMAIN Values, NEW value, Assign(field, value) PROVE SealedInv'
  <2>1. IsBuilt(block')
    BY <1>3, AssignKeepsShape DEF SealedInv
  <2>2. sealed' = FALSE
    BY <1>3 DEF Assign
  <2> QED
    BY <2>1, <2>2 DEF SealedInv
<1>4. CASE Mine
  <2>1. PICK root, t, n, k, h, array, txs : block = Built(root, t, n, k, h, array, txs)
    BY DEF SealedInv, IsBuilt
  <2>2. block' = mine(block) /\ sealed' = (Solutions(WithRoot(block)) # {})
    BY <1>4 DEF Mine
  <2>3. sealed' <=> Winning(t, n, txs) # {}
    <3>1. Solutions(WithRoot(block)) = Winning(t, n, txs)
      BY <2>1, MineOf
    <3> QED
      BY <2>2, <3>1
  <2>4. CASE Winning(t, n, txs) = {}
    <3>1. block' = Built(Some(get_merkle_root_hash(txs)), t, n, k, h, Header(t, n, txs, U32_MAX - 1), txs)
      BY <2>1, <2>2, <2>4, MineOf
    <3>2. IsBuilt(block')
      BY <3>1 DEF IsBuilt
    <3> QED
      BY <2>3, <2>4, <3>2 DEF SealedInv
  <2>5. CASE Winning(t, n, txs) # {}
    <3>1. block' = Mined(t, n, txs)
      BY <2>1, <2>2, <2>5, MineOf
    <3>2. IsBuilt(Mined(t, n, txs))
      BY DEF IsBuilt, Mined
    <3> QED
      BY <2>5, <3>1, <3>2 DEF SealedInv
  <2> QED
    BY <2>4, <2>5
<1>5. CASE Serialise
  BY <1>5 DEF Serialise, SealedInv
<1>6. CASE Parse
  BY <1>6 DEF Parse, parse_raw, SealedInv, IsBuilt, Built
<1> QED
  BY <1>1, <1>2, <1>3, <1>4, <1>5, <1>6 DEF Next

\* Every reachable block is shaped as new makes it, and a solved one is the
\* block that its time, target and transactions determine.
THEOREM SealedIsDetermined == Spec => []SealedInv
<1> QED
  BY SealedInit, SealedStep, PTL DEF Spec

-----------------------------------------------------------------------------
\* The fields of a solved block, with the nonce that solved it.
LEMMA MinedFields ==
  ASSUME NEW t, NEW n, NEW txs, Winning(t, n, txs) # {}, block = Mined(t, n, txs)
  PROVE  \E k \in Winning(t, n, txs) :
           block = Built(Some(get_merkle_root_hash(txs)), t, n, k, Some(Hash(Header(t, n, txs, k))),
                         Header(t, n, txs, k), txs)
<1>1. Winning(t, n, txs) \subseteq Nat
  BY BlockAssumption DEF Winning
<1>2. First(Winning(t, n, txs)) \in Winning(t, n, txs)
  BY <1>1, FirstIsMember
<1> QED
  BY <1>2 DEF Mined

\* A solved block is consistent, whatever was mined, parsed or assigned
\* before (mine of src/block.rs): array, fields, hash, target and root agree.
THEOREM SealedHolds == Spec => []SealedIsConsistent
<1>1. SealedInv => SealedIsConsistent
  <2> SUFFICES ASSUME SealedInv, sealed PROVE SealedIsConsistent
    BY DEF SealedIsConsistent
  <2>1. PICK t, n, txs : Winning(t, n, txs) # {} /\ block = Mined(t, n, txs)
    BY DEF SealedInv
  <2>2. PICK k \in Winning(t, n, txs) :
          block = Built(Some(get_merkle_root_hash(txs)), t, n, k, Some(Hash(Header(t, n, txs, k))),
                        Header(t, n, txs, k), txs)
    BY <2>1, MinedFields
  <2>3. /\ block.merkle_root_hash = Some(get_merkle_root_hash(txs)) /\ block.time = t
        /\ block.n_bits = n /\ block.nonce = k /\ block.transactions = txs
        /\ block.hash = Some(Hash(Header(t, n, txs, k)))
        /\ block.mine_array = Header(t, n, txs, k)
    BY <2>2 DEF Built
  <2>4. HeaderOf(block) = Header(t, n, txs, k)
    BY <2>3 DEF HeaderOf, Header, Some
  <2>5. block.hash[1] = Hash(Header(t, n, txs, k))
    BY <2>3 DEF Some
  <2>6. Hash(Header(t, n, txs, k)) < get_target_256(n)
    BY <2>2 DEF Winning
  <2> QED
    BY <2>3, <2>4, <2>5, <2>6 DEF SealedIsConsistent
<1> QED
  BY <1>1, SealedIsDetermined, PTL

\* The bytes of a solved block parse into a block that mines into the same
\* one (get_raw_format, parse_raw and mine of src/block.rs).
THEOREM ReminingHolds == Spec => []ReminingReproduces
<1>1. SealedInv => ReminingReproduces
  <2> SUFFICES ASSUME SealedInv, sealed
               PROVE  mine(parse_raw(get_raw_format(block))) = block
    BY DEF ReminingReproduces
  <2>1. PICK t, n, txs : Winning(t, n, txs) # {} /\ block = Mined(t, n, txs)
    BY DEF SealedInv
  <2>2. PICK k \in Winning(t, n, txs) :
          block = Built(Some(get_merkle_root_hash(txs)), t, n, k, Some(Hash(Header(t, n, txs, k))),
                        Header(t, n, txs, k), txs)
    BY <2>1, MinedFields
  <2>3. block.mine_array = Header(t, n, txs, k) /\ block.transactions = txs
    BY <2>2 DEF Built
  <2>4. parse_raw(get_raw_format(block)) =
          Built(Some(get_merkle_root_hash(txs)), t, n, k, None, ZeroHeader, txs)
    BY <2>3 DEF parse_raw, get_raw_format, Built, Header
  <2> QED
    BY <2>1, <2>4, MineOf
<1> QED
  BY <1>1, SealedIsDetermined, PTL
-----------------------------------------------------------------------------
(* The levels of the tree.                                                 *)

\* l is a list of m nodes.
List(l, m) == m \in Nat /\ l = [i \in 1 .. m |-> l[i]] /\ Len(l) = m

\* One turn of the loop, or none when one node is left.
Turn(l) == IF Len(l) > 1 THEN next_level(l) ELSE l

\* The levels that merkle_root builds.
Levels(L, s) == L = [k \in 0 .. Len(s) |-> IF k = 0 THEN s ELSE Turn(L[k - 1])]

LEMMA ListIs ==
  ASSUME NEW m \in Nat, NEW l, l = [i \in 1 .. m |-> l[i]]
  PROVE  List(l, m)
<1> DEFINE S == {l[i] : i \in 1 .. m}
<1>1. l \in [1 .. m -> S]
  <2>1. \A i \in 1 .. m : l[i] \in S
    OBVIOUS
  <2> HIDE DEF S
  <2> QED BY <2>1
<1> HIDE DEF S
<1>2. l \in Seq(S)
  BY <1>1
<1>3. DOMAIN l = 1 .. m /\ DOMAIN l = 1 .. Len(l) /\ Len(l) \in Nat
  BY <1>1, <1>2
<1>4. Len(l) = m
  BY <1>3
<1> QED BY <1>4 DEF List

LEMMA ListsEqual ==
  ASSUME NEW m, NEW a, NEW b, List(a, m), List(b, m), \A i \in 1 .. m : a[i] = b[i]
  PROVE  a = b
BY DEF List

\* Half of a number of nodes, rounded up.
LEMMA HalfIs ==
  ASSUME NEW m \in Nat \ {0}
  PROVE  LET h == (m + 1) \div 2
         IN  /\ h \in Nat \ {0} /\ h <= m /\ (m > 1 => h < m)
             /\ 2 * h = m \/ 2 * h = m + 1
OBVIOUS

\* A turn halves a level, and pairs its nodes from left to right.
LEMMA NextLevel ==
  ASSUME NEW l, NEW m \in Nat \ {0}, List(l, m)
  PROVE  /\ List(next_level(l), (m + 1) \div 2)
         /\ \A i \in 1 .. (m + 1) \div 2 :
              next_level(l)[i] = <<l[2 * i - 1], l[IF 2 * i <= m THEN 2 * i ELSE 2 * i - 1]>>
<1> DEFINE h == (m + 1) \div 2
<1>1. h \in Nat
  BY HalfIs
<1>2. next_level(l) = [i \in 1 .. h |-> <<l[2 * i - 1], l[IF 2 * i <= m THEN 2 * i ELSE 2 * i - 1]>>]
  BY DEF next_level, join, List
<1> HIDE DEF h
<1>3. \A i \in 1 .. h :
        next_level(l)[i] = <<l[2 * i - 1], l[IF 2 * i <= m THEN 2 * i ELSE 2 * i - 1]>>
  BY <1>2
<1>4. next_level(l) = [i \in 1 .. h |-> next_level(l)[i]]
  BY <1>2, <1>3
<1>5. List(next_level(l), h)
  BY <1>1, <1>4, ListIs
<1> QED BY <1>3, <1>5 DEF h

\* The recursion of merkle_root has a solution.
LEMMA LevelsExist ==
  ASSUME NEW s, Len(s) \in Nat
  PROVE  \E L : Levels(L, s)
<1> DEFINE Sol(f, m) == f = [k \in 0 .. m |-> IF k = 0 THEN s ELSE Turn(f[k - 1])]
           Good(m) == \E f : Sol(f, m)
           Bad == {m \in Nat : ~ Good(m)}
<1>1. ASSUME Bad # {}
      PROVE  FALSE
  <2>1. PICK m \in Bad : \A j \in Bad : m <= j
    <3>1. Bad \subseteq Nat
      OBVIOUS
    <3> HIDE DEF Bad
    <3> QED BY <1>1, <3>1, LeastNumber
  <2>2. m \in Nat /\ ~ Good(m)
    BY <2>1
  <2>3. m # 0
    <3>1. \A k \in 0 .. 0 : k = 0
      OBVIOUS
    <3>2. Sol([k \in 0 .. 0 |-> s], 0)
      BY <3>1
    <3>3. Good(0)
      BY <3>2
    <3> QED BY <2>2, <3>3
  <2>4. m - 1 \in Nat /\ ~ (m <= m - 1)
    BY <2>2, <2>3
  <2>5. Good(m - 1)
    BY <2>1, <2>4
  <2>6. PICK f : Sol(f, m - 1)
    BY <2>5
  <2> DEFINE g == [k \in 0 .. m |-> IF k = m THEN Turn(f[m - 1]) ELSE f[k]]
  <2>7. ASSUME NEW k \in 0 .. m
        PROVE  g[k] = IF k = 0 THEN s ELSE Turn(g[k - 1])
    <3>1. CASE k = m
      <4>1. g[k] = Turn(f[m - 1]) /\ k # 0 /\ k - 1 = m - 1 /\ m - 1 \in 0 .. m /\ m - 1 # m
        BY <2>2, <2>3, <2>4, <3>1
      <4>2. g[k - 1] = f[m - 1]
        BY <4>1
      <4> QED BY <4>1, <4>2
    <3>2. CASE k # m /\ k = 0
      <4>1. 0 \in 0 .. m - 1 /\ 0 \in 0 .. m
        BY <2>2, <2>4
      <4>2. g[k] = f[0] /\ f[0] = s
        BY <2>6, <3>2, <4>1
      <4> QED BY <3>2, <4>2
    <3>3. CASE k # m /\ k # 0
      <4>1. k \in 0 .. m - 1 /\ k - 1 \in 0 .. m /\ k - 1 # m
        BY <2>2, <3>3
      <4>2. g[k] = f[k] /\ g[k - 1] = f[k - 1]
        BY <3>3, <4>1
      <4>3. f[k] = Turn(f[k - 1])
        BY <2>6, <3>3, <4>1
      <4> QED BY <3>3, <4>2, <4>3
    <3> QED BY <3>1, <3>2, <3>3
  <2>8. Sol(g, m)
    <3>1. g = [k \in 0 .. m |-> g[k]]
      OBVIOUS
    <3> HIDE DEF g
    <3> QED BY <2>7, <3>1
  <2>9. Good(m)
    BY <2>8
  <2> QED BY <2>2, <2>9
<1>2. Good(Len(s))
  BY <1>1
<1> QED BY <1>2 DEF Levels

\* The root is the first node of the last of the levels.
LEMMA RootOf ==
  ASSUME NEW s, Len(s) \in Nat
  PROVE  \E L : Levels(L, s) /\ merkle_root(s) = L[Len(s)][1]
<1> DEFINE h == CHOOSE L : L = [k \in 0 .. Len(s) |->
                   IF k = 0 THEN s ELSE IF Len(L[k - 1]) > 1 THEN next_level(L[k - 1]) ELSE L[k - 1]]
<1>1. merkle_root(s) = h[Len(s)][1]
  BY DEF merkle_root
<1>2. PICK L : Levels(L, s)
  BY LevelsExist
<1>3. L = [k \in 0 .. Len(s) |->
             IF k = 0 THEN s ELSE IF Len(L[k - 1]) > 1 THEN next_level(L[k - 1]) ELSE L[k - 1]]
  BY <1>2 DEF Levels, Turn
<1>4. h = [k \in 0 .. Len(s) |->
             IF k = 0 THEN s ELSE IF Len(h[k - 1]) > 1 THEN next_level(h[k - 1]) ELSE h[k - 1]]
  BY <1>3
<1> HIDE DEF h
<1>5. Levels(h, s)
  BY <1>4 DEF Levels, Turn
<1> QED BY <1>1, <1>5

-----------------------------------------------------------------------------
(* The widths of the levels.                                               *)

\* The powers of two that the reference counts nodes with.
LEMMA PowersAre ==
  ASSUME NEW n \in Nat
  PROVE  /\ PowersOfTwo(n) \in [0 .. n -> Nat \ {0}]
         /\ PowersOfTwo(n)[0] = 1
         /\ \A d \in 1 .. n : PowersOfTwo(n)[d] = 2 * PowersOfTwo(n)[d - 1]
<1> DEFINE P == Nat \ {0}
           Sol(f, m) == f = [d \in 0 .. m |-> IF d = 0 THEN 1 ELSE 2 * f[d - 1]]
           Good(m) == \E f \in [0 .. m -> P] : Sol(f, m)
           Bad == {m \in Nat : ~ Good(m)}
<1>1. ASSUME Bad # {}
      PROVE  FALSE
  <2>1. PICK m \in Bad : \A j \in Bad : m <= j
    <3>1. Bad \subseteq Nat
      OBVIOUS
    <3> HIDE DEF Bad
    <3> QED BY <1>1, <3>1, LeastNumber
  <2>2. m \in Nat /\ ~ Good(m)
    BY <2>1
  <2>3. m # 0
    <3>1. \A k \in 0 .. 0 : k = 0
      OBVIOUS
    <3>2. Sol([k \in 0 .. 0 |-> 1], 0) /\ [k \in 0 .. 0 |-> 1] \in [0 .. 0 -> P]
      BY <3>1
    <3>3. Good(0)
      BY <3>2
    <3> QED BY <2>2, <3>3
  <2>4. m - 1 \in Nat /\ ~ (m <= m - 1) /\ m - 1 \in 0 .. m - 1
    BY <2>2, <2>3
  <2>5. Good(m - 1)
    BY <2>1, <2>4
  <2>6. PICK f \in [0 .. m - 1 -> P] : Sol(f, m - 1)
    BY <2>5
  <2> DEFINE g == [k \in 0 .. m |-> IF k = m THEN 2 * f[m - 1] ELSE f[k]]
  <2>7. ASSUME NEW k \in 0 .. m
        PROVE  g[k] = (IF k = 0 THEN 1 ELSE 2 * g[k - 1]) /\ g[k] \in P
    <3>1. CASE k = m
      <4>1. g[k] = 2 * f[m - 1] /\ k # 0 /\ k - 1 = m - 1 /\ m - 1 \in 0 .. m /\ m - 1 # m
        BY <2>2, <2>3, <2>4, <3>1
      <4>2. g[k - 1] = f[m - 1]
        BY <4>1
      <4>3. f[m - 1] \in P
        BY <2>4, <2>6
      <4> QED BY <4>1, <4>2, <4>3
    <3>2. CASE k # m /\ k = 0
      <4>1. 0 \in 0 .. m - 1 /\ 0 \in 0 .. m
        BY <2>2, <2>4
      <4>2. g[k] = f[0] /\ f[0] = 1
        BY <2>6, <3>2, <4>1
      <4> QED BY <3>2, <4>2
    <3>3. CASE k # m /\ k # 0
      <4>1. k \in 0 .. m - 1 /\ k - 1 \in 0 .. m /\ k - 1 # m
        BY <2>2, <3>3
      <4>2. g[k] = f[k] /\ g[k - 1] = f[k - 1] /\ f[k] \in P
        BY <2>6, <3>3, <4>1
      <4>3. f[k] = 2 * f[k - 1]
        BY <2>6, <3>3, <4>1
      <4> QED BY <3>3, <4>2, <4>3
    <3> QED BY <3>1, <3>2, <3>3
  <2>8. Sol(g, m) /\ g \in [0 .. m -> P]
    <3>1. g = [k \in 0 .. m |-> g[k]]
      OBVIOUS
    <3> HIDE DEF g
    <3> QED BY <2>7, <3>1
  <2>9. Good(m)
    BY <2>8
  <2> QED BY <2>2, <2>9
<1>2. Good(n)
  BY <1>1
<1> DEFINE p == CHOOSE f : f = [d \in 0 .. n |-> IF d = 0 THEN 1 ELSE 2 * f[d - 1]]
<1>3. p = PowersOfTwo(n)
  BY DEF PowersOfTwo
<1>4. PICK f \in [0 .. n -> P] : Sol(f, n)
  BY <1>2
<1>5. Sol(p, n)
  BY <1>4
<1> HIDE DEF p
<1>6. p[0] = 1 /\ \A d \in 1 .. n : d \in 0 .. n /\ d - 1 \in 0 .. n /\ p[d] = 2 * p[d - 1]
  BY <1>5
<1>7. \A d \in 0 .. n : p[d] \in P
  <2> DEFINE Wrong == {d \in 0 .. n : p[d] \notin P}
  <2>1. ASSUME Wrong # {}
        PROVE  FALSE
    <3>1. PICK d \in Wrong : \A j \in Wrong : d <= j
      <4>1. Wrong \subseteq Nat
        OBVIOUS
      <4> HIDE DEF Wrong
      <4> QED BY <2>1, <4>1, LeastNumber
    <3>2. d \in 0 .. n /\ p[d] \notin P
      BY <3>1
    <3>3. d # 0
      BY <1>6, <3>2
    <3>4. d \in 1 .. n /\ d - 1 \in 0 .. n /\ ~ (d <= d - 1)
      BY <3>2, <3>3
    <3>5. p[d - 1] \in P
      BY <3>1, <3>4
    <3> QED BY <1>6, <3>2, <3>4, <3>5
  <2> QED BY <2>1
<1>8. p \in [0 .. n -> P]
  BY <1>5, <1>7
<1> QED BY <1>3, <1>6, <1>8

LEMMA DivisionIs ==
  ASSUME NEW n \in Nat, NEW m \in Nat \ {0}
  PROVE  n \div m \in Nat /\ n % m \in 0 .. m - 1 /\ n = (n \div m) * m + (n % m)
OBVIOUS

\* The quotient is the only number of times that leaves less than the divisor.
LEMMA QuotientIs ==
  ASSUME NEW n \in Nat, NEW m \in Nat \ {0}, NEW q \in Nat, NEW r \in 0 .. m - 1, n = q * m + r
  PROVE  n \div m = q
<1>1. PICK s \in Nat, t \in 0 .. m - 1 : s = n \div m /\ n = s * m + t
  BY DivisionIs
<1>2. ASSUME NEW x \in Nat, NEW y \in Nat, x < y, NEW d \in 0 .. m - 1, NEW e \in 0 .. m - 1
      PROVE  x * m + d # y * m + e
  <2>1. PICK z \in Nat : y = x + 1 + z
    <3>1. y - x - 1 \in Nat /\ y = x + 1 + (y - x - 1)
      BY <1>2
    <3> QED BY <3>1
  <2>2. PICK u \in Nat, v \in Nat : u = x * m /\ v = z * m
    BY <2>1
  <2>3. y * m = u + m + v
    <3>1. (x + 1 + z) * m = x * m + m + z * m
      BY <2>1
    <3> QED BY <2>1, <2>2, <3>1
  <2> QED BY <1>2, <2>2, <2>3
<1>3. ~ (s < q) /\ ~ (q < s)
  BY <1>1, <1>2
<1> QED BY <1>1, <1>3

\* Each level of the reference has half the nodes of the one below, rounded
\* up, as the chunks of two of merkle_root do.
LEMMA WidthHalves ==
  ASSUME NEW n \in Nat \ {0}, NEW d \in 1 .. n
  PROVE  Width(n, d) = (Width(n, d - 1) + 1) \div 2
<1>1. PICK p \in Nat \ {0} : p = PowersOfTwo(n)[d - 1] /\ 2 * p = PowersOfTwo(n)[d]
  <2>1. d - 1 \in 0 .. n
    OBVIOUS
  <2>2. PowersOfTwo(n)[d - 1] \in Nat \ {0}
    BY <2>1, PowersAre
  <2> QED BY <2>2, PowersAre
<1>2. Width(n, d - 1) = (n + p - 1) \div p /\ Width(n, d) = (n + (2 * p) - 1) \div (2 * p)
  BY <1>1 DEF Width
<1>3. PICK q \in Nat, r \in 0 .. p - 1 : q = (n + p - 1) \div p /\ n + p - 1 = q * p + r
  <2>1. n + p - 1 \in Nat
    OBVIOUS
  <2> QED BY <2>1, DivisionIs
<1>4. PICK h \in Nat, e \in 0 .. 1 : h = (q + 1) \div 2 /\ q + 1 = 2 * h + e
  <2>1. (q + 1) \div 2 \in Nat /\ (q + 1) % 2 \in 0 .. 1 /\ q + 1 = 2 * ((q + 1) \div 2) + ((q + 1) % 2)
    OBVIOUS
  <2> QED BY <2>1
<1>5. n + (2 * p) - 1 = h * (2 * p) + (e * p + r)
  <2>1. PICK u \in Nat : u = q * p
    OBVIOUS
  <2>2. PICK v \in Nat, w \in Nat : v = h * p /\ w = e * p
    OBVIOUS
  <2>3. (q + 1) * p = u + p
    BY <2>1
  <2>4. (2 * h + e) * p = 2 * v + w
    <3>1. (2 * h + e) * p = 2 * (h * p) + e * p
      OBVIOUS
    <3> QED BY <2>2, <3>1
  <2>5. u + p = 2 * v + w
    BY <1>4, <2>3, <2>4
  <2>6. h * (2 * p) = 2 * v
    <3>1. h * (2 * p) = 2 * (h * p)
      OBVIOUS
    <3> QED BY <2>2, <3>1
  <2> QED BY <1>3, <2>1, <2>2, <2>5, <2>6
<1>6. e * p + r \in 0 .. (2 * p) - 1
  <2>1. e = 0 \/ e = 1
    OBVIOUS
  <2>2. 0 * p = 0 /\ 1 * p = p
    OBVIOUS
  <2> QED BY <1>3, <2>1, <2>2
<1>7. n + (2 * p) - 1 \in Nat /\ 2 * p \in Nat \ {0}
  OBVIOUS
<1>8. (n + (2 * p) - 1) \div (2 * p) = h
  BY <1>4, <1>5, <1>6, <1>7, QuotientIs
<1> QED BY <1>2, <1>3, <1>4, <1>8

\* There is at least one node on a level and, until there is one only, at
\* least one node less on each level.
LEMMA WidthIs ==
  ASSUME NEW n \in Nat \ {0}
  PROVE  /\ Width(n, 0) = n
         /\ \A d \in 0 .. n : Width(n, d) \in 1 .. n /\ (Width(n, d) = 1 \/ Width(n, d) <= n - d)
<1>1. Width(n, 0) = n
  <2>1. (n + 1 - 1) \div 1 = n
    OBVIOUS
  <2> QED BY <2>1, PowersAre DEF Width
<1> DEFINE Good(d) == Width(n, d) \in 1 .. n /\ (Width(n, d) = 1 \/ Width(n, d) <= n - d)
           Bad == {d \in 0 .. n : ~ Good(d)}
<1>2. ASSUME Bad # {}
      PROVE  FALSE
  <2>1. PICK d \in Bad : \A j \in Bad : d <= j
    <3>1. Bad \subseteq Nat
      OBVIOUS
    <3> HIDE DEF Bad
    <3> QED BY <1>2, <3>1, LeastNumber
  <2>2. d \in 0 .. n /\ ~ Good(d)
    BY <2>1
  <2>3. d # 0
    <3>1. Good(0)
      BY <1>1
    <3> QED BY <2>2, <3>1
  <2>4. d \in 1 .. n /\ d - 1 \in 0 .. n /\ ~ (d <= d - 1)
    BY <2>2, <2>3
  <2>5. Good(d - 1)
    BY <2>1, <2>4
  <2>6. PICK w \in Nat \ {0} : w = Width(n, d - 1) /\ w <= n /\ (w = 1 \/ w <= n - (d - 1))
    <3>1. Width(n, d - 1) \in Nat \ {0}
      BY <2>5
    <3> QED BY <2>5, <3>1
  <2>7. PICK v \in Nat \ {0} : v = (w + 1) \div 2 /\ v <= w /\ (w > 1 => v < w)
    BY HalfIs
  <2>8. Width(n, d) = v
    BY <2>4, <2>6, <2>7, WidthHalves
  <2>9. v \in 1 .. n /\ (v = 1 \/ v <= n - d)
    BY <2>4, <2>6, <2>7
  <2> QED BY <2>2, <2>8, <2>9
<1> QED BY <1>1, <1>2

\* There is a level of one node, and the root is on the lowest one.
LEMMA HeightIs ==
  ASSUME NEW n \in Nat \ {0}
  PROVE  /\ Height(n) \in 0 .. n /\ Width(n, Height(n)) = 1
         /\ \A e \in 0 .. Height(n) - 1 : Width(n, e) \in 1 .. n /\ Width(n, e) > 1
<1> DEFINE S == {d \in 0 .. n : Width(n, d) = 1}
<1>1. n \in S
  <2>1. n \in 0 .. n /\ n - n = 0
    OBVIOUS
  <2>2. Width(n, n) = 1
    BY <2>1, WidthIs
  <2> QED BY <2>1, <2>2
<1>2. PICK d \in S : \A e \in S : d <= e
  <2>1. S \subseteq Nat
    OBVIOUS
  <2> HIDE DEF S
  <2> QED BY <1>1, <2>1, LeastNumber
<1>3. \A e \in 0 .. d - 1 : Width(n, e) \in 1 .. n /\ Width(n, e) > 1
  <2> SUFFICES ASSUME NEW e \in 0 .. d - 1
               PROVE  Width(n, e) \in 1 .. n /\ Width(n, e) > 1
    OBVIOUS
  <2>1. e \in 0 .. n /\ ~ (d <= e)
    BY <1>2
  <2>2. Width(n, e) \in 1 .. n
    BY <2>1, WidthIs
  <2>3. Width(n, e) # 1
    BY <1>2, <2>1
  <2> QED BY <2>2, <2>3
<1>4. d \in 0 .. n /\ Width(n, d) = 1
  BY <1>2
<1>5. /\ Height(n) \in 0 .. n
      /\ Width(n, Height(n)) = 1 /\ \A e \in 0 .. Height(n) - 1 : Width(n, e) > 1
  BY <1>3, <1>4 DEF Height
<1>6. \A e \in 0 .. Height(n) - 1 : Width(n, e) \in 1 .. n
  <2>1. \A e \in 0 .. Height(n) - 1 : e \in 0 .. n
    BY <1>5
  <2> QED BY <2>1, WidthIs
<1> QED BY <1>5, <1>6

-----------------------------------------------------------------------------
(* The root is that of the reference.                                      *)

\* The levels that merkle_root builds are as wide as the reference's, each
\* but the first is the next one of the level below, and the last has the
\* root as its only node.
LEMMA LevelsAre ==
  ASSUME NEW n \in Nat \ {0}, NEW s, List(s, n), NEW L, Levels(L, s)
  PROVE  /\ L[0] = s
         /\ \A k \in 0 .. Height(n) : List(L[k], Width(n, k))
         /\ \A k \in 1 .. Height(n) : L[k] = next_level(L[k - 1])
         /\ L[n] = L[Height(n)]
<1> DEFINE H == Height(n)
<1>1. /\ H \in 0 .. n /\ Width(n, H) = 1
      /\ \A e \in 0 .. H - 1 : Width(n, e) \in 1 .. n /\ Width(n, e) > 1
  BY HeightIs
<1>2. Len(s) = n
  BY DEF List
<1>3. L[0] = s /\ \A k \in 1 .. n : L[k] = Turn(L[k - 1])
  BY <1>2 DEF Levels
<1> HIDE DEF H
<1>4. ASSUME NEW k \in 1 .. H, List(L[k - 1], Width(n, k - 1))
      PROVE  L[k] = next_level(L[k - 1]) /\ List(L[k], Width(n, k))
  <2>1. k \in 1 .. n /\ k - 1 \in 0 .. H - 1
    BY <1>1
  <2>2. PICK w \in Nat \ {0} : w = Width(n, k - 1) /\ w > 1
    BY <1>1, <2>1
  <2>3. Len(L[k - 1]) = w /\ List(L[k - 1], w)
    BY <1>4, <2>2 DEF List
  <2>4. L[k] = next_level(L[k - 1])
    BY <1>3, <2>1, <2>2, <2>3 DEF Turn
  <2>5. Width(n, k) = (w + 1) \div 2
    BY <2>1, <2>2, WidthHalves
  <2> QED BY <2>2, <2>3, <2>4, <2>5, NextLevel
<1>5. \A k \in 0 .. H : List(L[k], Width(n, k))
  <2> DEFINE Bad == {k \in 0 .. H : ~ List(L[k], Width(n, k))}
  <2>1. ASSUME Bad # {}
        PROVE  FALSE
    <3>1. PICK k \in Bad : \A j \in Bad : k <= j
      <4>1. Bad \subseteq Nat
        OBVIOUS
      <4> HIDE DEF Bad
      <4> QED BY <2>1, <4>1, LeastNumber
    <3>2. k \in 0 .. H /\ ~ List(L[k], Width(n, k))
      BY <3>1
    <3>3. k # 0
      <4>1. List(L[0], Width(n, 0))
        BY <1>3, WidthIs
      <4> QED BY <3>2, <4>1
    <3>4. k \in 1 .. H /\ k - 1 \in 0 .. H /\ ~ (k <= k - 1)
      BY <1>1, <3>2, <3>3
    <3>5. List(L[k - 1], Width(n, k - 1))
      BY <3>1, <3>4
    <3> QED BY <1>4, <3>2, <3>4, <3>5
  <2> QED BY <2>1
<1>6. \A k \in 1 .. H : L[k] = next_level(L[k - 1])
  <2> SUFFICES ASSUME NEW k \in 1 .. H
               PROVE  L[k] = next_level(L[k - 1])
    OBVIOUS
  <2>1. k - 1 \in 0 .. H
    BY <1>1
  <2> QED BY <1>4, <1>5, <2>1
<1>7. L[n] = L[H]
  <2> DEFINE Bad == {k \in H .. n : L[k] # L[H]}
  <2>1. ASSUME Bad # {}
        PROVE  FALSE
    <3>1. PICK k \in Bad : \A j \in Bad : k <= j
      <4>1. Bad \subseteq Nat
        BY <1>1
      <4> HIDE DEF Bad
      <4> QED BY <2>1, <4>1, LeastNumber
    <3>2. k \in H .. n /\ L[k] # L[H]
      BY <3>1
    <3>3. k # H
      BY <3>2
    <3>4. k \in 1 .. n /\ k - 1 \in H .. n /\ ~ (k <= k - 1)
      BY <1>1, <3>2, <3>3
    <3>5. L[k - 1] = L[H]
      BY <3>1, <3>4
    <3>6. Len(L[H]) = 1
      <4>1. H \in 0 .. H
        BY <1>1
      <4> QED BY <1>1, <1>5, <4>1 DEF List
    <3>7. L[k] = Turn(L[H])
      BY <1>3, <3>4, <3>5
    <3>8. Turn(L[H]) = L[H]
      BY <3>6 DEF Turn
    <3> QED BY <3>2, <3>7, <3>8
  <2>2. n \in H .. n
    BY <1>1
  <2> QED BY <2>1, <2>2
<1> QED BY <1>3, <1>5, <1>6, <1>7 DEF H

\* The nodes of a level by their places.
LEMMA NodesAre ==
  ASSUME NEW n \in Nat \ {0}, NEW s, List(s, n), NEW L, Levels(L, s),
         NEW k \in 1 .. Height(n), NEW i \in 1 .. Width(n, k)
  PROVE  LET w == Width(n, k - 1)
             j == IF 2 * i <= w THEN 2 * i ELSE w
         IN  /\ 2 * i - 1 \in 1 .. w /\ j \in 1 .. w /\ w \in 1 .. n
             /\ L[k][i] = <<L[k - 1][2 * i - 1], L[k - 1][j]>>
<1>1. Height(n) \in 0 .. n
  BY HeightIs
<1>2. k \in 1 .. n /\ k - 1 \in 0 .. n /\ k - 1 \in 0 .. Height(n)
  BY <1>1
<1>3. PICK w \in Nat \ {0} : w = Width(n, k - 1) /\ w <= n
  <2>1. Width(n, k - 1) \in 1 .. n
    BY <1>2, WidthIs
  <2> QED BY <2>1
<1>4. Width(n, k) = (w + 1) \div 2
  BY <1>2, <1>3, WidthHalves
<1>5. PICK h \in Nat \ {0} : h = (w + 1) \div 2 /\ (2 * h = w \/ 2 * h = w + 1)
  BY HalfIs
<1>6. i \in 1 .. h
  BY <1>4, <1>5
<1>7. 2 * i - 1 \in 1 .. w /\ (2 * i <= w \/ 2 * i - 1 = w)
  BY <1>3, <1>5, <1>6
<1>8. L[k] = next_level(L[k - 1]) /\ List(L[k - 1], w)
  BY <1>2, <1>3, LevelsAre
<1>9. L[k][i] = <<L[k - 1][2 * i - 1], L[k - 1][IF 2 * i <= w THEN 2 * i ELSE 2 * i - 1]>>
  BY <1>5, <1>6, <1>8, NextLevel
<1>10. (IF 2 * i <= w THEN 2 * i ELSE 2 * i - 1) = (IF 2 * i <= w THEN 2 * i ELSE w)
  BY <1>7
<1>11. (IF 2 * i <= w THEN 2 * i ELSE w) \in 1 .. w
  BY <1>3, <1>6
<1> QED BY <1>3, <1>7, <1>9, <1>10, <1>11

\* What the reference says of the nodes of a tree.
IsTree(f, s) ==
  f = [p \in Positions(Len(s)) |->
         IF p[1] = 0 THEN s[p[2]]
         ELSE join(f[<<p[1] - 1, 2 * p[2] - 1>>],
                   f[<<p[1] - 1, IF 2 * p[2] <= Width(Len(s), p[1] - 1) THEN 2 * p[2]
                                 ELSE Width(Len(s), p[1] - 1)>>])]

\* The levels of merkle_root are such a tree.
LEMMA LevelsAreTree ==
  ASSUME NEW n \in Nat \ {0}, NEW s, List(s, n), NEW L, Levels(L, s)
  PROVE  IsTree([p \in Positions(n) |-> L[p[1]][p[2]]], s)
<1> DEFINE f == [p \in Positions(n) |-> L[p[1]][p[2]]]
<1>1. Len(s) = n /\ L[0] = s
  BY LevelsAre DEF List
<1>2. Height(n) \in 0 .. n
  BY HeightIs
<1>3. ASSUME NEW p \in Positions(n)
      PROVE  f[p] = IF p[1] = 0 THEN s[p[2]]
                    ELSE join(f[<<p[1] - 1, 2 * p[2] - 1>>],
                              f[<<p[1] - 1, IF 2 * p[2] <= Width(n, p[1] - 1) THEN 2 * p[2]
                                            ELSE Width(n, p[1] - 1)>>])
  <2>1. PICK k \in 0 .. Height(n), i \in 1 .. n : p = <<k, i>> /\ i <= Width(n, k)
    BY DEF Positions
  <2>2. p[1] = k /\ p[2] = i /\ f[p] = L[k][i]
    BY <2>1
  <2>3. CASE k = 0
    BY <1>1, <2>2, <2>3
  <2>4. CASE k # 0
    <3> DEFINE w == Width(n, k - 1)
               j == IF 2 * i <= w THEN 2 * i ELSE w
    <3>1. k \in 1 .. Height(n) /\ k \in 0 .. n /\ k - 1 \in 0 .. Height(n)
      BY <1>2, <2>4
    <3>2. i \in 1 .. Width(n, k)
      <4>1. Width(n, k) \in 1 .. n
        BY <3>1, WidthIs
      <4> QED BY <2>1, <4>1
    <3>3. /\ 2 * i - 1 \in 1 .. w /\ j \in 1 .. w /\ w \in 1 .. n
          /\ L[k][i] = <<L[k - 1][2 * i - 1], L[k - 1][j]>>
      BY <3>1, <3>2, NodesAre
    <3> HIDE DEF w, j
    <3>4. <<k - 1, 2 * i - 1>> \in Positions(n) /\ <<k - 1, j>> \in Positions(n)
      <4>1. 2 * i - 1 \in 1 .. n /\ j \in 1 .. n /\ 2 * i - 1 <= w /\ j <= w
        BY <3>3
      <4> QED BY <3>1, <4>1 DEF Positions, w
    <3>5. f[<<k - 1, 2 * i - 1>>] = L[k - 1][2 * i - 1] /\ f[<<k - 1, j>>] = L[k - 1][j]
      BY <3>4
    <3> HIDE DEF f
    <3>6. f[p] = join(f[<<k - 1, 2 * i - 1>>], f[<<k - 1, j>>])
      BY <2>2, <3>3, <3>5 DEF join
    <3> QED BY <2>2, <2>4, <3>6 DEF j, w
  <2> QED BY <2>3, <2>4
<1>4. f = [p \in Positions(n) |-> f[p]]
  OBVIOUS
<1> HIDE DEF f
<1>5. IsTree(f, s)
  BY <1>1, <1>3, <1>4 DEF IsTree
<1> QED BY <1>5 DEF f

\* There is only one such tree.
LEMMA TreeIsLevels ==
  ASSUME NEW n \in Nat \ {0}, NEW s, List(s, n), NEW L, Levels(L, s), NEW f, IsTree(f, s)
  PROVE  f[<<Height(n), 1>>] = L[Height(n)][1]
<1> DEFINE Good(k) == \A i \in 1 .. Width(n, k) : f[<<k, i>>] = L[k][i]
           Bad == {k \in 0 .. Height(n) : ~ Good(k)}
<1>1. Len(s) = n /\ L[0] = s
  BY LevelsAre DEF List
<1>2. Height(n) \in 0 .. n /\ Width(n, Height(n)) = 1
  BY HeightIs
<1>3. ASSUME NEW k \in 0 .. Height(n), NEW i \in 1 .. Width(n, k)
      PROVE  /\ <<k, i>> \in Positions(n)
             /\ f[<<k, i>>] = IF k = 0 THEN s[i]
                              ELSE join(f[<<k - 1, 2 * i - 1>>],
                                        f[<<k - 1, IF 2 * i <= Width(n, k - 1) THEN 2 * i
                                                   ELSE Width(n, k - 1)>>])
  <2>1. <<k, i>> \in Positions(n)
    <3>1. Width(n, k) \in 1 .. n
      <4>1. k \in 0 .. n
        BY <1>2
      <4> QED BY <4>1, WidthIs
    <3>2. i \in 1 .. n /\ i <= Width(n, k)
      BY <3>1
    <3> QED BY <3>2 DEF Positions
  <2>2. <<k, i>>[1] = k /\ <<k, i>>[2] = i
    OBVIOUS
  <2> QED BY <1>1, <2>1, <2>2 DEF IsTree
<1>4. ASSUME Bad # {}
      PROVE  FALSE
  <2>1. PICK k \in Bad : \A j \in Bad : k <= j
    <3>1. Bad \subseteq Nat
      BY <1>2
    <3> HIDE DEF Bad
    <3> QED BY <1>4, <3>1, LeastNumber
  <2>2. k \in 0 .. Height(n) /\ ~ Good(k)
    BY <2>1
  <2>3. PICK i \in 1 .. Width(n, k) : f[<<k, i>>] # L[k][i]
    BY <2>2
  <2>4. k # 0
    BY <1>1, <1>3, <2>2, <2>3, ZenonT(60)
  <2>5. k \in 1 .. Height(n) /\ k - 1 \in 0 .. Height(n) /\ ~ (k <= k - 1)
    BY <1>2, <2>2, <2>4
  <2>6. Good(k - 1)
    BY <2>1, <2>5
  <2> DEFINE w == Width(n, k - 1)
             j == IF 2 * i <= w THEN 2 * i ELSE w
  <2>7. /\ 2 * i - 1 \in 1 .. w /\ j \in 1 .. w
        /\ L[k][i] = <<L[k - 1][2 * i - 1], L[k - 1][j]>>
    BY <2>5, NodesAre
  <2>8. f[<<k, i>>] = join(f[<<k - 1, 2 * i - 1>>], f[<<k - 1, j>>])
    BY <1>3, <2>2, <2>4
  <2>9. f[<<k - 1, 2 * i - 1>>] = L[k - 1][2 * i - 1] /\ f[<<k - 1, j>>] = L[k - 1][j]
    <3> HIDE DEF j
    <3> QED BY <2>6, <2>7
  <2> HIDE DEF j, w
  <2> QED BY <2>3, <2>7, <2>8, <2>9 DEF join
<1>5. Height(n) \in 0 .. Height(n) /\ 1 \in 1 .. Width(n, Height(n))
  BY <1>2
<1>6. Good(Height(n))
  BY <1>4, <1>5
<1> QED BY <1>5, <1>6

\* merkle_root of any list is the root of the reference.
LEMMA RootIsRefRoot ==
  ASSUME NEW n \in Nat \ {0}, NEW s, List(s, n)
  PROVE  merkle_root(s) = RefRoot(s)
<1>1. Len(s) = n
  BY DEF List
<1>2. PICK L : Levels(L, s) /\ merkle_root(s) = L[n][1]
  BY <1>1, RootOf
<1>3. L[n] = L[Height(n)]
  BY <1>2, LevelsAre
<1> DEFINE t == CHOOSE f : IsTree(f, s)
<1>4. IsTree(t, s)
  <2>1. \E f : IsTree(f, s)
    BY <1>2, LevelsAreTree
  <2> QED BY <2>1
<1>5. RefNode(s) = t
  BY DEF RefNode, IsTree
<1> HIDE DEF t
<1>6. t[<<Height(n), 1>>] = L[Height(n)][1]
  BY <1>2, <1>4, TreeIsLevels
<1> QED BY <1>1, <1>2, <1>3, <1>5, <1>6 DEF RefRoot

-----------------------------------------------------------------------------
(* The root names the list.                                                *)

\* No two of the first m elements of l are equal.
Distinct(l, m) == \A i, j \in 1 .. m : l[i] = l[j] => i = j

\* Pairing keeps different nodes different.
LEMMA PairsDistinct ==
  ASSUME NEW m \in Nat \ {0}, NEW l, List(l, m), Distinct(l, m)
  PROVE  Distinct(next_level(l), (m + 1) \div 2)
<1>1. PICK h \in Nat \ {0} : h = (m + 1) \div 2 /\ (2 * h = m \/ 2 * h = m + 1)
  BY HalfIs
<1>2. ASSUME NEW i \in 1 .. h, NEW j \in 1 .. h, next_level(l)[i] = next_level(l)[j]
      PROVE  i = j
  <2>1. next_level(l)[i][1] = l[2 * i - 1] /\ next_level(l)[j][1] = l[2 * j - 1]
    BY <1>1, NextLevel
  <2>2. 2 * i - 1 \in 1 .. m /\ 2 * j - 1 \in 1 .. m
    BY <1>1
  <2>3. 2 * i - 1 = 2 * j - 1
    BY <1>2, <2>1, <2>2 DEF Distinct
  <2> QED BY <2>3
<1> QED BY <1>1, <1>2 DEF Distinct

\* One level names the one below it, when that has no node twice: only a
\* node that was there twice could be taken for one that was left alone.
LEMMA LevelNamesBelow ==
  ASSUME NEW p \in Nat \ {0}, NEW a, List(a, p), Distinct(a, p),
         NEW q \in Nat \ {0}, NEW b, List(b, q), Distinct(b, q),
         next_level(a) = next_level(b)
  PROVE  a = b
<1>1. PICK h \in Nat \ {0} : h = (p + 1) \div 2 /\ (2 * h = p \/ 2 * h = p + 1)
  BY HalfIs
<1>2. h = (q + 1) \div 2
  <2>1. Len(next_level(a)) = h /\ Len(next_level(b)) = (q + 1) \div 2
    BY <1>1, NextLevel DEF List
  <2> QED BY <2>1
<1>3. 2 * h = q \/ 2 * h = q + 1
  BY <1>2, HalfIs
<1>4. ASSUME NEW i \in 1 .. h
      PROVE  /\ a[2 * i - 1] = b[2 * i - 1]
             /\ a[IF 2 * i <= p THEN 2 * i ELSE 2 * i - 1] = b[IF 2 * i <= q THEN 2 * i ELSE 2 * i - 1]
  <2>1. next_level(a)[i] = <<a[2 * i - 1], a[IF 2 * i <= p THEN 2 * i ELSE 2 * i - 1]>>
    BY <1>1, NextLevel
  <2>2. next_level(b)[i] = <<b[2 * i - 1], b[IF 2 * i <= q THEN 2 * i ELSE 2 * i - 1]>>
    BY <1>2, NextLevel
  <2> QED BY <2>1, <2>2
<1>5. h \in 1 .. h
  OBVIOUS
<1>6. CASE p = q
  <2>1. ASSUME NEW k \in 1 .. p
        PROVE  a[k] = b[k]
    <3>1. PICK i \in 1 .. h : k = 2 * i - 1 \/ k = 2 * i
      <4>1. PICK i \in Nat \ {0} : i = (k + 1) \div 2 /\ (2 * i = k \/ 2 * i = k + 1)
        BY HalfIs
      <4>2. i \in 1 .. h /\ (k = 2 * i - 1 \/ k = 2 * i)
        BY <1>1, <4>1
      <4> QED BY <4>2
    <3>2. CASE k = 2 * i - 1
      BY <1>4, <3>2
    <3>3. CASE k = 2 * i
      <4>1. 2 * i <= p /\ 2 * i <= q
        BY <1>6, <3>3
      <4> QED BY <1>4, <3>3, <4>1
    <3> QED BY <3>1, <3>2, <3>3
  <2> QED BY <1>6, <2>1, ListsEqual
<1>7. CASE p < q
  <2>1. 2 * h = q /\ 2 * h = p + 1
    BY <1>1, <1>3, <1>7
  <2>2. ~ (2 * h <= p) /\ 2 * h <= q
    BY <2>1
  <2>3. a[2 * h - 1] = b[2 * h - 1] /\ a[2 * h - 1] = b[2 * h]
    BY <1>4, <1>5, <2>2
  <2>4. 2 * h - 1 \in 1 .. q /\ 2 * h \in 1 .. q /\ 2 * h - 1 # 2 * h
    BY <2>1
  <2> QED BY <2>3, <2>4 DEF Distinct
<1>8. CASE q < p
  <2>1. 2 * h = p /\ 2 * h = q + 1
    BY <1>1, <1>3, <1>8
  <2>2. ~ (2 * h <= q) /\ 2 * h <= p
    BY <2>1
  <2>3. a[2 * h - 1] = b[2 * h - 1] /\ a[2 * h] = b[2 * h - 1]
    BY <1>4, <1>5, <2>2
  <2>4. 2 * h - 1 \in 1 .. p /\ 2 * h \in 1 .. p /\ 2 * h - 1 # 2 * h
    BY <2>1
  <2> QED BY <2>3, <2>4 DEF Distinct
<1> QED BY <1>6, <1>7, <1>8

\* On no level is there a node twice, when there is no leaf twice.
LEMMA LevelsDistinct ==
  ASSUME NEW n \in Nat \ {0}, NEW s, List(s, n), Distinct(s, n), NEW L, Levels(L, s)
  PROVE  \A k \in 0 .. Height(n) : Distinct(L[k], Width(n, k))
<1> DEFINE Bad == {k \in 0 .. Height(n) : ~ Distinct(L[k], Width(n, k))}
<1>1. Height(n) \in 0 .. n
  BY HeightIs
<1>2. ASSUME Bad # {}
      PROVE  FALSE
  <2>1. PICK k \in Bad : \A j \in Bad : k <= j
    <3>1. Bad \subseteq Nat
      BY <1>1
    <3> HIDE DEF Bad
    <3> QED BY <1>2, <3>1, LeastNumber
  <2>2. k \in 0 .. Height(n) /\ ~ Distinct(L[k], Width(n, k))
    BY <2>1
  <2>3. k # 0
    <3>1. L[0] = s /\ Width(n, 0) = n
      BY LevelsAre, WidthIs
    <3> QED BY <2>2, <3>1
  <2>4. k \in 1 .. Height(n) /\ k \in 1 .. n /\ k - 1 \in 0 .. Height(n) /\ k - 1 \in 0 .. n /\ ~ (k <= k - 1)
    BY <1>1, <2>2, <2>3
  <2>5. Distinct(L[k - 1], Width(n, k - 1))
    BY <2>1, <2>4
  <2>6. Width(n, k - 1) \in Nat \ {0} /\ Width(n, k) = (Width(n, k - 1) + 1) \div 2
    <3>1. Width(n, k - 1) \in 1 .. n
      BY <2>4, WidthIs
    <3> QED BY <2>4, <3>1, WidthHalves
  <2>7. L[k] = next_level(L[k - 1]) /\ List(L[k - 1], Width(n, k - 1))
    BY <2>4, LevelsAre
  <2> QED BY <2>2, <2>5, <2>6, <2>7, PairsDistinct
<1> QED BY <1>2

\* A node above the leaves is a pair, and a leaf is not.
LEMMA AboveTheLeaves ==
  ASSUME NEW n \in Nat \ {0}, NEW s, List(s, n), NEW L, Levels(L, s), NEW k \in 1 .. Height(n)
  PROVE  \E x, y : L[k][1] = <<x, y>>
<1>1. Height(n) \in 0 .. n
  BY HeightIs
<1>2. k \in 0 .. n
  BY <1>1
<1>3. 1 \in 1 .. Width(n, k)
  BY <1>2, WidthIs
<1> QED BY <1>3, NodesAre

\* Two lists of transactions that are on one level of two trees are one list.
LEMMA LevelsMeet ==
  ASSUME NEW n \in Nat \ {0}, NEW s, List(s, n), Distinct(s, n), NEW L, Levels(L, s),
         \A i \in 1 .. n : \E x : s[i] = <<x>>,
         NEW m \in Nat \ {0}, NEW t, List(t, m), Distinct(t, m), NEW M, Levels(M, t),
         \A i \in 1 .. m : \E x : t[i] = <<x>>,
         L[Height(n)] = M[Height(m)]
  PROVE  s = t
<1> DEFINE Good(k) == \A j \in 0 .. Height(m) : L[k] = M[j] => s = t
           Bad == {k \in 0 .. Height(n) : ~ Good(k)}
<1>1. Height(n) \in 0 .. n /\ Height(m) \in 0 .. m
  BY HeightIs
<1>2. L[0] = s /\ M[0] = t /\ 1 \in 1 .. n /\ 1 \in 1 .. m
  BY LevelsAre
<1>3. \A x, y, z : <<x>> # <<y, z>>
  <2>1. \A x, y, z : Len(<<x>>) = 1 /\ Len(<<y, z>>) = 2
    OBVIOUS
  <2> QED BY <2>1
<1>4. ASSUME NEW j \in 0 .. Height(m), L[0] = M[j]
      PROVE  s = t
  <2>1. PICK x : L[0][1] = <<x>>
    BY <1>2
  <2>2. CASE j = 0
    BY <1>2, <1>4, <2>2
  <2>3. CASE j # 0
    <3>1. j \in 1 .. Height(m)
      BY <1>1, <2>3
    <3>2. PICK y, z : M[j][1] = <<y, z>>
      BY <3>1, AboveTheLeaves
    <3> QED BY <1>3, <1>4, <2>1, <3>2
  <2> QED BY <2>2, <2>3
<1>5. ASSUME Bad # {}
      PROVE  FALSE
  <2>1. PICK k \in Bad : \A j \in Bad : k <= j
    <3>1. Bad \subseteq Nat
      BY <1>1
    <3> HIDE DEF Bad
    <3> QED BY <1>5, <3>1, LeastNumber
  <2>2. k \in 0 .. Height(n) /\ ~ Good(k)
    BY <2>1
  <2>3. PICK j \in 0 .. Height(m) : L[k] = M[j] /\ s # t
    BY <2>2
  <2>4. k # 0
    BY <1>4, <2>3
  <2>5. k \in 1 .. Height(n) /\ k - 1 \in 0 .. Height(n) /\ k - 1 \in 0 .. n /\ ~ (k <= k - 1)
    BY <1>1, <2>2, <2>4
  <2>6. Good(k - 1)
    BY <2>1, <2>5
  <2>7. j # 0
    <3>1. ASSUME j = 0
          PROVE  FALSE
      <4>1. PICK x : M[0][1] = <<x>>
        BY <1>2
      <4>2. PICK y, z : L[k][1] = <<y, z>>
        BY <2>5, AboveTheLeaves
      <4> QED BY <1>3, <2>3, <3>1, <4>1, <4>2
    <3> QED BY <3>1
  <2>8. j \in 1 .. Height(m) /\ j - 1 \in 0 .. Height(m) /\ j - 1 \in 0 .. m
    BY <1>1, <2>7
  <2>9. /\ L[k] = next_level(L[k - 1]) /\ List(L[k - 1], Width(n, k - 1))
        /\ Distinct(L[k - 1], Width(n, k - 1))
    BY <2>5, LevelsAre, LevelsDistinct
  <2>10. /\ M[j] = next_level(M[j - 1]) /\ List(M[j - 1], Width(m, j - 1))
         /\ Distinct(M[j - 1], Width(m, j - 1))
    BY <2>8, LevelsAre, LevelsDistinct
  <2>11. Width(n, k - 1) \in Nat \ {0} /\ Width(m, j - 1) \in Nat \ {0}
    <3>1. Width(n, k - 1) \in 1 .. n /\ Width(m, j - 1) \in 1 .. m
      BY <2>5, <2>8, WidthIs
    <3> QED BY <3>1
  <2>12. L[k - 1] = M[j - 1]
    BY <2>3, <2>9, <2>10, <2>11, LevelNamesBelow, ZenonT(60)
  <2> QED BY <2>3, <2>6, <2>8, <2>12
<1>6. Height(n) \in 0 .. Height(n) /\ Height(m) \in 0 .. Height(m)
  BY <1>1
<1>7. Good(Height(n))
  BY <1>5, <1>6
<1> QED BY <1>6, <1>7

\* Two lists of ids without a repetition have one root only if they are one
\* list (docs/adr/0010 rules the others out).
LEMMA RootNames ==
  ASSUME NEW n \in Nat \ {0}, NEW s, List(s, n), Distinct(s, n),
         \A i \in 1 .. n : \E x : s[i] = <<x>>,
         NEW m \in Nat \ {0}, NEW t, List(t, m), Distinct(t, m),
         \A i \in 1 .. m : \E x : t[i] = <<x>>,
         merkle_root(s) = merkle_root(t)
  PROVE  s = t
<1>1. Len(s) = n /\ Len(t) = m
  BY DEF List
<1>2. PICK L : Levels(L, s) /\ merkle_root(s) = L[n][1]
  BY <1>1, RootOf
<1>3. PICK M : Levels(M, t) /\ merkle_root(t) = M[m][1]
  BY <1>1, RootOf
<1>4. L[n] = L[Height(n)] /\ M[m] = M[Height(m)]
  BY <1>2, <1>3, LevelsAre
<1>5. List(L[Height(n)], 1) /\ List(M[Height(m)], 1)
  <2>1. Height(n) \in 0 .. Height(n) /\ Height(m) \in 0 .. Height(m)
    BY HeightIs
  <2>2. Width(n, Height(n)) = 1 /\ Width(m, Height(m)) = 1
    BY HeightIs
  <2>3. List(L[Height(n)], Width(n, Height(n))) /\ List(M[Height(m)], Width(m, Height(m)))
    BY <1>2, <1>3, <2>1, LevelsAre
  <2> QED BY <2>2, <2>3
<1>6. L[Height(n)] = M[Height(m)]
  <2>1. \A i \in 1 .. 1 : i = 1
    OBVIOUS
  <2>2. \A i \in 1 .. 1 : L[Height(n)][i] = M[Height(m)][i]
    BY <1>2, <1>3, <1>4, <2>1
  <2> QED BY <1>5, <2>2, ListsEqual
<1> QED BY <1>2, <1>3, <1>6, LevelsMeet

-----------------------------------------------------------------------------
(* The root of a solved block.                                             *)

\* The transactions of a block and of bytes are ones a caller gave, and a
\* solved block has some.
ListsInv ==
  /\ block.transactions \in Transactions
  /\ raw # None => raw[1].transactions \in Transactions
  /\ sealed => block.transactions # <<>>

LEMMA ListsInit == Init => ListsInv
BY DEF Init, new, ListsInv

LEMMA ListsStep == SealedInv /\ ListsInv /\ [Next]_vars => ListsInv'
<1> SUFFICES ASSUME SealedInv, ListsInv, [Next]_vars
             PROVE  ListsInv'
  OBVIOUS
<1>1. CASE UNCHANGED vars
  BY <1>1 DEF vars, ListsInv
<1>2. ASSUME NEW t, NEW n, NEW txs \in Transactions, New(t, n, txs)
      PROVE  ListsInv'
  BY <1>2 DEF New, new, ListsInv
<1>3. ASSUME NEW field \in DOMAIN Values, NEW value \in Values[field], Assign(field, value)
      PROVE  ListsInv'
  <2>1. PICK root, t, n, k, h, array, txs : block = Built(root, t, n, k, h, array, txs)
    BY DEF SealedInv, IsBuilt
  <2>2. field \in {"time", "n_bits", "nonce", "transactions", "hash"}
    BY DEF Values
  <2>3. block' = [block EXCEPT ![field] = value] /\ raw' = raw /\ ~ sealed'
    BY <1>3 DEF Assign
  <2>4. CASE field = "transactions"
    <3>1. value \in Transactions
      BY <2>4 DEF Values
    <3>2. block'.transactions = value
      BY <2>1, <2>3, <2>4 DEF Built
    <3> QED BY <2>3, <3>1, <3>2 DEF ListsInv
  <2>5. CASE field # "transactions"
    <3>1. block'.transactions = block.transactions
      BY <2>1, <2>2, <2>3, <2>5 DEF Built
    <3> QED BY <2>3, <3>1 DEF ListsInv
  <2> QED BY <2>4, <2>5
<1>4. CASE Mine
  <2>1. PICK root, t, n, k, h, array, txs : block = Built(root, t, n, k, h, array, txs)
    BY DEF SealedInv, IsBuilt
  <2>2. block' = mine(block) /\ raw' = raw /\ block.transactions # <<>>
    BY <1>4 DEF Mine
  <2>3. block.transactions = txs
    BY <2>1 DEF Built
  <2>4. block'.transactions = txs
    <3>1. CASE Winning(t, n, txs) = {}
      <4>1. block' = Built(Some(get_merkle_root_hash(txs)), t, n, k, h, Header(t, n, txs, U32_MAX - 1), txs)
        BY <2>1, <2>2, <3>1, MineOf
      <4> QED BY <4>1 DEF Built
    <3>2. CASE Winning(t, n, txs) # {}
      <4>1. block' = Mined(t, n, txs)
        BY <2>1, <2>2, <3>2, MineOf
      <4> QED BY <4>1 DEF Mined, Built
    <3> QED BY <3>1, <3>2
  <2> QED BY <2>2, <2>3, <2>4 DEF ListsInv
<1>5. CASE Serialise
  <2>1. raw' = <<get_raw_format(block)>> /\ block' = block /\ sealed' = sealed
    BY <1>5 DEF Serialise, Some
  <2>2. raw'[1].transactions = block.transactions
    BY <2>1 DEF get_raw_format
  <2> QED BY <2>1, <2>2 DEF ListsInv
<1>6. CASE Parse
  <2>1. raw # None /\ block' = parse_raw(raw[1]) /\ raw' = raw /\ ~ sealed'
    BY <1>6 DEF Parse
  <2>2. block'.transactions = raw[1].transactions
    BY <2>1 DEF parse_raw
  <2> QED BY <2>1, <2>2 DEF ListsInv
<1> QED
  BY <1>1, <1>2, <1>3, <1>4, <1>5, <1>6 DEF Next

LEMMA ListsHold == Spec => []ListsInv
<1> QED
  BY ListsInit, ListsStep, SealedIsDetermined, PTL DEF Spec

\* The leaves of a list of transactions.
LEMMA LeavesAre ==
  ASSUME NEW txs \in Seq(Leaf), txs # <<>>
  PROVE  /\ Len(txs) \in Nat \ {0} /\ List(Leaves(txs), Len(txs))
         /\ \A i \in 1 .. Len(txs) : Leaves(txs)[i] = <<txs[i]>>
         /\ IsInjective(txs) => Distinct(Leaves(txs), Len(txs))
<1>1. Len(txs) \in Nat \ {0}
  OBVIOUS
<1>2. Leaves(txs) = [i \in 1 .. Len(txs) |-> <<txs[i]>>]
  BY DEF Leaves, get_tx_id
<1>3. \A i \in 1 .. Len(txs) : Leaves(txs)[i] = <<txs[i]>>
  BY <1>2
<1>4. List(Leaves(txs), Len(txs))
  <2>1. Leaves(txs) = [i \in 1 .. Len(txs) |-> Leaves(txs)[i]]
    BY <1>2, <1>3
  <2> QED BY <1>1, <2>1, ListIs
<1>5. ASSUME IsInjective(txs)
      PROVE  Distinct(Leaves(txs), Len(txs))
  <2>1. \A x, y : <<x>> = <<y>> => x = y
    OBVIOUS
  <2>2. DOMAIN txs = 1 .. Len(txs)
    OBVIOUS
  <2> QED BY <1>3, <1>5, <2>1, <2>2 DEF IsInjective, Distinct
<1> QED BY <1>1, <1>3, <1>4, <1>5

\* A solved block has the root of the reference tree over its transactions,
\* and no other list without a repetition has that root (merkle_root and
\* get_merkle_root_hash of src/block.rs), for lists of every length.
THEOREM RootHolds == Spec => []RootNamesTheLeaves
<1>1. SealedInv /\ ListsInv => RootNamesTheLeaves
  <2> SUFFICES ASSUME SealedInv, ListsInv, sealed
               PROVE  /\ block.merkle_root_hash = Some(RefRoot(Leaves(block.transactions)))
                      /\ IsInjective(block.transactions) =>
                           \A r \in Rooted :
                             r.root = block.merkle_root_hash[1] => r.leaves = block.transactions
    BY DEF RootNamesTheLeaves
  <2>1. PICK t, n, txs : Winning(t, n, txs) # {} /\ block = Mined(t, n, txs)
    BY DEF SealedInv
  <2>2. block.merkle_root_hash = <<get_merkle_root_hash(txs)>> /\ block.transactions = txs
    BY <2>1 DEF Mined, Built, Some
  <2>3. txs \in Seq(Leaf) /\ txs # <<>>
    BY <2>2, BlockAssumption DEF ListsInv
  <2>4. /\ Len(txs) \in Nat \ {0} /\ List(Leaves(txs), Len(txs))
        /\ \A i \in 1 .. Len(txs) : Leaves(txs)[i] = <<txs[i]>>
    BY <2>3, LeavesAre
  <2>5. get_merkle_root_hash(txs) = RefRoot(Leaves(txs))
    BY <2>4, RootIsRefRoot DEF get_merkle_root_hash
  <2>6. ASSUME IsInjective(txs), NEW r \in Rooted, r.root = get_merkle_root_hash(txs)
        PROVE  r.leaves = txs
    <3>1. PICK s \in DistinctLists : r = [leaves |-> s, root |-> get_merkle_root_hash(s)]
      BY <2>6 DEF Rooted
    <3>2. r.leaves = s /\ r.root = get_merkle_root_hash(s)
      BY <3>1
    <3>3. s \in Seq(Leaf) /\ s # <<>> /\ IsInjective(s)
      BY <3>1, BlockAssumption DEF DistinctLists, BoundedSeq, SeqOf
    <3>4. /\ Len(s) \in Nat \ {0} /\ List(Leaves(s), Len(s)) /\ Distinct(Leaves(s), Len(s))
          /\ \A i \in 1 .. Len(s) : Leaves(s)[i] = <<s[i]>>
      BY <3>3, LeavesAre
    <3>5. Distinct(Leaves(txs), Len(txs))
      BY <2>3, <2>6, LeavesAre
    <3>6. merkle_root(Leaves(s)) = merkle_root(Leaves(txs))
      BY <2>6, <3>2 DEF get_merkle_root_hash
    <3>7. (\A i \in 1 .. Len(s) : \E x : Leaves(s)[i] = <<x>>)
          /\ (\A i \in 1 .. Len(txs) : \E x : Leaves(txs)[i] = <<x>>)
      BY <2>4, <3>4
    <3>8. Leaves(s) = Leaves(txs)
      BY <2>4, <3>4, <3>5, <3>6, <3>7, RootNames
    <3>9. Len(s) = Len(txs)
      BY <2>4, <3>4, <3>8 DEF List
    <3>10. \A i \in 1 .. Len(s) : s[i] = txs[i]
      <4>1. \A x, y : <<x>> = <<y>> => x = y
        OBVIOUS
      <4> QED BY <2>4, <3>4, <3>8, <3>9, <4>1
    <3> QED BY <2>3, <3>2, <3>3, <3>9, <3>10
  <2>7. block.merkle_root_hash[1] = get_merkle_root_hash(txs)
    BY <2>2
  <2> QED BY <2>2, <2>5, <2>6, <2>7 DEF Some
<1> QED
  BY <1>1, ListsHold, SealedIsDetermined, PTL
=============================================================================
