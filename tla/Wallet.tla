------------------------------- MODULE Wallet -------------------------------
(***************************************************************************)
(* The wallet (src/wallet.rs): a key pair, a fixed balance and send, whose *)
(* check adds amount and fee as u64, in a release build, where the sum     *)
(* wraps.  A debug build checks the sum and panics instead.                *)
(***************************************************************************)
EXTENDS Integers, Sequences

CONSTANTS
  Key, Outpoint, Address,
  U64_MAX,           \* the largest u64
  BALANCE            \* get_available_balance

U64 == 0 .. U64_MAX

VARIABLES
  key,       \* the wallet's key pair, or "none" before new
  request,   \* the last send: amount, fee and destination
  outcome    \* what it returned: "Ok" or "Err", and the transaction

vars == <<key, request, outcome>>

Empty == [version |-> 0, inputs |-> <<>>, outputs |-> <<>>, lock_time |-> 0]

Nothing == [amount |-> 0, fee |-> 0, destination |-> "none"]

-----------------------------------------------------------------------------
\* amount + fee.
Sum(amount, fee) == (amount + fee) % (U64_MAX + 1)

get_outpoints == <<Outpoint>>

\* The signature covers the spent transaction's id and nothing of this one.
Sign(outpoint, k) == [previous_output |-> outpoint, signature |-> <<outpoint, k>>]

Payment(amount, destination) ==
  [version |-> 1,
   inputs |-> [i \in DOMAIN get_outpoints |-> Sign(get_outpoints[i], key)],
   outputs |-> <<[value |-> amount, destiny_pub_key |-> destination]>>,
   lock_time |-> 0]

Returns(how, tx) == outcome' = [how |-> how, tx |-> tx]

new(k) ==
  /\ key = "none"
  /\ key' = k
  /\ UNCHANGED <<request, outcome>>

send(amount, fee, destination) ==
  /\ key # "none"
  /\ request' = [amount |-> amount, fee |-> fee, destination |-> destination]
  /\ \/ Sum(amount, fee) > BALANCE /\ Returns("Err", Empty)
     \/ Sum(amount, fee) <= BALANCE /\ Returns("Ok", Payment(amount, destination))
  /\ UNCHANGED key

-----------------------------------------------------------------------------
Init ==
  /\ key = "none" /\ request = Nothing
  /\ outcome = [how |-> "none", tx |-> Empty]

Next ==
  \/ \E k \in Key : new(k)
  \/ \E amount, fee \in U64, destination \in Address : send(amount, fee, destination)

Spec == Init /\ [][Next]_vars

-----------------------------------------------------------------------------
(* Properties.                                                             *)

Total == request.amount + request.fee

\* A send whose total exceeds the balance is refused.
ExcessIsRefused == Total > BALANCE => outcome.how = "Err"
=============================================================================
