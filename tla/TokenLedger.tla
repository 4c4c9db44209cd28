----------------------------- MODULE TokenLedger -----------------------------
(***************************************************************************)
(* The balance map of the VRFY token (contracts/vrfy-token/src/balance.rs) *)
(* and the operations on it that the registry calls through TokenClient.   *)
(* A panic in the token rolls back the calling transaction, so a refusal   *)
(* is a guard of the calling action, never a step of its own.              *)
(***************************************************************************)
EXTENDS Integers

\* check_nonnegative_amount, then spend_balance's "insufficient balance".
CanSpend(balance, from, amount) == amount >= 0 /\ balance[from] >= amount

spend_balance(balance, from, amount) == [balance EXCEPT ![from] = @ - amount]

receive_balance(balance, to, amount) == [balance EXCEPT ![to] = @ + amount]

\* The receiver's balance is read after the sender's has been written: a transfer
\* to oneself changes nothing.
transfer(balance, from, to, amount) ==
    receive_balance(spend_balance(balance, from, amount), to, amount)

burn(balance, from, amount) == spend_balance(balance, from, amount)
=============================================================================
