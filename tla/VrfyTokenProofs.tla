--------------------------- MODULE VrfyTokenProofs ---------------------------
(***************************************************************************)
(* What the VRFY token promises for any number of accounts, any width of   *)
(* its integers, any amounts a caller can pass and any number of ledgers.  *)
(*                                                                         *)
(* The supply is a sum over the accounts: FoldTheorems says how it changes. *)
(* That it is what was issued is needed for the type of issued, which no   *)
(* guard of a burn looks at.                                               *)
(***************************************************************************)
EXTENDS VrfyToken, FoldTheorems

Balances   == [Account -> 0 .. MaxI128]
Allowances == [Account -> [Spender -> AllowanceValue]]

\* The types, but for issued.
TokenTypes ==
    /\ ledger \in 0 .. Horizon
    /\ balance \in Balances
    /\ allowance \in Allowances /\ granted \in Allowances
    /\ admin \in Account
    /\ drawn \in [Account -> [Spender -> Nat]]

\* A draw leaves the expiry as it was approved.
SameExpiry ==
    \A f \in Account, s \in Spender :
        allowance[f][s].live_until_ledger = granted[f][s].live_until_ledger

TokenInv == TokenTypes /\ SupplyIsIssued /\ ApprovalIsABudget /\ SameExpiry
-----------------------------------------------------------------------------
(* What the token's operations do to the balances and their sum. *)

Supply(bal) == SumFunctionOnSet(bal, Account)

LEMMA SpendChangesSupply ==
  ASSUME NEW bal \in [Account -> Int], NEW a \in Account, NEW amount \in Int
  PROVE  /\ spend_balance(bal, a, amount) \in [Account -> Int]
         /\ Supply(spend_balance(bal, a, amount)) = Supply(bal) - amount
<1> DEFINE new == spend_balance(bal, a, amount)
<1>1. new \in [Account -> Int] /\ new[a] = bal[a] - amount /\ \A b \in Account : b # a => new[b] = bal[b]
  BY DEF spend_balance
<1> HIDE DEF new
<1>2. Supply(new) = Supply(bal) + (new[a] - bal[a])
  BY <1>1, SumChangesByOne, TokenAssumption DEF Supply
<1>3. Supply(bal) \in Int /\ bal[a] \in Int
  BY SumIsInt, TokenAssumption DEF Supply
<1> QED
  BY <1>1, <1>2, <1>3 DEF new

LEMMA ReceiveChangesSupply ==
  ASSUME NEW bal \in [Account -> Int], NEW a \in Account, NEW amount \in Int
  PROVE  /\ receive_balance(bal, a, amount) \in [Account -> Int]
         /\ Supply(receive_balance(bal, a, amount)) = Supply(bal) + amount
<1> DEFINE new == receive_balance(bal, a, amount)
<1>1. new \in [Account -> Int] /\ new[a] = bal[a] + amount /\ \A b \in Account : b # a => new[b] = bal[b]
  BY DEF receive_balance
<1> HIDE DEF new
<1>2. Supply(new) = Supply(bal) + (new[a] - bal[a])
  BY <1>1, SumChangesByOne, TokenAssumption DEF Supply
<1>3. Supply(bal) \in Int /\ bal[a] \in Int
  BY SumIsInt, TokenAssumption DEF Supply
<1> QED
  BY <1>1, <1>2, <1>3 DEF new

\* A transfer, to oneself included, keeps every balance in range and the supply.
LEMMA MoveKeeps ==
  ASSUME TokenTypes, SupplyIsIssued, NEW from \in Account, NEW to \in Account,
         NEW amount \in Amount, Move(from, to, amount)
  PROVE  balance' \in Balances /\ SupplyIsIssued'
<1>1. amount \in Int /\ amount >= 0 /\ balance[from] >= amount
  BY TokenAssumption DEF Move, CanSpend
<1>2. balance \in [Account -> Int] /\ balance \in [Account -> 0 .. MaxI128]
  BY TokenAssumption DEF TokenTypes, Balances
<1> DEFINE mid == spend_balance(balance, from, amount)
<1>3. mid \in [Account -> Int] /\ Supply(mid) = Supply(balance) - amount
  BY <1>1, <1>2, SpendChangesSupply
<1>4. mid \in [Account -> 0 .. MaxI128] /\ mid[to] + amount <= MaxI128
  BY <1>1, <1>2, TokenAssumption DEF spend_balance, Move, CanReceive
<1>5. balance' = receive_balance(mid, to, amount) /\ issued' = issued
  BY DEF Move, transfer
<1> HIDE DEF mid
<1>6. Supply(balance') = Supply(mid) + amount
  BY <1>1, <1>3, <1>5, ReceiveChangesSupply
<1>7. balance' \in Balances
  BY <1>1, <1>4, <1>5, TokenAssumption DEF receive_balance, Balances
<1>8. Supply(balance) \in Int
  BY <1>2, SumIsInt, TokenAssumption DEF Supply
<1> QED
  BY <1>1, <1>3, <1>5, <1>6, <1>7, <1>8 DEF SupplyIsIssued, Supply

LEMMA DestroyKeeps ==
  ASSUME TokenTypes, SupplyIsIssued, NEW from \in Account, NEW amount \in Amount,
         Destroy(from, amount)
  PROVE  balance' \in Balances /\ SupplyIsIssued'
<1>1. amount \in Int /\ amount >= 0 /\ balance[from] >= amount
  BY TokenAssumption DEF Destroy, CanSpend
<1>2. balance \in [Account -> Int] /\ balance \in [Account -> 0 .. MaxI128]
  BY TokenAssumption DEF TokenTypes, Balances
<1>3. Supply(balance') = Supply(balance) - amount
  BY <1>1, <1>2, SpendChangesSupply DEF Destroy, burn
<1>4. balance' \in Balances
  BY <1>1, <1>2, TokenAssumption DEF Destroy, burn, spend_balance, Balances
<1> QED
  BY <1>3, <1>4 DEF Destroy, SupplyIsIssued, Supply

\* A draw takes from the allowance what it adds to what was drawn.
LEMMA DrawKeeps ==
  ASSUME TokenTypes, ApprovalIsABudget, SameExpiry,
         NEW from \in Account, NEW s \in Spender, NEW amount \in Amount, amount >= 0,
         spend_allowance(from, s, amount)
  PROVE  /\ allowance' \in Allowances /\ granted' \in Allowances
         /\ drawn' \in [Account -> [Spender -> Nat]]
         /\ ApprovalIsABudget' /\ SameExpiry'
<1> DEFINE v == allowance[from][s]
           w == [v EXCEPT !.amount = @ - amount]
<1>1. amount \in Nat /\ v \in AllowanceValue /\ v.amount \in 0 .. MaxI128
  BY TokenAssumption DEF TokenTypes, Allowances, AllowanceValue
<1>2. v.amount >= amount
  BY <1>1 DEF spend_allowance, read_allowance
<1>3. v.amount - amount \in 0 .. MaxI128
  BY <1>1, <1>2, TokenAssumption
<1>4. w \in AllowanceValue /\ w.amount = v.amount - amount
      /\ w.live_until_ledger = v.live_until_ledger
  BY <1>1, <1>3 DEF AllowanceValue
<1>5. /\ allowance' \in Allowances
      /\ allowance'[from][s].amount = v.amount - amount
      /\ allowance'[from][s].live_until_ledger = v.live_until_ledger
      /\ \A f \in Account, r \in Spender : <<f, r>> # <<from, s>> => allowance'[f][r] = allowance[f][r]
  <2>1. CASE amount > 0
    <3>1. allowance' = [allowance EXCEPT ![from] = [allowance[from] EXCEPT ![s] = w]]
      BY <2>1 DEF spend_allowance, TokenTypes, Allowances
    <3> HIDE DEF w, v
    <3> QED
      BY <1>4, <3>1 DEF TokenTypes, Allowances
  <2>2. CASE amount = 0
    BY <1>1, <2>2 DEF spend_allowance, TokenTypes, Allowances
  <2> QED
    BY <1>1, <2>1, <2>2
<1>6. /\ granted' = granted
      /\ drawn' \in [Account -> [Spender -> Nat]]
      /\ drawn'[from][s] = drawn[from][s] + amount
      /\ \A f \in Account, r \in Spender : <<f, r>> # <<from, s>> => drawn'[f][r] = drawn[f][r]
  BY <1>1 DEF spend_allowance, TokenTypes
<1>7. drawn[from][s] + v.amount = granted[from][s].amount /\ drawn[from][s] \in Nat
  BY DEF ApprovalIsABudget, TokenTypes
<1> HIDE DEF v, w
<1>8. ApprovalIsABudget'
  <2>1. ASSUME NEW f \in Account, NEW r \in Spender
        PROVE  drawn'[f][r] + allowance'[f][r].amount = granted'[f][r].amount
    <3>1. CASE f = from /\ r = s
      BY <1>1, <1>5, <1>6, <1>7, <3>1
    <3>2. CASE <<f, r>> # <<from, s>>
      BY <1>5, <1>6, <3>2 DEF ApprovalIsABudget
    <3> QED
      BY <3>1, <3>2
  <2> QED
    BY <2>1 DEF ApprovalIsABudget
<1>9. SameExpiry'
  BY <1>5, <1>6 DEF SameExpiry, v
<1> QED
  BY <1>5, <1>6, <1>8, <1>9 DEF TokenTypes
-----------------------------------------------------------------------------
\* A constructed token: nothing issued, nothing held, nothing allowed.
LEMMA InitTokenInv == Init => TokenInv
<1> SUFFICES ASSUME Init PROVE TokenInv
  OBVIOUS
<1>1. NoAllowance \in AllowanceValue /\ NoAllowance.amount = 0
  BY TokenAssumption DEF NoAllowance, AllowanceValue
<1>2. TokenTypes
  BY <1>1, TokenAssumption DEF Init, TokenTypes, Balances, Allowances
<1>3. SupplyIsIssued
  BY SumOfZeros, TokenAssumption DEF Init, SupplyIsIssued
<1> QED
  BY <1>1, <1>2, <1>3 DEF Init, TokenInv, ApprovalIsABudget, SameExpiry

LEMMA NextTokenInv == TokenInv /\ [Next]_vars => TokenInv'
<1> SUFFICES ASSUME TokenInv, [Next]_vars PROVE TokenInv'
  OBVIOUS
<1>0. TokenTypes /\ SupplyIsIssued /\ ApprovalIsABudget /\ SameExpiry
  BY DEF TokenInv
<1>1. ASSUME NEW a \in Account, SetAdmin(a) PROVE TokenInv'
  BY <1>0, <1>1 DEF SetAdmin, allowances, TokenInv, TokenTypes, SupplyIsIssued, ApprovalIsABudget, SameExpiry
<1>2. ASSUME NEW a \in Account, NEW amount \in Amount, Mint(a, amount) PROVE TokenInv'
  <2>1. amount \in Int /\ amount >= 0 /\ balance[a] + amount <= MaxI128
    BY <1>2, TokenAssumption DEF Mint, CanReceive
  <2>2. balance \in [Account -> Int] /\ balance \in [Account -> 0 .. MaxI128]
    BY <1>0, TokenAssumption DEF TokenTypes, Balances
  <2>3. Supply(balance') = Supply(balance) + amount
    BY <1>2, <2>1, <2>2, ReceiveChangesSupply DEF Mint
  <2>4. balance' \in Balances
    BY <1>2, <2>1, <2>2, TokenAssumption DEF Mint, receive_balance, Balances
  <2>5. SupplyIsIssued'
    BY <1>0, <1>2, <2>3 DEF Mint, SupplyIsIssued, Supply
  <2> QED
    BY <1>0, <1>2, <2>4, <2>5
    DEF Mint, allowances, TokenInv, TokenTypes, ApprovalIsABudget, SameExpiry
<1>3. ASSUME NEW a \in Account, NEW amount \in Amount, Burn(a, amount) PROVE TokenInv'
  <2>1. balance' \in Balances /\ SupplyIsIssued'
    BY <1>0, <1>3, DestroyKeeps DEF Burn
  <2> QED
    BY <1>0, <1>3, <2>1 DEF Burn, allowances, TokenInv, TokenTypes, ApprovalIsABudget, SameExpiry
<1>4. ASSUME NEW from \in Account, NEW to \in Account, NEW amount \in Amount, Transfer(from, to, amount)
      PROVE  TokenInv'
  <2>1. balance' \in Balances /\ SupplyIsIssued'
    BY <1>0, <1>4, MoveKeeps DEF Transfer
  <2> QED
    BY <1>0, <1>4, <2>1 DEF Transfer, allowances, TokenInv, TokenTypes, ApprovalIsABudget, SameExpiry
<1>5. ASSUME NEW from \in Account, NEW s \in Spender, NEW amount \in Amount, NEW l \in 0 .. Horizon,
             Approve(from, s, amount, l)
      PROVE  TokenInv'
  <2> DEFINE value == [amount |-> amount, live_until_ledger |-> l]
  <2>1. value \in AllowanceValue /\ value.amount = amount
    BY <1>5, TokenAssumption DEF Approve, AllowanceValue
  <2>2. /\ allowance' = [allowance EXCEPT ![from][s] = value]
        /\ granted' = [granted EXCEPT ![from][s] = value]
        /\ drawn' = [drawn EXCEPT ![from][s] = 0]
    BY <1>5 DEF Approve
  <2> HIDE DEF value
  <2>3. /\ allowance' \in Allowances /\ granted' \in Allowances
        /\ drawn' \in [Account -> [Spender -> Nat]]
    BY <1>0, <2>1, <2>2 DEF TokenTypes, Allowances
  <2>4. /\ allowance'[from][s] = value /\ granted'[from][s] = value /\ drawn'[from][s] = 0
        /\ \A f \in Account, r \in Spender : <<f, r>> # <<from, s>> =>
              /\ allowance'[f][r] = allowance[f][r] /\ granted'[f][r] = granted[f][r]
              /\ drawn'[f][r] = drawn[f][r]
    BY <1>0, <2>2 DEF TokenTypes, Allowances
  <2>5. ApprovalIsABudget'
    <3>1. ASSUME NEW f \in Account, NEW r \in Spender
          PROVE  drawn'[f][r] + allowance'[f][r].amount = granted'[f][r].amount
      <4>1. CASE f = from /\ r = s
        BY <2>1, <2>4, <4>1, TokenAssumption
      <4>2. CASE <<f, r>> # <<from, s>>
        BY <1>0, <2>4, <4>2 DEF ApprovalIsABudget
      <4> QED
        BY <4>1, <4>2
    <3> QED
      BY <3>1 DEF ApprovalIsABudget
  <2>6. SameExpiry'
    BY <1>0, <2>4 DEF SameExpiry
  <2> QED
    BY <1>0, <1>5, <2>3, <2>5, <2>6 DEF Approve, TokenInv, TokenTypes, SupplyIsIssued
<1>6. ASSUME NEW from \in Account, NEW s \in Spender, NEW amount \in Amount, NEW to \in Account,
             TransferFrom(s, from, to, amount)
      PROVE  TokenInv'
  <2>1. balance' \in Balances /\ SupplyIsIssued'
    BY <1>0, <1>6, MoveKeeps DEF TransferFrom
  <2>2. /\ allowance' \in Allowances /\ granted' \in Allowances
        /\ drawn' \in [Account -> [Spender -> Nat]]
        /\ ApprovalIsABudget' /\ SameExpiry'
    BY <1>0, <1>6, DrawKeeps DEF TransferFrom
  <2> QED
    BY <1>0, <1>6, <2>1, <2>2 DEF TransferFrom, TokenInv, TokenTypes
<1>7. ASSUME NEW from \in Account, NEW s \in Spender, NEW amount \in Amount, BurnFrom(s, from, amount)
      PROVE  TokenInv'
  <2>1. balance' \in Balances /\ SupplyIsIssued'
    BY <1>0, <1>7, DestroyKeeps DEF BurnFrom
  <2>2. /\ allowance' \in Allowances /\ granted' \in Allowances
        /\ drawn' \in [Account -> [Spender -> Nat]]
        /\ ApprovalIsABudget' /\ SameExpiry'
    BY <1>0, <1>7, DrawKeeps DEF BurnFrom
  <2> QED
    BY <1>0, <1>7, <2>1, <2>2 DEF BurnFrom, TokenInv, TokenTypes
<1>8. CASE CloseLedger
  <2>1. ledger' \in 0 .. Horizon
    BY <1>0, <1>8, TokenAssumption DEF CloseLedger, TokenTypes
  <2> QED
    BY <1>0, <1>8, <2>1
    DEF CloseLedger, allowances, TokenInv, TokenTypes, SupplyIsIssued, ApprovalIsABudget, SameExpiry
<1>9. CASE UNCHANGED vars
  BY <1>0, <1>9 DEF vars, TokenInv, TokenTypes, SupplyIsIssued, ApprovalIsABudget, SameExpiry
<1> QED
  BY <1>1, <1>2, <1>3, <1>4, <1>5, <1>6, <1>7, <1>8, <1>9 DEF Next

\* The token's invariant (every entry point of the contract).
THEOREM TokenInvariant == Spec => []TokenInv
  BY InitTokenInv, NextTokenInv, PTL DEF Spec

\* The supply is what was minted less what was burned (spend_balance, receive_balance).
THEOREM SupplyIsConserved == Spec => []SupplyIsIssued
<1>1. TokenInv => SupplyIsIssued
  BY DEF TokenInv
<1> QED
  BY <1>1, TokenInvariant, PTL

\* No balance or allowance leaves what an i128 holds, and no more is burned than was
\* minted (the checks before every write, and the overflow checks of the build).
THEOREM TokenTypeCorrect == Spec => []TypeOK
<1>1. TokenInv => TypeOK
  <2> SUFFICES ASSUME TokenInv PROVE TypeOK
    OBVIOUS
  <2>1. balance \in [Account -> Nat]
    BY TokenAssumption DEF TokenInv, TokenTypes, Balances
  <2>2. SumFunctionOnSet(balance, Account) \in Nat
    BY <2>1, SumIsNat, TokenAssumption
  <2>3. issued \in Nat
    BY <2>2 DEF TokenInv, SupplyIsIssued
  <2> QED
    BY <2>3 DEF TokenInv, TokenTypes, Balances, Allowances, TypeOK
<1> QED
  BY <1>1, TokenInvariant, PTL

\* A spender takes in all what is missing from the allowance it was given (approve,
\* spend_allowance).
THEOREM AllowancesAreBudgets == Spec => []ApprovalIsABudget
<1>1. TokenInv => ApprovalIsABudget
  BY DEF TokenInv
<1> QED
  BY <1>1, TokenInvariant, PTL

\* Nothing is drawn from an allowance after the ledger it was given until
\* (read_allowance).
THEOREM ExpiredIsSpent == Spec => NothingDrawnAfterExpiry
<1> DEFINE InTime == \A f \in Account, s \in Spender :
                        drawn'[f][s] > drawn[f][s] => ledger <= granted[f][s].live_until_ledger
<1>1. TokenInv /\ [Next]_vars => [InTime]_vars
  <2> SUFFICES ASSUME TokenInv, Next, NEW f \in Account, NEW r \in Spender,
                      drawn'[f][r] > drawn[f][r]
               PROVE  ledger <= granted[f][r].live_until_ledger
    OBVIOUS
  <2>0. TokenTypes /\ SameExpiry /\ drawn[f][r] \in Nat
    BY DEF TokenInv, TokenTypes
  <2>1. ASSUME NEW from \in Account, NEW s \in Spender, NEW amount \in Amount, amount >= 0,
               spend_allowance(from, s, amount)
        PROVE  ledger <= granted[f][r].live_until_ledger
    <3>1. f = from /\ r = s /\ drawn'[f][r] = drawn[f][r] + amount
      BY <2>0, <2>1 DEF spend_allowance, TokenTypes
    <3>2. amount > 0 /\ amount \in Nat
      BY <2>0, <2>1, <3>1, TokenAssumption
    <3>3. ~(allowance[f][r].live_until_ledger < ledger)
      BY <2>1, <3>1, <3>2 DEF spend_allowance, read_allowance
    <3>4. allowance[f][r].live_until_ledger \in Nat /\ ledger \in Nat
      BY <2>0, TokenAssumption DEF TokenTypes, Allowances, AllowanceValue
    <3> QED
      BY <2>0, <3>3, <3>4 DEF SameExpiry
  <2>2. ASSUME NEW from \in Account, NEW s \in Spender, NEW amount \in Amount, NEW l \in 0 .. Horizon,
               Approve(from, s, amount, l)
        PROVE  FALSE
    <3>1. drawn'[f][r] = drawn[f][r] \/ drawn'[f][r] = 0
      BY <2>0, <2>2 DEF Approve, TokenTypes
    <3> QED
      BY <2>0, <3>1
  <2>3. ASSUME drawn' = drawn PROVE FALSE
    BY <2>0, <2>3
  <2> QED
    BY <2>1, <2>2, <2>3
    DEF Next, SetAdmin, Mint, Burn, Transfer, TransferFrom, BurnFrom, CloseLedger, allowances
<1> QED
  BY <1>1, TokenInvariant, PTL DEF Spec, NothingDrawnAfterExpiry
=============================================================================
