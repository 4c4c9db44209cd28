------------------------------ MODULE VrfyToken ------------------------------
(***************************************************************************)
(* The VRFY token (contracts/vrfy-token): mint, approve, the transfers and *)
(* burns by the holder and by an approved spender, allowances that expire  *)
(* with the ledger, and the hand-over of the administrator.  The contract  *)
(* is built with overflow checks, so an addition that does not fit in an   *)
(* i128 is a panic: a guard that does not hold.                            *)
(***************************************************************************)
EXTENDS Integers, FiniteSets, Functions, TokenLedger

CONSTANTS
    Account,
    Spender,       \* bound: the accounts that are given allowances
    FirstAdmin,
    Amount,        \* amounts callers pass; any i128 is legal input
    MaxI128,       \* the largest i128
    Horizon        \* the last ledger of the behaviours considered

ASSUME TokenAssumption ==
    /\ IsFiniteSet(Account) /\ Spender \subseteq Account /\ FirstAdmin \in Account
    /\ MaxI128 \in Nat /\ Horizon \in Nat
    /\ Amount \subseteq -(MaxI128 + 1) .. MaxI128

VARIABLES
    ledger,      \* e.ledger().sequence()
    balance,     \* DataKey::Balance
    allowance,   \* DataKey::Allowance: [amount, live_until_ledger] by owner and spender
    admin,       \* DataKey::Admin
    \* history
    issued,      \* what was minted less what was burned
    granted,     \* the last approval of an owner to a spender
    drawn        \* what the spender has taken since

vars == <<ledger, balance, allowance, admin, issued, granted, drawn>>

AllowanceValue == [amount : 0 .. MaxI128, live_until_ledger : Nat]

NoAllowance == [amount |-> 0, live_until_ledger |-> 0]

Init ==
    /\ ledger = 0
    /\ balance = [a \in Account |-> 0]
    /\ allowance = [f \in Account |-> [s \in Spender |-> NoAllowance]]
    /\ admin = FirstAdmin
    /\ issued = 0
    /\ granted = allowance
    /\ drawn = [f \in Account |-> [s \in Spender |-> 0]]
-----------------------------------------------------------------------------
CanReceive(bal, to, amount) == bal[to] + amount <= MaxI128

\* Mutant: an expired allowance can still be spent.
ReadAllowanceForever(from, spender) == allowance[from][spender].amount

\* An expired entry reads as zero; so does one the ledger has dropped since.
read_allowance(from, spender) ==
    IF allowance[from][spender].live_until_ledger < ledger THEN 0
    ELSE allowance[from][spender].amount

\* Mutant: a draw is checked against the allowance but not taken from it.
SpendAllowanceUncounted(from, spender, amount) ==
    /\ read_allowance(from, spender) >= amount
    /\ UNCHANGED allowance
    /\ drawn' = [drawn EXCEPT ![from][spender] = @ + amount]
    /\ UNCHANGED granted

\* spend_allowance, called after the sign of the amount has been checked.
spend_allowance(from, spender, amount) ==
    /\ read_allowance(from, spender) >= amount
    /\ allowance' = IF amount > 0
                    THEN [allowance EXCEPT ![from][spender].amount = @ - amount]
                    ELSE allowance
    /\ drawn' = [drawn EXCEPT ![from][spender] = @ + amount]
    /\ UNCHANGED granted

\* Mutant: both balances are read before either is written.
MoveReadFirst(from, to, amount) ==
    /\ CanSpend(balance, from, amount)
    /\ CanReceive(balance, to, amount)
    /\ balance' = [balance EXCEPT ![from] = balance[from] - amount, ![to] = balance[to] + amount]
    /\ UNCHANGED issued

\* spend_balance, then receive_balance on what spend_balance wrote.
Move(from, to, amount) ==
    /\ CanSpend(balance, from, amount)
    /\ CanReceive(spend_balance(balance, from, amount), to, amount)
    /\ balance' = transfer(balance, from, to, amount)
    /\ UNCHANGED issued

Destroy(from, amount) ==
    /\ CanSpend(balance, from, amount)
    /\ balance' = burn(balance, from, amount)
    /\ issued' = issued - amount

allowances == <<allowance, granted, drawn>>
-----------------------------------------------------------------------------
\* Mutant: the addition wraps round, or is not checked at all.
MintUnchecked(to, amount) ==
    /\ amount >= 0
    /\ balance[to] <= MaxI128
    /\ balance' = receive_balance(balance, to, amount)
    /\ issued' = issued + amount
    /\ UNCHANGED <<ledger, admin, allowances>>

\* Signed by the administrator.
Mint(to, amount) ==
    /\ amount >= 0
    /\ CanReceive(balance, to, amount)
    /\ balance' = receive_balance(balance, to, amount)
    /\ issued' = issued + amount
    /\ UNCHANGED <<ledger, admin, allowances>>

\* Signed by the administrator.
SetAdmin(new_admin) ==
    /\ admin' = new_admin
    /\ UNCHANGED <<ledger, balance, issued, allowances>>

\* Signed by the owner; replaces the former allowance, used up or not.
Approve(from, spender, amount, live_until_ledger) ==
    /\ amount >= 0
    /\ amount > 0 => live_until_ledger >= ledger
    /\ LET value == [amount |-> amount, live_until_ledger |-> live_until_ledger] IN
          /\ allowance' = [allowance EXCEPT ![from][spender] = value]
          /\ granted' = [granted EXCEPT ![from][spender] = value]
    /\ drawn' = [drawn EXCEPT ![from][spender] = 0]
    /\ UNCHANGED <<ledger, balance, admin, issued>>

\* Signed by the holder.
Transfer(from, to, amount) ==
    /\ Move(from, to, amount)
    /\ UNCHANGED <<ledger, admin, allowances>>

\* Signed by the spender.
TransferFrom(spender, from, to, amount) ==
    /\ amount >= 0
    /\ spend_allowance(from, spender, amount)
    /\ Move(from, to, amount)
    /\ UNCHANGED <<ledger, admin>>

\* Signed by the holder.
Burn(from, amount) ==
    /\ Destroy(from, amount)
    /\ UNCHANGED <<ledger, admin, allowances>>

\* Signed by the spender.
BurnFrom(spender, from, amount) ==
    /\ amount >= 0
    /\ spend_allowance(from, spender, amount)
    /\ Destroy(from, amount)
    /\ UNCHANGED <<ledger, admin>>

CloseLedger ==
    /\ ledger < Horizon
    /\ ledger' = ledger + 1
    /\ UNCHANGED <<balance, admin, issued, allowances>>

Next ==
    \/ \E a \in Account : SetAdmin(a)
    \/ \E a \in Account, amount \in Amount : Mint(a, amount) \/ Burn(a, amount)
    \/ \E from \in Account, to \in Account, amount \in Amount : Transfer(from, to, amount)
    \/ \E from \in Account, s \in Spender, amount \in Amount :
          \/ \E l \in 0 .. Horizon : Approve(from, s, amount, l)
          \/ \E to \in Account : TransferFrom(s, from, to, amount)
          \/ BurnFrom(s, from, amount)
    \/ CloseLedger

Spec == Init /\ [][Next]_vars
-----------------------------------------------------------------------------
\* Balances and allowances stay within what an i128 holds, and never below zero.
TypeOK ==
    /\ ledger \in 0 .. Horizon
    /\ balance \in [Account -> 0 .. MaxI128]
    /\ allowance \in [Account -> [Spender -> AllowanceValue]]
    /\ admin \in Account
    /\ issued \in Nat
    /\ granted \in [Account -> [Spender -> AllowanceValue]]
    /\ drawn \in [Account -> [Spender -> Nat]]

\* The balances add up to what was minted less what was burned, through transfers
\* to oneself, draws on an allowance and refused overflows (spend_balance,
\* receive_balance).
SupplyIsIssued == SumFunctionOnSet(balance, Account) = issued

\* An approval is a budget: since it was given, the spender has taken exactly what
\* is missing from it, so never more than was granted, in however many draws
\* (approve, spend_allowance).
ApprovalIsABudget ==
    \A f \in Account, s \in Spender :
        drawn[f][s] + allowance[f][s].amount = granted[f][s].amount

\* Nothing is drawn after the last ledger of the approval, partly used or not
\* (read_allowance, spend_allowance).
NothingDrawnAfterExpiry ==
    [][ \A f \in Account, s \in Spender :
            drawn'[f][s] > drawn[f][s] => ledger <= granted[f][s].live_until_ledger ]_vars
=============================================================================
