CONSTANTS
    Account = {a, b, c}
    Spender = {c}
    FirstAdmin = a
    Amount <- MCAmount
    MaxI128 = 2
    Horizon = 1
SPECIFICATION Spec
CHECK_DEADLOCK FALSE
INVARIANT TypeOK
INVARIANT SupplyIsIssued
INVARIANT ApprovalIsABudget
PROPERTY NothingDrawnAfterExpiry
