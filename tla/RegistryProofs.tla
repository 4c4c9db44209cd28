--------------------------- MODULE RegistryProofs ---------------------------
(***************************************************************************)
(* Proofs about the registry, for every set of verifiers, claims and       *)
(* hashes, every configuration the constructor accepts, every amount a     *)
(* caller can pass and every number of ledgers: the records and what is at *)
(* stake, what a verdict means, and that the contract can pay what it owes.*)
(*                                                                         *)
(* The code counts positions of a list; the properties count verifiers.    *)
(* The roster (RosterCorrect) makes the list a bijection between the two.  *)
(***************************************************************************)
EXTENDS RegistryRefinement, FoldTheorems

(* A slash takes at least nothing and at most what is staked: slash_bps is *)
(* at most 10000 (the constructor's InvalidConfig, and slash's floor).     *)
LEMMA SlashIsAShare ==
    ASSUME NEW t \in Nat
    PROVE  /\ (t * SlashBps) \div 10000 \in Nat
           /\ (t * SlashBps) \div 10000 <= t
           /\ 10000 * ((t * SlashBps) \div 10000) <= SlashBps * t
<1> DEFINE p == t * SlashBps
<1>1. SlashBps \in Nat /\ SlashBps <= 10000
  BY ConfigAssumption
<1>2. p \in Nat /\ p = SlashBps * t
  BY <1>1
<1>3. p <= 10000 * t
  BY <1>1, <1>2
<1> HIDE DEF p
<1>4. p \div 10000 \in Nat /\ 10000 * (p \div 10000) <= p
  BY <1>2
<1>5. p \div 10000 <= t
  BY <1>2, <1>3, <1>4
<1> QED
  BY <1>2, <1>4, <1>5 DEF p

(* A transfer between two accounts, and one of an account to itself, keep  *)
(* every balance natural when the sender can spend the amount.             *)
LEMMA TransferType ==
    ASSUME NEW bal \in [Account -> Nat], NEW from \in Account, NEW to \in Account,
           NEW amount \in Int, CanSpend(bal, from, amount)
    PROVE  transfer(bal, from, to, amount) \in [Account -> Nat]
BY DEF CanSpend, transfer, spend_balance, receive_balance

-----------------------------------------------------------------------------
(* The deployed contract (the constructor's state) is well typed.          *)
LEMMA InitTypeOK == Init => TypeOK
<1> SUFFICES ASSUME Init PROVE TypeOK
  OBVIOUS
<1>1. balance \in [Account -> Nat]
  BY NamesAssumption DEF Init, Account
<1>2. ledger \in 0 .. Horizon
  BY NamesAssumption DEF Init
<1>3. stake \in [Verifier -> StakeInfo]
  BY DEF Init, StakeInfo
<1>4. attesters \in [Claim -> Seq(Verifier)]
  BY DEF Init
<1>5. opened \in [Claim -> Nat \cup {Never}]
  BY DEF Init
<1>6. att \in [Claim -> [Verifier -> Hash \cup {NoHash}]] /\ slashed \in [Claim -> SUBSET Verifier]
  BY DEF Init
<1> QED
  BY <1>1, <1>2, <1>3, <1>4, <1>5, <1>6 DEF TypeOK

(* Every contract call, payment and closed ledger keeps the types: one step *)
(* per entry point, with the amounts kept natural by the two lemmas above. *)
LEMMA NextTypeOK == TypeOK /\ [Next]_vars => TypeOK'
<1> SUFFICES ASSUME TypeOK, [Next]_vars PROVE TypeOK'
  OBVIOUS
<1> USE DEF TypeOK
<1>a. Verifier \subseteq Account /\ RegistryAddr \in Account /\ Treasury \in Account
  BY DEF Account, Holder
<1>b. ledger \in Nat
  BY NamesAssumption
<1>1. ASSUME NEW v \in Verifier, NEW amount \in Amount, Stake(v, amount)
      PROVE  TypeOK'
  <2>1. amount \in Int /\ amount > 0
    BY <1>1, NamesAssumption DEF Stake
  <2>2. transfer(balance, v, RegistryAddr, amount) \in [Account -> Nat]
    BY <1>1, <1>a, <2>1, TransferType DEF Stake
  <2>3. [stake[v] EXCEPT !.staked = @ + amount] \in StakeInfo
    <3>1. stake[v].staked + amount \in Nat
      BY <2>1 DEF StakeInfo
    <3> QED
      BY <3>1 DEF StakeInfo
  <2>4. stake' \in [Verifier -> StakeInfo]
    BY <1>1, <2>3 DEF Stake
  <2> QED
    BY <1>1, <2>2, <2>4 DEF Stake
<1>2. ASSUME NEW v \in Verifier, NEW amount \in Amount, RequestUnstake(v, amount)
      PROVE  TypeOK'
  <2>1. amount \in Int /\ amount > 0
    BY <1>2, NamesAssumption DEF RequestUnstake
  <2>2. ledger + UnbondPeriod \in Nat
    BY <1>b, ConfigAssumption
  <2>3. [staked         |-> stake[v].staked - amount,
         unbonding      |-> stake[v].unbonding + amount,
         release_ledger |-> ledger + UnbondPeriod] \in StakeInfo
    BY <1>2, <2>1, <2>2 DEF RequestUnstake, StakeInfo
  <2>4. stake' \in [Verifier -> StakeInfo]
    BY <1>2, <2>3 DEF RequestUnstake
  <2> QED
    BY <1>2, <2>4 DEF RequestUnstake
<1>3. ASSUME NEW v \in Verifier, Withdraw(v)
      PROVE  TypeOK'
  <2>1. stake[v].unbonding \in Int /\ CanSpend(balance, RegistryAddr, stake[v].unbonding)
    BY <1>3 DEF Withdraw, StakeInfo
  <2>2. transfer(balance, RegistryAddr, v, stake[v].unbonding) \in [Account -> Nat]
    BY <1>a, <2>1, TransferType
  <2>3. [stake[v] EXCEPT !.unbonding = 0] \in StakeInfo
    BY DEF StakeInfo
  <2>4. stake' \in [Verifier -> StakeInfo]
    BY <1>3, <2>3 DEF Withdraw
  <2> QED
    BY <1>3, <2>2, <2>4 DEF Withdraw
<1>4. ASSUME NEW v \in Verifier, NEW c \in Claim, NEW h \in Hash, Attest(v, c, h)
      PROVE  TypeOK'
  <2>1. opened' \in [Claim -> Nat \cup {Never}]
    BY <1>4, <1>b DEF Attest, OpenClaim
  <2>2. /\ att' \in [Claim -> [Verifier -> Hash \cup {NoHash}]]
        /\ attesters' \in [Claim -> Seq(Verifier)]
    BY <1>4 DEF Attest, RecordAttestation
  <2> QED
    BY <1>4, <2>1, <2>2 DEF Attest
<1>5. ASSUME NEW c \in Claim, NEW v \in Verifier, Slash(c, v)
      PROVE  TypeOK'
  <2> DEFINE t == stake[v].staked + stake[v].unbonding
  <2>1. stake[v].staked \in Nat /\ stake[v].unbonding \in Nat /\ t \in Nat
    BY DEF StakeInfo
  <2>2. SlashAmount(v) \in Nat /\ SlashAmount(v) <= t
    BY <2>1, SlashIsAShare DEF SlashAmount
  <2>3. AfterSlash(stake[v], SlashAmount(v)) \in StakeInfo
    <3> DEFINE amount == SlashAmount(v)
               from_staked == Lesser(amount, stake[v].staked)
    <3>1. /\ stake[v].staked - from_staked \in Nat
          /\ stake[v].unbonding - (amount - from_staked) \in Nat
      BY <2>1, <2>2 DEF Lesser
    <3> HIDE DEF amount, from_staked
    <3>2. [stake[v] EXCEPT !.staked = @ - from_staked,
                           !.unbonding = @ - (amount - from_staked)] \in StakeInfo
      BY <3>1 DEF StakeInfo
    <3> QED
      BY <3>2 DEF AfterSlash, amount, from_staked
  <2>4. stake' \in [Verifier -> StakeInfo]
    BY <1>5, <2>3 DEF Slash
  <2>5. balance' \in [Account -> Nat]
    BY <1>5, <1>a, <2>2 DEF Slash, burn, spend_balance, CanSpend
  <2>6. slashed' \in [Claim -> SUBSET Verifier]
    BY <1>5 DEF Slash
  <2> QED
    BY <1>5, <2>4, <2>5, <2>6 DEF Slash
<1>6. ASSUME NEW to \in Account, NEW amount \in Amount, Pay(to, amount)
      PROVE  TypeOK'
  <2>1. balance' \in [Account -> Nat]
    BY <1>6, <1>a, TransferType, NamesAssumption DEF Pay
  <2> QED
    BY <1>6, <2>1 DEF Pay
<1>7. ASSUME CloseLedger
      PROVE  TypeOK'
  BY <1>7, NamesAssumption DEF CloseLedger
<1>8. CASE UNCHANGED vars
  BY <1>8 DEF vars
<1> QED
  BY <1>1, <1>2, <1>3, <1>4, <1>5, <1>6, <1>7, <1>8 DEF Next

(* Every record keeps its type and no stake or balance is ever negative:   *)
(* whatever amounts are passed, nothing is slashed, unstaked or paid out   *)
(* beyond what is there (stake, request_unstake, withdraw, slash).         *)
THEOREM TypeCorrect == Spec => []TypeOK
<1>1. Init => TypeOK
  BY InitTypeOK
<1>2. TypeOK /\ [Next]_vars => TypeOK'
  BY NextTypeOK
<1> QED
  BY <1>1, <1>2, PTL DEF Spec
-----------------------------------------------------------------------------
(* The roster: only attest() touches the records, and it adds one that was *)
(* not there to the record map, to the list and, for the first one, to the *)
(* ledger of opening.                                                      *)
LEMMA OthersLeaveTheRecords ==
    ASSUME [Next]_vars,
           ~ \E v \in Verifier, c \in Claim, h \in Hash : Attest(v, c, h)
    PROVE  UNCHANGED <<opened, attesters, att>>
BY DEF Next, vars, Stake, RequestUnstake, Withdraw, Slash, Pay, CloseLedger

(* attest() appends the caller to the claim's list exactly when it writes  *)
(* the caller's record, and sets the opening with the first of them.       *)
LEMMA AttestKeepsRoster ==
    ASSUME TypeOK, RosterMatchesRecords,
           NEW v \in Verifier, NEW c \in Claim, NEW h \in Hash, Attest(v, c, h)
    PROVE  RosterMatchesRecords'
<1> USE DEF TypeOK
<1>1. /\ attesters' = [attesters EXCEPT ![c] = Append(@, v)]
      /\ att' = [att EXCEPT ![c][v] = h]
      /\ att[c][v] = NoHash /\ h # NoHash
  BY NamesAssumption DEF Attest, RecordAttestation
<1>2. IsOpened(c)' /\ \A d \in Claim \ {c} : IsOpened(d)' <=> IsOpened(d)
  <2>1. ledger # Never
    BY NamesAssumption DEF Never
  <2> QED
    BY <2>1 DEF Attest, OpenClaim, IsOpened
<1>3. ASSUME NEW d \in Claim, d # c
      PROVE  attesters'[d] = attesters[d] /\ Voters(d)' = Voters(d)
  BY <1>1, <1>3 DEF Voters
<1>4. Voters(c)' = Voters(c) \cup {v}
  BY <1>1 DEF Voters
<1>5. v \notin {attesters[c][i] : i \in DOMAIN attesters[c]}
  BY <1>1 DEF RosterMatchesRecords, Voters
<1> DEFINE n == Len(attesters[c])
<1>6. /\ attesters[c] \in Seq(Verifier) /\ n \in Nat
      /\ DOMAIN attesters[c] = 1 .. n
      /\ DOMAIN attesters'[c] = 1 .. n + 1
      /\ attesters'[c][n + 1] = v
      /\ \A i \in 1 .. n : attesters'[c][i] = attesters[c][i]
  BY <1>1
<1>7. \A i, j \in DOMAIN attesters'[c] : attesters'[c][i] = attesters'[c][j] => i = j
  <2>1. \A i \in 1 .. n : attesters'[c][i] # v
    BY <1>5, <1>6
  <2>2. \A i, j \in 1 .. n : attesters'[c][i] = attesters'[c][j] => i = j
    BY <1>6 DEF RosterMatchesRecords
  <2>3. \A i \in 1 .. n + 1 : i = n + 1 \/ i \in 1 .. n
    BY <1>6
  <2> QED
    BY <1>6, <2>1, <2>2, <2>3
<1>8. {attesters'[c][i] : i \in DOMAIN attesters'[c]} = Voters(c)'
  <2>1. {attesters'[c][i] : i \in 1 .. n + 1} = {attesters'[c][i] : i \in 1 .. n} \cup {v}
    <3>1. 1 .. n + 1 = (1 .. n) \cup {n + 1}
      BY <1>6
    <3> QED
      BY <1>6, <3>1
  <2>2. {attesters[c][i] : i \in 1 .. n} = Voters(c)
    BY <1>6 DEF RosterMatchesRecords
  <2>3. {attesters'[c][i] : i \in 1 .. n} = {attesters[c][i] : i \in 1 .. n}
    BY <1>6
  <2> QED
    BY <1>4, <1>6, <2>1, <2>2, <2>3
<1>9. IsOpened(c)' <=> Voters(c)' # {}
  BY <1>2, <1>4
<1> DEFINE Matches(d) ==
              /\ \A i, j \in DOMAIN attesters[d] : attesters[d][i] = attesters[d][j] => i = j
              /\ {attesters[d][i] : i \in DOMAIN attesters[d]} = Voters(d)
              /\ IsOpened(d) <=> Voters(d) # {}
<1>10. ASSUME NEW d \in Claim, d # c
       PROVE  Matches(d)'
  <2>1. attesters'[d] = attesters[d] /\ Voters(d)' = Voters(d) /\ (IsOpened(d)' <=> IsOpened(d))
    BY <1>2, <1>3, <1>10
  <2> QED
    BY <2>1 DEF RosterMatchesRecords
<1>11. Matches(c)'
  BY <1>7, <1>8, <1>9
<1>12. ASSUME NEW d \in Claim
       PROVE  Matches(d)'
  <2>1. CASE d = c
    BY <1>11, <2>1
  <2>2. CASE d # c
    BY <1>10, <2>2
  <2> QED
    BY <2>1, <2>2
<1> QED
  BY <1>12 DEF RosterMatchesRecords

(* tally_of counts every attestation once: the list it walks names exactly *)
(* the verifiers with a record, whatever the order of calls (attest,       *)
(* read_attestations).                                                     *)
THEOREM RosterCorrect == Spec => []RosterMatchesRecords
<1>1. Init => RosterMatchesRecords
  BY DEF Init, RosterMatchesRecords, IsOpened, Voters
<1>2. TypeOK /\ RosterMatchesRecords /\ [Next]_vars => RosterMatchesRecords'
  <2> SUFFICES ASSUME TypeOK, RosterMatchesRecords, [Next]_vars
               PROVE  RosterMatchesRecords'
    OBVIOUS
  <2>1. CASE \E v \in Verifier, c \in Claim, h \in Hash : Attest(v, c, h)
    BY <2>1, AttestKeepsRoster
  <2>2. CASE ~ \E v \in Verifier, c \in Claim, h \in Hash : Attest(v, c, h)
    BY <2>2, OthersLeaveTheRecords DEF RosterMatchesRecords, IsOpened, Voters
  <2> QED
    BY <2>1, <2>2
<1> QED
  BY <1>1, <1>2, TypeCorrect, PTL DEF Spec

-----------------------------------------------------------------------------
(* A closed claim is frozen: attest() refuses it, and every other call     *)
(* leaves the records and the opening alone, while ledgers only move on.   *)
LEMMA ClosedClaimsAreFrozen ==
    ASSUME TypeOK, [Next]_vars, NEW c \in Claim, Closed(c)
    PROVE  /\ attesters'[c] = attesters[c] /\ att'[c] = att[c]
           /\ Closed(c)' /\ Hashes(c)' = Hashes(c)
<1> USE DEF TypeOK
<1>1. IsOpened(c) /\ ~WindowOpen(c)
  BY DEF Closed
<1>2. /\ attesters'[c] = attesters[c]
      /\ att'[c] = att[c]
      /\ opened'[c] = opened[c]
  <2>1. CASE \E v \in Verifier, d \in Claim, h \in Hash : Attest(v, d, h)
    BY <1>1, <2>1 DEF Attest, RecordAttestation, OpenClaim
  <2>2. CASE ~ \E v \in Verifier, d \in Claim, h \in Hash : Attest(v, d, h)
    BY <2>2, OthersLeaveTheRecords
  <2> QED
    BY <2>1, <2>2
<1>3. ledger' >= ledger /\ ledger \in Nat /\ ledger' \in Nat
  BY NamesAssumption
  DEF Next, vars, Stake, RequestUnstake, Withdraw, Attest, Slash, Pay, CloseLedger
<1>4. IsOpened(c)' /\ ~WindowOpen(c)'
  BY <1>1, <1>2, <1>3, ConfigAssumption DEF IsOpened, WindowOpen
<1>5. Hashes(c)' = Hashes(c)
  BY <1>2 DEF Hashes
<1> QED
  BY <1>2, <1>4, <1>5 DEF Closed

(* So is its verdict, which is drawn from the records of a closed claim.   *)
LEMMA StepKeepsVerdicts ==
    ASSUME TypeOK, [Next]_vars, NEW c \in Claim, consensus(c) \in Final
    PROVE  consensus(c)' = consensus(c)
<1>1. Closed(c)
  BY DEF consensus, Final, Closed
<1>2. Closed(c)' /\ Hashes(c)' = Hashes(c)
  BY <1>1, ClosedClaimsAreFrozen
<1>3. /\ Total(Hashes(c))' = Total(Hashes(c))
      /\ Distinct(Hashes(c))' = Distinct(Hashes(c))
      /\ TopHash(Hashes(c))' = TopHash(Hashes(c))
  BY <1>2 DEF Total, Distinct, TopHash, IsTopPosition, CountOf
<1> QED
  BY <1>1, <1>2, <1>3 DEF consensus, Closed

(* What consensus() has answered for a closed claim it answers for ever:   *)
(* no later attestation, slash, unstake or ledger changes a verdict        *)
(* (consensus, attest's WindowClosed, slash).                              *)
THEOREM VerdictsAreFinal == Spec => VerdictIsFinal
<1>1. TypeOK /\ [Next]_vars =>
        [\A c \in Claim : consensus(c) \in Final => consensus(c)' = consensus(c)]_vars
  BY StepKeepsVerdicts
<1> QED
  BY <1>1, TypeCorrect, PTL DEF Spec, VerdictIsFinal
-----------------------------------------------------------------------------
(* What keeps a dissenter's stake within reach of a slash.  The unbonding  *)
(* entry counts towards it on a claim only if its release, restarted by    *)
(* every request_unstake, does not come before unbond_period ledgers after *)
(* the claim opened: what may be withdrawn earlier cannot be relied on.    *)
UnslashedAnywhere(v) == \A d \in Claim : v \notin slashed[d]

HeldFor(c, v) ==
    stake[v].staked
        + (IF stake[v].release_ledger >= opened[c] + UnbondPeriod
           THEN stake[v].unbonding ELSE 0)

RiskInv ==
    /\ \A c \in Claim : opened[c] <= ledger
    /\ \A c \in Claim, v \in Verifier :
          (/\ att[c][v] # NoHash
           /\ ledger < opened[c] + UnbondPeriod
           /\ UnslashedAnywhere(v))
          => HeldFor(c, v) >= MinStake

(* The numbers the argument compares are naturals, for a stake that is     *)
(* there and for one that is not (load_stake's default).                   *)
LEMMA RiskTypes ==
    ASSUME TypeOK, NEW c \in Claim, NEW v \in Verifier
    PROVE  /\ ledger \in Nat /\ opened[c] \in Int
           /\ stake[v] \in StakeInfo
           /\ stake[v].staked \in Nat /\ stake[v].unbonding \in Nat
           /\ stake[v].release_ledger \in Nat
           /\ UnbondPeriod \in Nat /\ MinStake \in Nat
<1>1. ledger \in Nat /\ UnbondPeriod \in Nat /\ MinStake \in Nat
  BY NamesAssumption, ConfigAssumption DEF TypeOK
<1>2. opened[c] \in Int
  BY DEF TypeOK, Never
<1>3. stake[v] \in StakeInfo
  BY DEF TypeOK
<1> QED
  BY <1>1, <1>2, <1>3 DEF StakeInfo

(* A claim opens at a ledger that has been reached, and never again: only  *)
(* attest() writes it, and only for the first attester.                    *)
LEMMA StepKeepsOpenings ==
    ASSUME TypeOK, RiskInv, [Next]_vars
    PROVE  \A c \in Claim : opened'[c] <= ledger'
<1> USE DEF TypeOK
<1>1. \A c \in Claim : opened[c] \in Int /\ opened[c] <= ledger
  BY DEF RiskInv, Never
<1>2. ledger \in Nat
  BY NamesAssumption
<1>3. CASE \E v \in Verifier, c \in Claim, h \in Hash : Attest(v, c, h)
  <2>1. ledger' = ledger /\ \A c \in Claim : opened'[c] = opened[c] \/ opened'[c] = ledger
    BY <1>3 DEF Attest, OpenClaim
  <2> TAKE c \in Claim
  <2>2. CASE opened'[c] = opened[c]
    BY <1>1, <2>1, <2>2
  <2>3. CASE opened'[c] = ledger
    BY <1>2, <2>1, <2>3
  <2> QED
    BY <2>1, <2>2, <2>3
<1>4. CASE ~ \E v \in Verifier, c \in Claim, h \in Hash : Attest(v, c, h)
  <2>1. opened' = opened
    BY <1>4, OthersLeaveTheRecords
  <2>2. ledger' = ledger \/ ledger' = ledger + 1
    BY <1>4 DEF Next, vars, Stake, RequestUnstake, Withdraw, Slash, Pay, CloseLedger
  <2> QED
    BY <1>1, <1>2, <2>1, <2>2
<1> QED
  BY <1>3, <1>4

(* The stake of a verifier that is not slashed, seen from one claim it has *)
(* a record on, never falls below min_stake while the period runs.         *)
LEMMA StepKeepsRisk ==
    ASSUME TypeOK, TypeOK', RosterMatchesRecords, RiskInv, [Next]_vars,
           NEW c \in Claim, NEW v \in Verifier,
           att'[c][v] # NoHash,
           ledger' < opened'[c] + UnbondPeriod,
           UnslashedAnywhere(v)'
    PROVE  HeldFor(c, v)' >= MinStake
<1> DEFINE AtRisk == /\ att[c][v] # NoHash
                     /\ ledger < opened[c] + UnbondPeriod
                     /\ UnslashedAnywhere(v)
<1>1. AtRisk => HeldFor(c, v) >= MinStake
  BY DEF RiskInv
<1>2. opened[c] <= ledger
  BY DEF RiskInv
<1>3. /\ ledger \in Nat /\ ledger' \in Nat /\ opened[c] \in Int /\ opened'[c] \in Int
      /\ stake[v].staked \in Nat /\ stake[v].unbonding \in Nat /\ stake[v].release_ledger \in Nat
      /\ UnbondPeriod \in Nat /\ MinStake \in Nat
  BY RiskTypes, NamesAssumption DEF TypeOK, Never
<1>4. ASSUME NEW u \in Verifier, NEW amount \in Amount, Stake(u, amount)
      PROVE  HeldFor(c, v)' >= MinStake
  <2>1. AtRisk
    BY <1>4 DEF Stake, UnslashedAnywhere
  <2>2. amount \in Int /\ amount > 0
    BY <1>4, NamesAssumption DEF Stake
  <2>3. /\ stake'[v].staked \in {stake[v].staked, stake[v].staked + amount}
        /\ stake'[v].unbonding = stake[v].unbonding
        /\ stake'[v].release_ledger = stake[v].release_ledger
    BY <1>4 DEF Stake, TypeOK, StakeInfo
  <2>4. opened' = opened
    BY <1>4 DEF Stake
  <2> QED
    BY <1>1, <1>3, <2>1, <2>2, <2>3, <2>4 DEF HeldFor
<1>5. ASSUME NEW u \in Verifier, NEW amount \in Amount, RequestUnstake(u, amount)
      PROVE  HeldFor(c, v)' >= MinStake
  <2>1. AtRisk /\ opened' = opened
    BY <1>5 DEF RequestUnstake, UnslashedAnywhere
  <2>2. CASE u = v
    <3>1. /\ stake'[v].staked = stake[v].staked - amount
          /\ stake'[v].unbonding = stake[v].unbonding + amount
          /\ stake'[v].release_ledger = ledger + UnbondPeriod
      BY <1>5, <2>2 DEF RequestUnstake, TypeOK, StakeInfo
    <3>2. amount \in Int
      BY NamesAssumption
    <3> QED
      BY <1>1, <1>2, <1>3, <2>1, <3>1, <3>2 DEF HeldFor
  <2>3. CASE u # v
    <3>1. stake'[v] = stake[v]
      BY <1>5, <2>3 DEF RequestUnstake, TypeOK
    <3> QED
      BY <1>1, <2>1, <3>1 DEF HeldFor
  <2> QED
    BY <2>2, <2>3
<1>6. ASSUME NEW u \in Verifier, Withdraw(u)
      PROVE  HeldFor(c, v)' >= MinStake
  <2>1. AtRisk /\ opened' = opened
    BY <1>6 DEF Withdraw, UnslashedAnywhere
  <2>2. CASE u = v
    <3>1. /\ stake'[v].staked = stake[v].staked
          /\ stake'[v].unbonding = 0
          /\ stake'[v].release_ledger = stake[v].release_ledger
          /\ stake[v].release_ledger <= ledger
      BY <1>3, <1>6, <2>2 DEF Withdraw, TypeOK, StakeInfo
    <3> QED
      BY <1>1, <1>3, <2>1, <3>1 DEF HeldFor
  <2>3. CASE u # v
    <3>1. stake'[v] = stake[v]
      BY <1>6, <2>3 DEF Withdraw, TypeOK
    <3> QED
      BY <1>1, <2>1, <3>1 DEF HeldFor
  <2> QED
    BY <2>2, <2>3
<1>7. ASSUME NEW u \in Verifier, NEW d \in Claim, NEW h \in Hash, Attest(u, d, h)
      PROVE  HeldFor(c, v)' >= MinStake
  <2>1. stake' = stake /\ ledger' = ledger /\ slashed' = slashed
    BY <1>7 DEF Attest
  <2>2. CASE u = v /\ d = c
    BY <1>3, <1>7, <2>1, <2>2 DEF Attest, IsActive, HeldFor
  <2>3. CASE ~(u = v /\ d = c)
    <3>1. att[c][v] # NoHash
      BY <1>7, <2>3 DEF Attest, RecordAttestation, TypeOK
    <3>2. IsOpened(c)
      BY <3>1 DEF RosterMatchesRecords, Voters
    <3>3. opened'[c] = opened[c]
      BY <1>7, <3>2 DEF Attest, OpenClaim, TypeOK
    <3> QED
      BY <1>1, <2>1, <3>1, <3>3 DEF HeldFor, UnslashedAnywhere
  <2> QED
    BY <2>2, <2>3
<1>8. ASSUME NEW d \in Claim, NEW u \in Verifier, Slash(d, u)
      PROVE  HeldFor(c, v)' >= MinStake
  <2>1. v \in slashed'[d] <=> v = u \/ v \in slashed[d]
    BY <1>8 DEF Slash, TypeOK
  <2>2. u # v
    BY <2>1 DEF UnslashedAnywhere
  <2>3. stake'[v] = stake[v] /\ opened' = opened /\ ledger' = ledger /\ att' = att
    BY <1>8, <2>2 DEF Slash, TypeOK
  <2>4. UnslashedAnywhere(v)
    BY <1>8 DEF Slash, UnslashedAnywhere, TypeOK
  <2> QED
    BY <1>1, <2>3, <2>4 DEF HeldFor
<1>9. ASSUME NEW to \in Account, NEW amount \in Amount, Pay(to, amount)
      PROVE  HeldFor(c, v)' >= MinStake
  BY <1>1, <1>9 DEF Pay, HeldFor, UnslashedAnywhere
<1>10. ASSUME CloseLedger
       PROVE  HeldFor(c, v)' >= MinStake
  BY <1>1, <1>3, <1>10 DEF CloseLedger, HeldFor, UnslashedAnywhere
<1>11. CASE UNCHANGED vars
  BY <1>1, <1>11 DEF vars, HeldFor, UnslashedAnywhere
<1> QED
  BY <1>4, <1>5, <1>6, <1>7, <1>8, <1>9, <1>10, <1>11 DEF Next

(* The strengthening is inductive: every call of request_unstake, withdraw *)
(* and attest keeps min_stake bound for each claim still in its period.    *)
THEOREM RiskInvariant == Spec => []RiskInv
<1>1. Init => RiskInv
  BY DEF Init, RiskInv, Never
<1>2. TypeOK /\ TypeOK' /\ RosterMatchesRecords /\ RiskInv /\ [Next]_vars => RiskInv'
  BY StepKeepsOpenings, StepKeepsRisk DEF RiskInv
<1> QED
  BY <1>1, <1>2, TypeCorrect, RosterCorrect, PTL DEF Spec

(* Whoever attested stays slashable: no order of stake, attest, unstake    *)
(* and withdraw calls frees more than what leaves min_stake in the         *)
(* contract before unbond_period ledgers have passed since the claim       *)
(* opened (request_unstake, withdraw, attest).                             *)
THEOREM AttesterIsAtRisk == Spec => []AttesterStaysAtRisk
<1>1. TypeOK /\ RiskInv => AttesterStaysAtRisk
  <2> SUFFICES ASSUME TypeOK, RiskInv, NEW c \in Claim, NEW v \in Verifier,
                      att[c][v] # NoHash,
                      ledger < opened[c] + UnbondPeriod,
                      UnslashedAnywhere(v)
               PROVE  AtStake(v) >= MinStake
    BY DEF AttesterStaysAtRisk, UnslashedAnywhere
  <2>1. HeldFor(c, v) >= MinStake
    BY DEF RiskInv
  <2> QED
    BY <2>1, RiskTypes DEF HeldFor, AtStake
<1> QED
  BY <1>1, TypeCorrect, RiskInvariant, PTL
-----------------------------------------------------------------------------
(* Staking, unstaking and withdrawing move a verifier's tokens between its *)
(* account and the contract; others' calls and payments take none of them. *)
(* Only slash() burns, at most slash_bps of the stake (slash's floor).     *)
LEMMA StepCosts ==
    ASSUME TypeOK, Next, NEW v \in Verifier, Wealth(v)' < Wealth(v)
    PROVE  /\ \E c \in Claim : v \in slashed'[c] \ slashed[c]
           /\ 10000 * (Wealth(v) - Wealth(v)') <= SlashBps * AtStake(v)
<1>1. /\ balance \in [Account -> Nat] /\ stake \in [Verifier -> StakeInfo]
      /\ v \in Account /\ v # RegistryAddr /\ v # Treasury
      /\ RegistryAddr \in Account /\ Treasury \in Account
      /\ balance[v] \in Nat /\ stake[v].staked \in Nat /\ stake[v].unbonding \in Nat
      /\ \A w \in Verifier : w \in Account /\ w # RegistryAddr
  BY NamesAssumption DEF TypeOK, Account, Holder, StakeInfo
<1>2. ASSUME NEW w \in Verifier, NEW amount \in Amount, Stake(w, amount)
      PROVE  FALSE
  <2>1. amount \in Nat
    BY <1>2, NamesAssumption DEF Stake
  <2>2. Wealth(v)' = Wealth(v)
    BY <1>1, <1>2, <2>1
    DEF Stake, Wealth, AtStake, StakeInfo, transfer, spend_balance, receive_balance
  <2> QED
    BY <2>2, <1>1 DEF Wealth, AtStake
<1>3. ASSUME NEW w \in Verifier, NEW amount \in Amount, RequestUnstake(w, amount)
      PROVE  FALSE
  <2>1. amount \in Nat
    BY <1>3, NamesAssumption DEF RequestUnstake
  <2>2. Wealth(v)' = Wealth(v)
    BY <1>1, <1>3, <2>1 DEF RequestUnstake, Wealth, AtStake, StakeInfo
  <2> QED
    BY <2>2, <1>1 DEF Wealth, AtStake
<1>4. ASSUME NEW w \in Verifier, Withdraw(w)
      PROVE  FALSE
  <2>1. stake[w].unbonding \in Nat
    BY <1>1 DEF StakeInfo
  <2>2. Wealth(v)' = Wealth(v)
    BY <1>1, <1>4, <2>1
    DEF Withdraw, Wealth, AtStake, StakeInfo, transfer, spend_balance, receive_balance
  <2> QED
    BY <2>2, <1>1 DEF Wealth, AtStake
<1>5. ASSUME NEW to \in Account, NEW amount \in Amount, Pay(to, amount)
      PROVE  FALSE
  <2>1. amount \in Nat
    BY <1>5, NamesAssumption DEF Pay, CanSpend
  <2>2. balance'[v] \in Nat /\ balance'[v] >= balance[v]
    BY <1>1, <1>5, <2>1 DEF Pay, transfer, spend_balance, receive_balance
  <2> QED
    BY <1>1, <1>5, <2>2 DEF Pay, Wealth, AtStake
<1>6. ASSUME UNCHANGED <<balance, stake>>
      PROVE  FALSE
  BY <1>1, <1>6 DEF Wealth, AtStake
<1>7. ASSUME NEW c \in Claim, NEW w \in Verifier, Slash(c, w)
      PROVE  /\ \E d \in Claim : v \in slashed'[d] \ slashed[d]
             /\ 10000 * (Wealth(v) - Wealth(v)') <= SlashBps * AtStake(v)
  <2>1. balance'[v] = balance[v]
    BY <1>1, <1>7 DEF Slash, burn, spend_balance
  <2>2. w = v
    BY <1>1, <1>7, <2>1 DEF Slash, Wealth, AtStake
  <2>3. v \in slashed'[c] \ slashed[c]
    BY <1>7, <2>2 DEF Slash, TypeOK
  <2>4. AtStake(v) \in Nat
    BY <1>1 DEF AtStake
  <2>5. /\ SlashAmount(v) \in Nat /\ SlashAmount(v) <= AtStake(v)
        /\ 10000 * SlashAmount(v) <= SlashBps * AtStake(v)
    BY <2>4, SlashIsAShare DEF SlashAmount, AtStake
  <2>6. AtStake(v)' = AtStake(v) - SlashAmount(v)
    BY <1>1, <1>7, <2>2, <2>5 DEF Slash, AfterSlash, Lesser, AtStake, StakeInfo
  <2>7. Wealth(v) - Wealth(v)' = SlashAmount(v)
    BY <1>1, <2>1, <2>4, <2>5, <2>6 DEF Wealth
  <2> QED
    BY <2>3, <2>5, <2>7
<1> QED
  BY <1>2, <1>3, <1>4, <1>5, <1>6, <1>7 DEF Next, Attest, CloseLedger

(* No call of another account, no payment and no ledger costs a verifier   *)
(* a token; a slash on a claim costs it once, and at most slash_bps of     *)
(* what it has in the contract (slash, stake, withdraw).                   *)
THEOREM SlashIsTheOnlyCost == Spec => OnlyASlashCosts
<1>1. TypeOK /\ [Next]_vars =>
        [\A v \in Verifier : Wealth(v)' < Wealth(v) =>
            /\ \E c \in Claim : v \in slashed'[c] \ slashed[c]
            /\ 10000 * (Wealth(v) - Wealth(v)') <= SlashBps * AtStake(v)]_vars
  BY StepCosts
<1> QED
  BY <1>1, TypeCorrect, PTL DEF Spec, OnlyASlashCosts
-----------------------------------------------------------------------------
(* What a verdict means. *)

(* The list of a claim, as read_attestations reads it: one hash for each   *)
(* attester, none of them missing.                                         *)
LEMMA HashesType ==
    ASSUME TypeOK, RosterMatchesRecords, NEW c \in Claim
    PROVE  /\ attesters[c] \in Seq(Verifier)
           /\ DOMAIN Hashes(c) = 1 .. Len(attesters[c])
           /\ Hashes(c) \in Seq(Hash)
           /\ Len(Hashes(c)) = Len(attesters[c])
           /\ \A i \in DOMAIN Hashes(c) : /\ attesters[c][i] \in Voters(c)
                                          /\ Hashes(c)[i] = att[c][attesters[c][i]]
           /\ \A v \in Voters(c) : \E i \in DOMAIN Hashes(c) : attesters[c][i] = v
<1>1. attesters[c] \in Seq(Verifier)
  BY DEF TypeOK
<1>2. DOMAIN Hashes(c) = 1 .. Len(attesters[c])
  BY <1>1 DEF Hashes
<1>3. \A i \in 1 .. Len(attesters[c]) : attesters[c][i] \in Voters(c)
  BY <1>1 DEF RosterMatchesRecords
<1>4. \A v \in Voters(c) : \E i \in 1 .. Len(attesters[c]) : attesters[c][i] = v
  BY <1>1 DEF RosterMatchesRecords
<1>5. \A i \in 1 .. Len(attesters[c]) : /\ Hashes(c)[i] = att[c][attesters[c][i]]
                                        /\ Hashes(c)[i] \in Hash
  BY <1>1, <1>2, <1>3 DEF Hashes, Voters, TypeOK
<1>6. Hashes(c) = [i \in 1 .. Len(attesters[c]) |-> Hashes(c)[i]]
  BY <1>1, <1>2 DEF Hashes
<1>7. Hashes(c) \in Seq(Hash) /\ Len(Hashes(c)) = Len(attesters[c])
  BY <1>1, <1>5, <1>6
<1> QED
  BY <1>1, <1>2, <1>3, <1>4, <1>5, <1>7

(* Counting positions is counting verifiers: the total of the tally is the *)
(* number of voters, and the count of a hash is the number of verifiers    *)
(* that recorded it (tally_of over read_attestations).                     *)
LEMMA VotersAreCounted ==
    ASSUME TypeOK, RosterMatchesRecords, NEW c \in Claim
    PROVE  /\ IsFiniteSet(Voters(c))
           /\ Total(Hashes(c)) = Cardinality(Voters(c))
           /\ \A h \in Hash :
                 /\ IsFiniteSet({v \in Verifier : att[c][v] = h})
                 /\ CountOf(Hashes(c), h) = Cardinality({v \in Verifier : att[c][v] = h})
                 /\ CountOf(Hashes(c), h) \in Nat
<1> DEFINE n == Len(attesters[c])
           H == Hashes(c)
<1>1. n \in Nat /\ DOMAIN attesters[c] = 1 .. n
  BY HashesType
<1>2. \A i, j \in 1 .. n : attesters[c][i] = attesters[c][j] => i = j
  BY <1>1 DEF RosterMatchesRecords
<1>3. IsFiniteSet(1 .. n) /\ Cardinality(1 .. n) = n
  BY <1>1, FS_Interval
<1>4. attesters[c] \in Bijection(1 .. n, Voters(c))
  <2>1. attesters[c] \in [1 .. n -> Voters(c)]
    BY <1>1, HashesType
  <2> QED
    BY <2>1, <1>1, <1>2, HashesType DEF Bijection, Injection, Surjection, IsInjective
<1>5. IsFiniteSet(Voters(c)) /\ Cardinality(Voters(c)) = n
  BY <1>3, <1>4, FS_Bijection DEF ExistsBijection
<1>6. ASSUME NEW h \in Hash
      PROVE  /\ IsFiniteSet({v \in Verifier : att[c][v] = h})
             /\ CountOf(H, h) = Cardinality({v \in Verifier : att[c][v] = h})
             /\ CountOf(H, h) \in Nat
  <2> DEFINE P == {i \in DOMAIN H : H[i] = h}
             V == {v \in Verifier : att[c][v] = h}
             f == [i \in P |-> attesters[c][i]]
  <2>1. P \in SUBSET (1 .. n)
    BY HashesType
  <2>2. IsFiniteSet(P)
    BY <2>1, <1>3, FS_Subset
  <2>3. \A i \in P : f[i] \in V
    BY HashesType DEF Voters
  <2>4. \A i, j \in P : f[i] = f[j] => i = j
    BY <2>1, <1>2
  <2>5. \A v \in V : \E i \in P : f[i] = v
    <3> SUFFICES ASSUME NEW v \in V PROVE \E i \in P : f[i] = v
      OBVIOUS
    <3>1. v \in Voters(c)
      BY NamesAssumption DEF Voters
    <3> QED
      BY <3>1, HashesType
  <2>6. f \in Bijection(P, V)
    BY <2>3, <2>4, <2>5 DEF Bijection, Injection, Surjection, IsInjective
  <2>7. IsFiniteSet(V) /\ Cardinality(V) = Cardinality(P)
    BY <2>2, <2>6, FS_Bijection DEF ExistsBijection
  <2>8. Cardinality(P) \in Nat
    BY <2>2, FS_CardinalityType
  <2> QED
    BY <2>7, <2>8 DEF CountOf
<1> QED
  BY <1>5, <1>6, HashesType DEF Total

(* One distinct hash is unanimity, and then top is that hash whatever the  *)
(* order of arrival; a unanimous, non-empty list has one distinct hash     *)
(* (tally_of's distinct and top).                                          *)
LEMMA DistinctMeansUnanimous ==
    ASSUME NEW H \in Seq(Hash), Len(H) > 0
    PROVE  /\ Distinct(H) = 1 => \A i \in DOMAIN H : H[i] = TopHash(H)
           /\ Distinct(H) = 1 => TopHash(H) \in Hash
           /\ \A h : (\A i \in DOMAIN H : H[i] = h) => Distinct(H) = 1
<1> DEFINE n == Len(H)
           R == {H[i] : i \in DOMAIN H}
<1>1. n \in Nat /\ DOMAIN H = 1 .. n /\ 1 \in DOMAIN H
  OBVIOUS
<1>2. IsFiniteSet(DOMAIN H)
  BY <1>1, FS_Interval
<1>3. IsFiniteSet(R)
  <2>1. H \in Surjection(DOMAIN H, R)
    BY <1>1 DEF Surjection
  <2> QED
    BY <2>1, <1>2, FS_Surjection
<1>4. \A h : CountOf(H, h) \in Nat
  <2> SUFFICES ASSUME NEW h PROVE CountOf(H, h) \in Nat
    OBVIOUS
  <2>1. {i \in DOMAIN H : H[i] = h} \in SUBSET DOMAIN H
    OBVIOUS
  <2> QED
    BY <2>1, <1>2, FS_Subset, FS_CardinalityType DEF CountOf
<1>5. ASSUME Distinct(H) = 1
      PROVE  (\A i \in DOMAIN H : H[i] = TopHash(H)) /\ TopHash(H) \in Hash
  <2>1. PICK h : R = {h}
    BY <1>3, <1>5, FS_Singleton DEF Distinct
  <2>2. \A i \in DOMAIN H : H[i] = h
    BY <2>1
  <2>3. IsTopPosition(H, 1)
    BY <1>1, <1>4, <2>2 DEF IsTopPosition
  <2>4. (CHOOSE i \in DOMAIN H : IsTopPosition(H, i)) \in DOMAIN H
    BY <1>1, <2>3
  <2>5. TopHash(H) = h
    BY <2>2, <2>4 DEF TopHash
  <2> QED
    BY <1>1, <2>2, <2>5
<1>6. ASSUME NEW h, \A i \in DOMAIN H : H[i] = h
      PROVE  Distinct(H) = 1
  <2>1. R = {h}
    BY <1>1, <1>6
  <2> QED
    BY <2>1, FS_Singleton DEF Distinct
<1> QED
  BY <1>5, <1>6

(* The voters of a claim with a quorum agree exactly if the list has one   *)
(* distinct hash, and then they agree on top (consensus).                  *)
LEMMA VotersAgree ==
    ASSUME TypeOK, RosterMatchesRecords, NEW c \in Claim, Total(Hashes(c)) >= Quorum
    PROVE  /\ Cardinality(Voters(c)) >= Quorum
           /\ Distinct(Hashes(c)) = 1 =>
                 /\ TopHash(Hashes(c)) \in Hash
                 /\ \A v \in Voters(c) : att[c][v] = TopHash(Hashes(c))
           /\ \A h : (\A v \in Voters(c) : att[c][v] = h) => Distinct(Hashes(c)) = 1
           /\ Voters(c) # {}
<1>1. Hashes(c) \in Seq(Hash) /\ Len(Hashes(c)) > 0
  BY HashesType, ConfigAssumption DEF Total
<1>2. Cardinality(Voters(c)) >= Quorum
  BY VotersAreCounted
<1>3. ASSUME Distinct(Hashes(c)) = 1
      PROVE  /\ TopHash(Hashes(c)) \in Hash
             /\ \A v \in Voters(c) : att[c][v] = TopHash(Hashes(c))
  <2>1. /\ TopHash(Hashes(c)) \in Hash
        /\ \A i \in DOMAIN Hashes(c) : Hashes(c)[i] = TopHash(Hashes(c))
    BY <1>1, <1>3, DistinctMeansUnanimous
  <2> QED
    BY <2>1, HashesType
<1>4. ASSUME NEW h, \A v \in Voters(c) : att[c][v] = h
      PROVE  Distinct(Hashes(c)) = 1
  <2>1. \A i \in DOMAIN Hashes(c) : Hashes(c)[i] = h
    BY <1>4, HashesType
  <2> QED
    BY <1>1, <2>1, DistinctMeansUnanimous
<1>5. Voters(c) # {}
  BY <1>1, HashesType
<1> QED
  BY <1>2, <1>3, <1>4, <1>5

(* Green needs everyone: a Verified claim has a quorum of records, all of  *)
(* them the on-chain hash, and a Mismatch one other hash throughout, for   *)
(* any number of attesters and whatever was slashed since (consensus).     *)
THEOREM GreenMeansUnanimous == Spec => []GreenIsUnanimous
<1>1. TypeOK /\ RosterMatchesRecords => GreenIsUnanimous
  <2> SUFFICES ASSUME TypeOK, RosterMatchesRecords, NEW c \in Claim,
                      consensus(c) \in {"Verified", "Mismatch"}
               PROVE  /\ consensus(c) = "Verified" =>
                            /\ Cardinality(Voters(c)) >= Quorum
                            /\ \A v \in Voters(c) : att[c][v] = WasmHash[c]
                      /\ consensus(c) = "Mismatch" =>
                            \E h \in Hash \ {WasmHash[c]} : \A v \in Voters(c) : att[c][v] = h
    BY DEF GreenIsUnanimous
  <2>1. /\ Total(Hashes(c)) >= Quorum /\ Distinct(Hashes(c)) = 1
        /\ consensus(c) = "Verified" => TopHash(Hashes(c)) = WasmHash[c]
        /\ consensus(c) = "Mismatch" => TopHash(Hashes(c)) # WasmHash[c]
    <3>1. Total(Hashes(c)) \in Nat /\ Quorum \in Nat
      BY HashesType, ConfigAssumption DEF Total
    <3> QED
      BY <3>1 DEF consensus
  <2> QED
    BY <2>1, VotersAgree
<1> QED
  BY <1>1, TypeCorrect, RosterCorrect, PTL
-----------------------------------------------------------------------------
(* Whoever carries a slash mark was a dissenter on a decided claim, and    *)
(* still is: the inductive form of SlashedWereOutvoted.                    *)
PunishedDissent ==
    \A c \in Claim : \A v \in slashed[c] : Decided(c) /\ Dissents(c, v)

(* A slash marks a dissenter on a decided claim, and a decided claim is    *)
(* closed, so nothing it was decided on changes any more (slash).          *)
LEMMA StepKeepsPunishedDissent ==
    ASSUME TypeOK, [Next]_vars, PunishedDissent
    PROVE  PunishedDissent'
<1>1. ASSUME NEW c \in Claim, NEW v \in Verifier, Decided(c), Dissents(c, v)
      PROVE  Decided(c)' /\ Dissents(c, v)'
  <2>1. Closed(c)
    BY <1>1 DEF Decided
  <2>2. att'[c] = att[c] /\ Closed(c)' /\ Hashes(c)' = Hashes(c)
    BY <2>1, ClosedClaimsAreFrozen
  <2>3. /\ Total(Hashes(c))' = Total(Hashes(c))
        /\ TopHash(Hashes(c))' = TopHash(Hashes(c))
        /\ HasStrictMajority(Hashes(c))' = HasStrictMajority(Hashes(c))
    BY <2>2 DEF Total, TopHash, IsTopPosition, CountOf, HasStrictMajority, TopCount
  <2> QED
    BY <1>1, <2>2, <2>3 DEF Decided, Dissents
<1>2. ASSUME NEW c \in Claim, NEW v \in slashed'[c]
      PROVE  v \in Verifier /\ Decided(c) /\ Dissents(c, v)
  <2>1. CASE \E d \in Claim, w \in Verifier : Slash(d, w)
    BY <1>2, <2>1 DEF PunishedDissent, TypeOK, Slash
  <2>2. CASE ~ \E d \in Claim, w \in Verifier : Slash(d, w)
    <3>1. slashed' = slashed
      BY <2>2 DEF Next, vars, Stake, RequestUnstake, Withdraw, Attest, Pay, CloseLedger
    <3> QED
      BY <1>2, <3>1 DEF PunishedDissent, TypeOK
  <2> QED
    BY <2>1, <2>2
<1> QED
  BY <1>1, <1>2 DEF PunishedDissent

(* Dissenters against a strict majority are a minority, and a claim that   *)
(* has one is disputed: counting by position is carried over to verifiers  *)
(* by VotersAreCounted (slash, consensus).                                 *)
LEMMA DissentersAreOutvoted ==
    ASSUME TypeOK, RosterMatchesRecords, NEW c \in Claim, Decided(c),
           NEW D \in SUBSET Verifier, D # {}, \A v \in D : Dissents(c, v)
    PROVE  /\ consensus(c) = "Disputed"
           /\ 2 * Cardinality(D) < Cardinality(Voters(c))
           /\ \E h \in Hash :
                 /\ 2 * Cardinality({v \in Verifier : att[c][v] = h}) > Cardinality(Voters(c))
                 /\ \A v \in D : att[c][v] # h
<1> DEFINE top == TopHash(Hashes(c))
           V == {v \in Verifier : att[c][v] = top}
<1>1. /\ Hashes(c) \in Seq(Hash) /\ Hashes(c) # <<>>
      /\ 2 * CountOf(Hashes(c), top) > Total(Hashes(c))
      /\ Total(Hashes(c)) \in Nat /\ Total(Hashes(c)) >= Quorum
      /\ Closed(c)
  BY HashesType, ConfigAssumption DEF Decided, HasStrictMajority, TopCount, Total
<1>2. top \in Hash
  <2>1. CountOf(Hashes(c), top) # 0
    BY <1>1
  <2>2. {i \in DOMAIN Hashes(c) : Hashes(c)[i] = top} # {}
    BY <2>1, FS_EmptySet DEF CountOf
  <2> QED
    BY <1>1, <2>2
<1>3. /\ IsFiniteSet(Voters(c)) /\ Total(Hashes(c)) = Cardinality(Voters(c))
      /\ IsFiniteSet(V) /\ CountOf(Hashes(c), top) = Cardinality(V)
      /\ Cardinality(V) \in Nat
  BY <1>2, VotersAreCounted
<1>4. 2 * Cardinality(V) > Cardinality(Voters(c))
  BY <1>1, <1>3
<1>5. D \in SUBSET Voters(c) /\ V \in SUBSET Voters(c) /\ D \cap V = {}
  BY <1>2, NamesAssumption DEF Dissents, Voters
<1>6. IsFiniteSet(D) /\ Cardinality(D) \in Nat
  BY <1>3, <1>5, FS_Subset, FS_CardinalityType
<1>7. Cardinality(D) + Cardinality(V) <= Cardinality(Voters(c))
  <2>1. Cardinality(D \cup V) = Cardinality(D) + Cardinality(V) - Cardinality(D \cap V)
    BY <1>3, <1>6, FS_Union
  <2>2. Cardinality(D \cap V) = 0
    BY <1>5, FS_EmptySet
  <2>3. D \cup V \in SUBSET Voters(c)
    BY <1>5
  <2>4. Cardinality(D \cup V) <= Cardinality(Voters(c))
    BY <1>3, <2>3, FS_Subset
  <2> QED
    BY <1>3, <1>6, <2>1, <2>2, <2>4
<1>8. consensus(c) = "Disputed"
  <2>1. Distinct(Hashes(c)) # 1
    <3> SUFFICES ASSUME Distinct(Hashes(c)) = 1 PROVE FALSE
      OBVIOUS
    <3>1. \A v \in Voters(c) : att[c][v] = top
      BY <1>1, VotersAgree
    <3> QED
      BY <3>1, <1>5 DEF Dissents
  <2> QED
    BY <1>1, <2>1, ConfigAssumption DEF consensus, Closed
<1>9. Cardinality(Voters(c)) \in Nat
  BY <1>1, <1>3
<1>10. 2 * Cardinality(D) < Cardinality(Voters(c))
  BY <1>3, <1>4, <1>6, <1>7, <1>9
<1>11. \A v \in D : att[c][v] # top
  BY DEF Dissents
<1> QED
  BY <1>2, <1>4, <1>8, <1>10, <1>11

(* Nobody is slashed but the outvoted, on any claim, whoever calls slash   *)
(* and however often: the slashed of a claim are fewer than half of its    *)
(* voters, and more than half hold one other hash (slash).                 *)
THEOREM OnlyTheOutvotedAreSlashed == Spec => []SlashedWereOutvoted
<1>1. Init => PunishedDissent
  BY DEF Init, PunishedDissent
<1>2. TypeOK /\ PunishedDissent /\ [Next]_vars => PunishedDissent'
  BY StepKeepsPunishedDissent
<1>3. Spec => []PunishedDissent
  BY <1>1, <1>2, TypeCorrect, PTL DEF Spec
<1>4. TypeOK /\ RosterMatchesRecords /\ PunishedDissent => SlashedWereOutvoted
  <2> SUFFICES ASSUME TypeOK, RosterMatchesRecords, PunishedDissent,
                      NEW c \in Claim, slashed[c] # {}
               PROVE  /\ consensus(c) = "Disputed"
                      /\ 2 * Cardinality(slashed[c]) < Cardinality(Voters(c))
                      /\ \E h \in Hash :
                            /\ 2 * Cardinality({v \in Verifier : att[c][v] = h})
                                  > Cardinality(Voters(c))
                            /\ \A v \in slashed[c] : att[c][v] # h
    BY DEF SlashedWereOutvoted
  <2>1. slashed[c] \in SUBSET Verifier
    BY DEF TypeOK
  <2>2. Decided(c) /\ \A v \in slashed[c] : Dissents(c, v)
    BY DEF PunishedDissent
  <2> QED
    BY <2>1, <2>2, DissentersAreOutvoted
<1> QED
  BY <1>3, <1>4, TypeCorrect, RosterCorrect, PTL
-----------------------------------------------------------------------------
(* consensus() of a claim whose window has closed. *)
Verdict(c) ==
    IF Total(Hashes(c)) < Quorum THEN "Insufficient"
    ELSE IF Distinct(Hashes(c)) # 1 THEN "Disputed"
    ELSE IF TopHash(Hashes(c)) = WasmHash[c] THEN "Verified" ELSE "Mismatch"

(* The verdict drawn from the tally of a list is the one a head count of   *)
(* the voters gives (consensus against the table of ClaimVote).            *)
LEMMA VerdictIsJudgement ==
    ASSUME TypeOK, RosterMatchesRecords, NEW c \in Claim
    PROVE  Verdict(c) = Promise!Judgement(c)
<1>1. /\ Promise!CastOn(c) = Voters(c)
      /\ Promise!Cardinality(Voters(c)) = Cardinality(Voters(c))
  <2>1. Promise!CastOn(c) = Voters(c)
    BY DEF Promise!CastOn, Voters
  <2>2. Promise!Cardinality(Voters(c)) = Cardinality(Voters(c))
    BY DEF Promise!Cardinality, Cardinality
  <2> QED
    BY <2>1, <2>2
<1>2. Total(Hashes(c)) = Cardinality(Voters(c)) /\ Total(Hashes(c)) \in Nat /\ Quorum \in Nat
  BY VotersAreCounted, HashesType, ConfigAssumption DEF Total
<1>3. CASE Total(Hashes(c)) < Quorum
  BY <1>1, <1>2, <1>3 DEF Verdict, Promise!Judgement
<1>4. CASE Total(Hashes(c)) >= Quorum
  <2>1. ~(Total(Hashes(c)) < Quorum) /\ ~(Cardinality(Voters(c)) < Quorum)
    BY <1>2, <1>4
  <2>2. CASE Distinct(Hashes(c)) # 1
    <3>1. \A h : ~Promise!Unanimous(c, h)
      BY <1>1, <1>4, <2>2, VotersAgree DEF Promise!Unanimous
    <3> QED
      BY <1>1, <2>1, <2>2, <3>1 DEF Verdict, Promise!Judgement
  <2>3. CASE Distinct(Hashes(c)) = 1
    <3>1. /\ TopHash(Hashes(c)) \in Hash /\ Voters(c) # {}
          /\ \A v \in Voters(c) : att[c][v] = TopHash(Hashes(c))
      BY <1>4, <2>3, VotersAgree
    <3>2. /\ Promise!Unanimous(c, TopHash(Hashes(c)))
          /\ Promise!Unanimous(c, WasmHash[c]) <=> TopHash(Hashes(c)) = WasmHash[c]
      BY <1>1, <3>1 DEF Promise!Unanimous
    <3> QED
      BY <1>1, <2>1, <2>3, <3>1, <3>2 DEF Verdict, Promise!Judgement
  <2> QED
    BY <2>2, <2>3
<1> QED
  BY <1>2, <1>3, <1>4

(* consensus() reads a claim's opening, list and records, and the ledger.  *)
LEMMA SameRecordsSameConsensus ==
    ASSUME NEW c \in Claim, ledger' = ledger, opened'[c] = opened[c],
           att'[c] = att[c], attesters'[c] = attesters[c]
    PROVE  consensus(c)' = consensus(c)
<1>1. Hashes(c)' = Hashes(c)
  BY DEF Hashes
<1>2. /\ Total(Hashes(c))' = Total(Hashes(c))
      /\ Distinct(Hashes(c))' = Distinct(Hashes(c))
      /\ TopHash(Hashes(c))' = TopHash(Hashes(c))
  BY <1>1 DEF Total, Distinct, TopHash, IsTopPosition, CountOf
<1> QED
  BY <1>2 DEF consensus, IsOpened, WindowOpen

(* An attestation is a vote: the claim is open afterwards, whether it was  *)
(* before or is opened now, and no other claim notices (attest).           *)
LEMMA AttestIsAVote ==
    ASSUME TypeOK, NEW v \in Verifier, NEW c \in Claim, NEW h \in Hash, Attest(v, c, h)
    PROVE  Promise!Cast(c, v, h)
<1> DEFINE status == [d \in Claim |-> consensus(d)]
<1>1. consensus(c) \in {"NoClaim", "Open"} /\ consensus(c)' = "Open"
  BY ConfigAssumption DEF Attest, OpenClaim, consensus, IsOpened, WindowOpen, Never, TypeOK
<1>2. \A d \in Claim : d # c => consensus(d)' = consensus(d)
  <2> SUFFICES ASSUME NEW d \in Claim, d # c PROVE consensus(d)' = consensus(d)
    OBVIOUS
  <2>1. /\ ledger' = ledger /\ opened'[d] = opened[d]
        /\ att'[d] = att[d] /\ attesters'[d] = attesters[d]
    BY DEF Attest, OpenClaim, RecordAttestation, TypeOK
  <2> QED
    BY <2>1, SameRecordsSameConsensus
<1>3. status' = [status EXCEPT ![c] = "Open"]
  BY <1>1, <1>2
<1> QED
  BY <1>1, <1>3 DEF Promise!Cast, Attest, RecordAttestation

(* A ledger that closes concludes the claims whose window ends with it, by *)
(* the votes they have, and shows in no other claim (consensus).           *)
LEMMA ClosingConcludes ==
    ASSUME TypeOK, RosterMatchesRecords, CloseLedger
    PROVE  [Promise!Next]_(Promise!vars)
<1> DEFINE status == [d \in Claim |-> consensus(d)]
           S == {d \in Claim : consensus(d) = "Open" /\ consensus(d)' # "Open"}
<1>1. UNCHANGED <<opened, attesters, att>>
  BY DEF CloseLedger
<1>2. ASSUME NEW d \in Claim, d \notin S
      PROVE  consensus(d)' = consensus(d)
  <2>1. CASE consensus(d) \in Final
    <3>1. [Next]_vars
      BY DEF Next
    <3> QED
      BY <2>1, <3>1, StepKeepsVerdicts
  <2>2. CASE consensus(d) = "NoClaim"
    BY <1>1, <2>2 DEF consensus, IsOpened
  <2>3. CASE consensus(d) = "Open"
    BY <1>2, <2>3
  <2> QED
    BY <2>1, <2>2, <2>3 DEF consensus, Final
<1>3. ASSUME NEW d \in S
      PROVE  consensus(d)' = Promise!Judgement(d)
  <2>1. Hashes(d)' = Hashes(d)
    BY <1>1 DEF Hashes
  <2>2. Verdict(d)' = Verdict(d)
    BY <2>1 DEF Verdict, Total, Distinct, TopHash, IsTopPosition, CountOf
  <2>3. IsOpened(d)' /\ ~WindowOpen(d)'
    BY <1>1, <1>3 DEF consensus, IsOpened
  <2>4. consensus(d)' = Verdict(d)'
    BY <2>3 DEF consensus, Verdict
  <2> QED
    BY <2>2, <2>4, VerdictIsJudgement
<1>4. CASE S = {}
  <2>1. status' = status
    BY <1>2, <1>4
  <2> QED
    BY <1>1, <2>1 DEF Promise!vars
<1>5. CASE S # {}
  <2>1. status' = [d \in Claim |-> IF d \in S THEN Promise!Judgement(d) ELSE status[d]]
    BY <1>2, <1>3
  <2>2. Promise!Conclude(S)
    BY <1>1, <1>5, <2>1 DEF Promise!Conclude
  <2> QED
    BY <2>2 DEF Promise!Next
<1> QED
  BY <1>4, <1>5

(* The registry keeps its promise to consumers: every behaviour of it is,  *)
(* seen through attestations and consensus(), one of ClaimVote.  Staking,  *)
(* unstaking, payments and slashes never show in a verdict.                *)
THEOREM RegistryImplementsClaimVote == Spec => ImplementsClaimVote
<1>1. Init => Promise!Init
  BY DEF Init, Promise!Init, consensus, IsOpened
<1>2. TypeOK /\ RosterMatchesRecords /\ [Next]_vars => [Promise!Next]_(Promise!vars)
  <2> SUFFICES ASSUME TypeOK, RosterMatchesRecords, [Next]_vars
               PROVE  [Promise!Next]_(Promise!vars)
    OBVIOUS
  <2>1. CASE \E v \in Verifier, c \in Claim, h \in Hash : Attest(v, c, h)
    BY <2>1, AttestIsAVote DEF Promise!Next
  <2>2. CASE CloseLedger
    BY <2>2, ClosingConcludes
  <2>3. CASE UNCHANGED <<ledger, opened, attesters, att>>
    <3>1. \A d \in Claim : consensus(d)' = consensus(d)
      BY <2>3, SameRecordsSameConsensus
    <3> QED
      BY <2>3, <3>1 DEF Promise!vars
  <2> QED
    BY <2>1, <2>2, <2>3 DEF Next, vars, Stake, RequestUnstake, Withdraw, Slash, Pay
<1> QED
  BY <1>1, <1>2, TypeCorrect, RosterCorrect, PTL
  DEF Spec, ImplementsClaimVote, Promise!Spec
-----------------------------------------------------------------------------
(* Solvency. *)

\* What the contract owes, active stakes and unbonding ones.
Owed == SumFunctionOnSet([v \in Verifier |-> AtStake(v)], Verifier)

\* If only v's stake moves, what is owed moves as much.
LEMMA OneStakeMoves ==
    ASSUME TypeOK, TypeOK', NEW v \in Verifier,
           \A u \in Verifier : u # v => stake'[u] = stake[u]
    PROVE  Owed' = Owed + (AtStake(v)' - AtStake(v))
<1> DEFINE f == [u \in Verifier |-> AtStake(u)]
           g == [u \in Verifier |-> AtStake(u)']
<1>1. f \in [Verifier -> Int] /\ g \in [Verifier -> Int]
  <2>1. stake \in [Verifier -> StakeInfo] /\ stake' \in [Verifier -> StakeInfo]
    BY DEF TypeOK
  <2>2. \A u \in Verifier : AtStake(u) \in Int /\ AtStake(u)' \in Int
    BY <2>1 DEF AtStake, StakeInfo
  <2> QED
    BY <2>2
<1>2. \A u \in Verifier : u # v => g[u] = f[u]
  BY DEF AtStake
<1>3. f[v] = AtStake(v) /\ g[v] = AtStake(v)'
  OBVIOUS
<1>4. Owed = SumFunctionOnSet(f, Verifier) /\ Owed' = SumFunctionOnSet(g, Verifier)
  BY DEF Owed
<1> HIDE DEF f, g
<1>5. SumFunctionOnSet(g, Verifier) = SumFunctionOnSet(f, Verifier) + (g[v] - f[v])
  BY <1>1, <1>2, SumChangesByOne, NamesAssumption
<1> QED
  BY <1>3, <1>4, <1>5

LEMMA OwedIsNat == TypeOK => Owed \in Nat
<1> SUFFICES ASSUME TypeOK PROVE Owed \in Nat
  OBVIOUS
<1> DEFINE f == [u \in Verifier |-> AtStake(u)]
<1>1. f \in [Verifier -> Nat]
  <2>1. \A u \in Verifier : AtStake(u) \in Nat
    BY DEF TypeOK, AtStake, StakeInfo
  <2> QED
    BY <2>1
<1> HIDE DEF f
<1>2. SumFunctionOnSet(f, Verifier) \in Nat
  BY <1>1, SumIsNat, NamesAssumption
<1> QED
  BY <1>2 DEF Owed, f

LEMMA NextSolvent == TypeOK /\ TypeOK' /\ Solvent /\ [Next]_vars => Solvent'
<1> SUFFICES ASSUME TypeOK, TypeOK', balance[RegistryAddr] >= Owed, [Next]_vars
             PROVE  balance'[RegistryAddr] >= Owed'
  BY DEF Solvent, Owed
<1>0. /\ Owed \in Nat /\ balance \in [Account -> Nat] /\ RegistryAddr \in Account
      /\ Verifier \subseteq Account /\ Treasury \in Account
      /\ RegistryAddr # Treasury /\ RegistryAddr \notin Verifier
      /\ stake \in [Verifier -> StakeInfo]
  BY OwedIsNat, NamesAssumption DEF TypeOK, Account, Holder
<1>1. ASSUME NEW v \in Verifier, NEW amount \in Amount, Stake(v, amount)
      PROVE  balance'[RegistryAddr] >= Owed'
  <2>1. amount \in Int
    BY NamesAssumption
  <2>2. balance'[RegistryAddr] = balance[RegistryAddr] + amount
    BY <1>0, <1>1, <2>1 DEF Stake, transfer, spend_balance, receive_balance
  <2>3. AtStake(v)' = AtStake(v) + amount /\ \A u \in Verifier : u # v => stake'[u] = stake[u]
    BY <1>0, <1>1, <2>1 DEF Stake, AtStake, StakeInfo
  <2>4. AtStake(v) \in Nat
    BY <1>0 DEF AtStake, StakeInfo
  <2> QED
    BY <1>0, <2>1, <2>2, <2>3, <2>4, OneStakeMoves
<1>2. ASSUME NEW v \in Verifier, NEW amount \in Amount, RequestUnstake(v, amount)
      PROVE  balance'[RegistryAddr] >= Owed'
  <2>1. amount \in Int
    BY NamesAssumption
  <2>2. AtStake(v)' = AtStake(v) /\ \A u \in Verifier : u # v => stake'[u] = stake[u]
    BY <1>0, <1>2, <2>1 DEF RequestUnstake, AtStake, StakeInfo
  <2>3. AtStake(v) \in Nat /\ balance' = balance
    BY <1>0, <1>2 DEF AtStake, StakeInfo, RequestUnstake
  <2> QED
    BY <1>0, <2>2, <2>3, OneStakeMoves
<1>3. ASSUME NEW v \in Verifier, Withdraw(v)
      PROVE  balance'[RegistryAddr] >= Owed'
  <2>1. stake[v].unbonding \in Nat /\ stake[v].staked \in Nat
    BY <1>0 DEF StakeInfo
  <2>2. balance'[RegistryAddr] = balance[RegistryAddr] - stake[v].unbonding
    BY <1>0, <1>3, <2>1 DEF Withdraw, transfer, spend_balance, receive_balance
  <2>3. /\ AtStake(v)' = AtStake(v) - stake[v].unbonding
        /\ \A u \in Verifier : u # v => stake'[u] = stake[u]
    BY <1>0, <1>3, <2>1 DEF Withdraw, AtStake, StakeInfo
  <2>4. AtStake(v) \in Nat /\ balance[RegistryAddr] \in Nat
    BY <1>0, <2>1 DEF AtStake
  <2> QED
    BY <1>0, <2>1, <2>2, <2>3, <2>4, OneStakeMoves
<1>4. ASSUME NEW c \in Claim, NEW v \in Verifier, Slash(c, v)
      PROVE  balance'[RegistryAddr] >= Owed'
  <2> DEFINE amount == SlashAmount(v)
  <2>1. stake[v].unbonding \in Nat /\ stake[v].staked \in Nat
    BY <1>0 DEF StakeInfo
  <2>2. amount \in Nat /\ amount <= stake[v].staked + stake[v].unbonding
    BY <2>1, SlashIsAShare DEF SlashAmount
  <2> HIDE DEF amount
  <2>3. balance'[RegistryAddr] = balance[RegistryAddr] - amount
    BY <1>0, <1>4, <2>2 DEF Slash, burn, spend_balance, amount
  <2>4. stake'[v] = AfterSlash(stake[v], amount) /\ \A u \in Verifier : u # v => stake'[u] = stake[u]
    BY <1>0, <1>4 DEF Slash, amount
  <2>5. AtStake(v)' = AtStake(v) - amount /\ AtStake(v) \in Nat
    <3>1. Lesser(amount, stake[v].staked) \in Nat
      BY <2>1, <2>2 DEF Lesser
    <3>2. /\ AfterSlash(stake[v], amount).staked = stake[v].staked - Lesser(amount, stake[v].staked)
          /\ AfterSlash(stake[v], amount).unbonding
               = stake[v].unbonding - (amount - Lesser(amount, stake[v].staked))
      BY <1>0 DEF AfterSlash, StakeInfo
    <3> QED
      BY <2>1, <2>2, <2>4, <3>1, <3>2 DEF AtStake
  <2>6. balance[RegistryAddr] \in Nat
    BY <1>0
  <2> QED
    BY <1>0, <2>2, <2>3, <2>4, <2>5, <2>6, OneStakeMoves
<1>5. ASSUME NEW to \in Account, NEW amount \in Amount, Pay(to, amount)
      PROVE  balance'[RegistryAddr] >= Owed'
  <2>1. amount \in Int /\ amount >= 0
    BY <1>5, NamesAssumption DEF Pay, CanSpend
  <2>2. balance'[RegistryAddr] >= balance[RegistryAddr]
    BY <1>0, <1>5, <2>1 DEF Pay, transfer, spend_balance, receive_balance
  <2>3. Owed' = Owed
    BY <1>5 DEF Pay, Owed, AtStake
  <2>4. balance[RegistryAddr] \in Nat /\ balance'[RegistryAddr] \in Nat
    BY <1>0 DEF TypeOK
  <2> QED
    BY <1>0, <2>2, <2>3, <2>4
<1>6. CASE UNCHANGED <<balance, stake>>
  BY <1>6 DEF Owed, AtStake
<1> QED
  BY <1>1, <1>2, <1>3, <1>4, <1>5, <1>6 DEF Next, Attest, CloseLedger, vars

\* The contract's balance covers every stake, active and unbonding, through transfers,
\* slashes and burns, whoever pays into it (stake, withdraw, slash).
THEOREM RegistryIsSolvent == Spec => []Solvent
<1>1. Init => Solvent
  <2> SUFFICES ASSUME Init PROVE Solvent
    OBVIOUS
  <2> DEFINE f == [v \in Verifier |-> AtStake(v)]
  <2>1. f \in [Verifier -> Int] /\ \A v \in Verifier : f[v] = 0
    BY DEF Init, AtStake
  <2> HIDE DEF f
  <2>2. SumFunctionOnSet(f, Verifier) = 0
    BY <2>1, SumOfZeros, NamesAssumption
  <2>3. balance[RegistryAddr] = 0
    BY DEF Init, Account
  <2> QED
    BY <2>2, <2>3 DEF Solvent, f
<1> QED
  BY <1>1, NextSolvent, TypeCorrect, PTL DEF Spec

\* So no withdrawal and no slash is ever refused for want of tokens: what a verifier
\* has at stake is there (the transfer of withdraw, the burn of slash).
StakesArePayable == \A v \in Verifier : CanSpend(balance, RegistryAddr, AtStake(v))

\* What the contract owes one verifier it can pay, whoever else was paid before.
THEOREM StakesCanBePaid == Spec => []StakesArePayable
<1>1. TypeOK /\ Solvent => StakesArePayable
  <2> SUFFICES ASSUME TypeOK, Solvent, NEW v \in Verifier
               PROVE  CanSpend(balance, RegistryAddr, AtStake(v))
    BY DEF StakesArePayable
  <2> DEFINE f == [u \in Verifier |-> AtStake(u)]
  <2>1. f \in [Verifier -> Nat] /\ f[v] = AtStake(v)
    BY DEF TypeOK, AtStake, StakeInfo
  <2>2. balance[RegistryAddr] >= SumFunctionOnSet(f, Verifier) /\ balance[RegistryAddr] \in Nat
    BY DEF Solvent, TypeOK, Account
  <2> HIDE DEF f
  <2>3. f[v] <= SumFunctionOnSet(f, Verifier) /\ SumFunctionOnSet(f, Verifier) \in Nat
    BY <2>1, SumCovers, SumIsNat, NamesAssumption
  <2> QED
    BY <2>1, <2>2, <2>3 DEF CanSpend
<1> QED
  BY <1>1, RegistryIsSolvent, TypeCorrect, PTL
=============================================================================
