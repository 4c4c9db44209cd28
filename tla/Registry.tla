------------------------------ MODULE Registry ------------------------------
(***************************************************************************)
(* The verifier registry contract (contracts/registry/src/lib.rs) together *)
(* with the token balances it moves (contracts/vrfy-token).                *)
(*                                                                         *)
(* Soroban runs one contract call at a time and rolls a failed call back,  *)
(* so every entry point is one atomic action, an Err or a panic is a guard *)
(* that does not hold, and the concurrency is in the order in which the    *)
(* calls of different accounts and the ledger's clock interleave.          *)
(***************************************************************************)
EXTENDS Integers, Sequences, FiniteSets, Functions, Tally, TokenLedger

CONSTANTS
    Verifier,       \* accounts that stake and attest
    RegistryAddr,   \* the contract's own token account
    Treasury,       \* every other token holder; it can pay into any account
    Claim,          \* claims (wasm_hash, input_digest)
    Hash,           \* wasm hashes
    NoHash,         \* no attestation record
    WasmHash,       \* the wasm_hash of a claim
    Funds,          \* token balances the accounts start with
    Amount,         \* amounts callers pass; any integer is legal input
    MinStake, Quorum, AttestWindow, UnbondPeriod, SlashBps,    \* Config
    Horizon         \* the last ledger of the behaviours considered

\* What __constructor refuses with InvalidConfig.
ASSUME ConfigAssumption ==
    /\ MinStake \in Nat \ {0}
    /\ Quorum \in Nat /\ Quorum >= 3
    /\ AttestWindow \in Nat \ {0}
    /\ UnbondPeriod \in Nat /\ UnbondPeriod >= AttestWindow
    /\ SlashBps \in 1 .. 10000

Holder  == Verifier \cup {Treasury}
Account == Holder \cup {RegistryAddr}

ASSUME NamesAssumption ==
    /\ IsFiniteSet(Verifier)
    /\ RegistryAddr \notin Holder /\ Treasury \notin Verifier
    /\ NoHash \notin Hash
    /\ WasmHash \in [Claim -> Hash]
    /\ Funds \in [Holder -> Nat]
    /\ Amount \subseteq Int
    /\ Horizon \in Nat

VARIABLES
    ledger,      \* env.ledger().sequence()
    balance,     \* token balances
    stake,       \* DataKey::Stake: [staked, unbonding, release_ledger]
    opened,      \* DataKey::Opened: ledger of the claim's first attestation
    attesters,   \* DataKey::Attesters: in order of arrival
    att,         \* DataKey::Att: the rebuilt hash a verifier recorded
    slashed      \* DataKey::Slashed: the verifiers with a slash mark on the claim

vars == <<ledger, balance, stake, opened, attesters, att, slashed>>

Never == -1      \* no Opened entry

StakeInfo == [staked : Nat, unbonding : Nat, release_ledger : Nat]
-----------------------------------------------------------------------------
Init ==
    /\ ledger = 0
    /\ balance = [a \in Account |-> IF a = RegistryAddr THEN 0 ELSE Funds[a]]
    /\ stake = [v \in Verifier |-> [staked |-> 0, unbonding |-> 0, release_ledger |-> 0]]
    /\ opened = [c \in Claim |-> Never]
    /\ attesters = [c \in Claim |-> <<>>]
    /\ att = [c \in Claim |-> [v \in Verifier |-> NoHash]]
    /\ slashed = [c \in Claim |-> {}]

IsActive(v) == stake[v].staked >= MinStake

IsOpened(c) == opened[c] # Never

WindowOpen(c) == ledger < opened[c] + AttestWindow

Closed(c) == IsOpened(c) /\ ~WindowOpen(c)

\* Mutant: a slashed attestation no longer counts.
HashesOfUnslashed(c) ==
    LET counted == SelectSeq(attesters[c], LAMBDA v : v \notin slashed[c])
    IN  [i \in DOMAIN counted |-> att[c][counted[i]]]

\* read_attestations: the records in arrival order.  A listed attester always has
\* a record (RosterMatchesRecords), so the source's `if let Some` skips nothing.
Hashes(c) == [i \in DOMAIN attesters[c] |-> att[c][attesters[c][i]]]

\* Mutant: a strict majority is enough for green.
ConsensusByMajority(c) ==
    IF ~IsOpened(c) THEN "NoClaim"
    ELSE IF WindowOpen(c) THEN "Open"
    ELSE IF Total(Hashes(c)) < Quorum THEN "Insufficient"
    ELSE IF ~HasStrictMajority(Hashes(c)) THEN "Disputed"
    ELSE IF TopHash(Hashes(c)) = WasmHash[c] THEN "Verified" ELSE "Mismatch"

consensus(c) ==
    IF ~IsOpened(c) THEN "NoClaim"
    ELSE IF WindowOpen(c) THEN "Open"
    ELSE IF Total(Hashes(c)) < Quorum THEN "Insufficient"
    ELSE IF Distinct(Hashes(c)) # 1 THEN "Disputed"
    ELSE IF TopHash(Hashes(c)) = WasmHash[c] THEN "Verified" ELSE "Mismatch"
-----------------------------------------------------------------------------
Stake(v, amount) ==
    /\ amount > 0
    /\ CanSpend(balance, v, amount)
    /\ balance' = transfer(balance, v, RegistryAddr, amount)
    /\ stake' = [stake EXCEPT ![v].staked = @ + amount]
    /\ UNCHANGED <<ledger, opened, attesters, att, slashed>>

\* Mutant: the amount is not checked for sign.
RequestUnstakeAnyAmount(v, amount) ==
    /\ amount <= stake[v].staked
    /\ stake' = [stake EXCEPT ![v] =
                    [staked         |-> @.staked - amount,
                     unbonding      |-> @.unbonding + amount,
                     release_ledger |-> ledger + UnbondPeriod]]
    /\ UNCHANGED <<ledger, balance, opened, attesters, att, slashed>>

\* Mutant: a second request keeps the wait of the first.
RequestUnstakeKeepsWait(v, amount) ==
    /\ amount > 0
    /\ amount <= stake[v].staked
    /\ stake' = [stake EXCEPT ![v] =
                    [staked         |-> @.staked - amount,
                     unbonding      |-> @.unbonding + amount,
                     release_ledger |-> IF @.unbonding > 0 THEN @.release_ledger
                                        ELSE ledger + UnbondPeriod]]
    /\ UNCHANGED <<ledger, balance, opened, attesters, att, slashed>>

\* A second request restarts the wait of the whole unbonding balance.
RequestUnstake(v, amount) ==
    /\ amount > 0
    /\ amount <= stake[v].staked
    /\ stake' = [stake EXCEPT ![v] =
                    [staked         |-> @.staked - amount,
                     unbonding      |-> @.unbonding + amount,
                     release_ledger |-> ledger + UnbondPeriod]]
    /\ UNCHANGED <<ledger, balance, opened, attesters, att, slashed>>

Withdraw(v) ==
    /\ stake[v].unbonding > 0
    /\ ledger >= stake[v].release_ledger
    /\ CanSpend(balance, RegistryAddr, stake[v].unbonding)
    /\ stake' = [stake EXCEPT ![v].unbonding = 0]
    /\ balance' = transfer(balance, RegistryAddr, v, stake[v].unbonding)
    /\ UNCHANGED <<ledger, opened, attesters, att, slashed>>

RecordAttestation(v, c, rebuilt_hash) ==
    /\ att' = [att EXCEPT ![c][v] = rebuilt_hash]
    /\ attesters' = [attesters EXCEPT ![c] = Append(@, v)]

\* The first attestation opens the window.  Horizon: a claim is opened only if
\* its window can close within the ledgers considered.
OpenClaim(c) ==
    /\ ~IsOpened(c)
    /\ ledger + AttestWindow <= Horizon
    /\ opened' = [opened EXCEPT ![c] = ledger]

\* Mutant: the window is not checked.
AttestAfterClose(v, c, rebuilt_hash) ==
    /\ IsActive(v)
    /\ (IsOpened(c) /\ UNCHANGED opened) \/ OpenClaim(c)
    /\ att[c][v] = NoHash
    /\ RecordAttestation(v, c, rebuilt_hash)
    /\ UNCHANGED <<ledger, balance, stake, slashed>>

Attest(v, c, rebuilt_hash) ==
    /\ IsActive(v)
    /\ (IsOpened(c) /\ WindowOpen(c) /\ UNCHANGED opened) \/ OpenClaim(c)
    /\ att[c][v] = NoHash
    /\ RecordAttestation(v, c, rebuilt_hash)
    /\ UNCHANGED <<ledger, balance, stake, slashed>>

SlashAmount(v) == ((stake[v].staked + stake[v].unbonding) * SlashBps) \div 10000

Lesser(a, b) == IF a <= b THEN a ELSE b

\* Mutant: what the active stake does not cover is burned but stays in the queue.
AfterSlashActiveOnly(info, amount) ==
    [info EXCEPT !.staked = @ - Lesser(amount, info.staked)]

\* Active stake first, the unbonding queue for the remainder.
AfterSlash(info, amount) ==
    LET from_staked == Lesser(amount, info.staked) IN
    [info EXCEPT !.staked = @ - from_staked, !.unbonding = @ - (amount - from_staked)]

\* Mutant: decided as soon as there is a quorum and a majority.
DecidedBeforeClose(c) ==
    /\ IsOpened(c)
    /\ Total(Hashes(c)) >= Quorum
    /\ HasStrictMajority(Hashes(c))

\* The claim has a majority to punish by: ClaimNotDecided otherwise.
Decided(c) ==
    /\ Closed(c)
    /\ Total(Hashes(c)) >= Quorum
    /\ HasStrictMajority(Hashes(c))

Dissents(c, v) == att[c][v] # NoHash /\ att[c][v] # TopHash(Hashes(c))

\* Mutant: the slash mark is written but not read.
SlashAgain(c, v) ==
    /\ Decided(c)
    /\ Dissents(c, v)
    /\ SlashAmount(v) > 0
    /\ stake' = [stake EXCEPT ![v] = AfterSlash(@, SlashAmount(v))]
    /\ slashed' = [slashed EXCEPT ![c] = @ \cup {v}]
    /\ CanSpend(balance, RegistryAddr, SlashAmount(v))
    /\ balance' = burn(balance, RegistryAddr, SlashAmount(v))
    /\ UNCHANGED <<ledger, opened, attesters, att>>

\* Callable by anyone.
Slash(c, v) ==
    /\ Decided(c)
    /\ Dissents(c, v)
    /\ v \notin slashed[c]
    /\ SlashAmount(v) > 0
    /\ stake' = [stake EXCEPT ![v] = AfterSlash(@, SlashAmount(v))]
    /\ slashed' = [slashed EXCEPT ![c] = @ \cup {v}]
    /\ CanSpend(balance, RegistryAddr, SlashAmount(v))
    /\ balance' = burn(balance, RegistryAddr, SlashAmount(v))
    /\ UNCHANGED <<ledger, opened, attesters, att>>

\* A token transfer that does not go through the registry: the token lets anyone
\* pay into any account, the registry's included.
Pay(to, amount) ==
    /\ CanSpend(balance, Treasury, amount)
    /\ balance' = transfer(balance, Treasury, to, amount)
    /\ UNCHANGED <<ledger, stake, opened, attesters, att, slashed>>

\* The network closes ledgers whether or not anyone calls the contract.
CloseLedger ==
    /\ ledger < Horizon
    /\ ledger' = ledger + 1
    /\ UNCHANGED <<balance, stake, opened, attesters, att, slashed>>

Next ==
    \/ \E v \in Verifier, amount \in Amount : Stake(v, amount) \/ RequestUnstake(v, amount)
    \/ \E v \in Verifier : Withdraw(v)
    \/ \E v \in Verifier, c \in Claim, h \in Hash : Attest(v, c, h)
    \/ \E c \in Claim, v \in Verifier : Slash(c, v)
    \/ \E to \in Account, amount \in Amount : Pay(to, amount)
    \/ CloseLedger

Spec == Init /\ [][Next]_vars
-----------------------------------------------------------------------------
Final == {"Insufficient", "Verified", "Mismatch", "Disputed"}

AtStake(v) == stake[v].staked + stake[v].unbonding

Voters(c) == {v \in Verifier : att[c][v] # NoHash}

\* No stake in the contract is negative and every record is of its type: a slash
\* never takes more than there is, a negative amount never passes the guards.
TypeOK ==
    /\ ledger \in 0 .. Horizon
    /\ balance \in [Account -> Nat]
    /\ stake \in [Verifier -> StakeInfo]
    /\ opened \in [Claim -> Nat \cup {Never}]
    /\ attesters \in [Claim -> Seq(Verifier)]
    /\ att \in [Claim -> [Verifier -> Hash \cup {NoHash}]]
    /\ slashed \in [Claim -> SUBSET Verifier]

\* The attester list of a claim names exactly the verifiers with a record, each
\* once, and a claim is open or closed exactly if somebody attested it: tally_of
\* counts every attestation and none twice (attest, read_attestations).
RosterMatchesRecords ==
    \A c \in Claim :
        /\ \A i, j \in DOMAIN attesters[c] : attesters[c][i] = attesters[c][j] => i = j
        /\ {attesters[c][i] : i \in DOMAIN attesters[c]} = Voters(c)
        /\ IsOpened(c) <=> Voters(c) # {}

\* The contract can always pay what it owes: its token balance covers every
\* stake, active or unbonding, through transfers, slashes and burns, so the
\* CanSpend of Withdraw and Slash never fails (stake, withdraw, slash).
Solvent ==
    balance[RegistryAddr] >= SumFunctionOnSet([v \in Verifier |-> AtStake(v)], Verifier)

\* A verdict, once given, is final: no call and no later ledger changes what
\* consensus() answers for a closed claim, and a slash turns nothing green
\* (consensus, attest's WindowClosed, design note 6).
VerdictIsFinal ==
    [][ \A c \in Claim : consensus(c) \in Final => consensus(c)' = consensus(c) ]_vars

\* Only unanimity is green: a Verified claim has a quorum of records, all of
\* them the on-chain hash, and one dissent on record excludes Verified and
\* Mismatch both (consensus).
GreenIsUnanimous ==
    \A c \in Claim :
        /\ consensus(c) = "Verified" =>
              /\ Cardinality(Voters(c)) >= Quorum
              /\ \A v \in Voters(c) : att[c][v] = WasmHash[c]
        /\ consensus(c) = "Mismatch" =>
              \E h \in Hash \ {WasmHash[c]} : \A v \in Voters(c) : att[c][v] = h

\* Whoever is slashed on a claim was outvoted: the claim is closed and disputed,
\* more verifiers hold one other hash than are slashed or stood with it, and the
\* majority's members are never marked (slash).
SlashedWereOutvoted ==
    \A c \in Claim : slashed[c] # {} =>
        /\ consensus(c) = "Disputed"
        /\ 2 * Cardinality(slashed[c]) < Cardinality(Voters(c))
        /\ \E h \in Hash :
              /\ 2 * Cardinality({v \in Verifier : att[c][v] = h}) > Cardinality(Voters(c))
              /\ \A v \in slashed[c] : att[c][v] # h

\* A verifier's tokens, in its account or in the contract, shrink only in a step
\* that slashes it, and then by no more than slash_bps of its stake.
Wealth(v) == balance[v] + AtStake(v)

OnlyASlashCosts ==
    [][ \A v \in Verifier : Wealth(v)' < Wealth(v) =>
            /\ \E c \in Claim : v \in slashed'[c] \ slashed[c]
            /\ 10000 * (Wealth(v) - Wealth(v)') <= SlashBps * AtStake(v) ]_vars

\* Until unbond_period ledgers after a claim opened, everyone who attested it and
\* has not been slashed since has at least min_stake that a slash can reach,
\* whatever it unstaked and withdrew before or after attesting (request_unstake,
\* withdraw, attest).
AttesterStaysAtRisk ==
    \A c \in Claim, v \in Verifier :
        (/\ att[c][v] # NoHash
         /\ ledger < opened[c] + UnbondPeriod
         /\ \A d \in Claim : v \notin slashed[d])
        => AtStake(v) >= MinStake

\* What the constructor's comment and design note 5 say the constraint
\* unbond_period >= attest_window is for: in the first ledger in which a claim
\* can be slashed on, the stake of a dissenter not yet slashed is still there.
DissenterCanBeSlashed ==
    \A c \in Claim, v \in Verifier :
        (/\ ledger = opened[c] + AttestWindow
         /\ Decided(c) /\ Dissents(c, v)
         /\ \A d \in Claim : v \notin slashed[d])
        => SlashAmount(v) > 0
=============================================================================
