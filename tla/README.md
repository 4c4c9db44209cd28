# Sorofy in TLA+

Sorofy rebuilds a Soroban contract from its published source, compares the
rebuilt WASM with the bytes on chain, and lets several staked verifiers record
what they found in a registry contract. This directory holds TLA+ models of the
parts of that system whose correctness depends on the *order* in which things
happen, TLC configurations that check them on small instances, and TLAPS proofs
of every safety property that the passing runs check. Source paths below are
relative to the repository; `PROJECT.json` gives, for every definition, the lines it
models.

    tlc -workers 2 -config JobService.cfg JobService             # one run
    tlapm RegistryProofs.tla; tlapm JobServiceProofs.tla         # proofs

## 1. The system

| Component | State it keeps | Operations | Talks to |
|---|---|---|---|
| **Registry contract** `contracts/registry/src/lib.rs` | per verifier: staked, unbonding, release ledger; per claim: ledger of opening, list of attesters, one record per attester, slash marks | `__constructor`, `stake`, `request_unstake`, `withdraw`, `attest`, `slash`; reads `consensus`, `is_active` | token (transfer, burn), ledger clock |
| **VRFY token** `contracts/vrfy-token` | balances, allowances with an expiry ledger, admin | mint, set_admin, approve, transfer(_from), burn(_from) | registry and any account |
| **Job service** `crates/api/src/server.rs`, `main.rs` | admission permits, build slots, gauges, one task per job | `POST /verify` -> admission -> `run_job`; startup sweep; shutdown | database, reproduction engine, outbox |
| **Result cache** `crates/api/src/db.rs` | SQLite: `verifications`, `attestations`, schema version | insert_pending, complete, fail, lookup, list, backup, migrations | job service, outbox |
| **Attestation outbox** `crates/api/src/attest.rs` | rows pending / submitted / rejected with attempts and retry time; a stored wake-up | `enqueue`, one worker loop, one child process per attempt | database, `stellar` CLI, registry |
| **Rate limiter** `server.rs` | a token bucket per client, capped in number | take a token, evict refilled buckets | HTTP layer |
| **Reproduction engine** `crates/verifier-core/src/reproduce.rs`, `docker.rs` | staging directory, volumes, containers | fetch, dependency phase, sealed build, extraction, comparison | Docker |
| **Source acquisition** `source.rs` | staged tree | download with redirects, unpack, normalise | network |
| **Claim digest** `claim.rs` (twice), `web/gate/lib/claim.js` | none | length-prefixed encoding and hash | registry, API, gate |
| **Payment gate** `web/gate` | selected target, wallet, the verdict on display | look up code and consensus, decide, recheck, build, sign, send | RPC, registry, wallet |
| **Explorer page** `crates/api/static/app.js` | the offset of the page shown | list, older, newer | HTTP surface |
| **On-chain lookup** `rpc.rs`, **HTTP surface**, **anchor and wallet flow**, **CLI**, **deployment** | none of their own | reads, rendering, scripts | - |

What makes each correct, and what makes that hard:

* *Registry.* A green verdict is unanimous and final; what the contract owes is
  covered by its balance; nobody who voted can take the stake away before it can
  be slashed; nobody but an outvoted verifier is ever slashed. Hard: calls of
  many accounts interleave with the ledger clock, thresholds sit on boundary
  ledgers, and one stake backs votes on many claims.
* *Token.* Supply is what was issued; an approval is a budget that ends. Hard:
  transfers to oneself, amounts near the width of an `i128`, approvals replaced
  half-way, expired entries that are still stored.
* *Outbox.* A decided row is true of the ledger, stays, and every queued row is
  decided. Hard: crashes between commits, children killed with a transaction
  under way, writes that fail after the fact they record, a wake-up that races
  the worker's query.
* *Job service and cache.* Every permit is held by something alive, every row
  that reads *pending* has an owner, answers are never taken back, every job
  ends, and a binary serves only the schema it knows. Hard: handlers dropped
  where they await, blocking threads that outlive them, signals and kills
  between any two steps, a sweep that must come before the first request.
* *Rate limiter.* Nobody gets more than burst plus refill, and nobody's requests
  change what another is left with. Hard: the clock is read outside the lock, and
  at the cap buckets are dropped to make room.
* *Engine and source.* A verdict is of a build that ran to its end, jobs share
  nothing, nothing is left behind, a build and a chain of redirects end; the tree built is the tree
  published and the file compared is the one deployed. Hard: a failure at any of
  a dozen docker calls, guards whose order matters, a timeout that races the end
  of a build, containers that outlive the process.
* *Claim digest.* One digest, one question, in the service and in the contract.
* *Gate.* Money goes only into a pool whose bytes, read after the click, have a
  final green verdict. Hard: every read is an await in which the user, the
  registry and the contract move.

## 2. Modules

| Module | Models | Used by |
|---|---|---|
| `Tally` | `tally_of` and what `consensus` and `slash` read from it, declaratively | Registry, TallyLoop |
| `TallyLoop` | the two nested loops of `tally_of` on a growing list | run `algorithms` |
| `TokenLedger` | the token's `transfer` and `burn` as the registry calls them | Registry |
| `Registry` | the registry contract, its calls interleaved with the ledger clock and outside payments | RegistryRefinement, RegistryProofs |
| `ClaimVote` | abstract: what a consumer of verdicts is promised | RegistryRefinement |
| `RegistryRefinement` | the mapping under which Registry implements ClaimVote | run `verdicts`, RegistryProofs |
| `RegistryProofs` | theorems about stakes, solvency, rosters, the meaning and finality of verdicts, and the refinement of ClaimVote | TLAPS |
| `VrfyToken` | the whole token contract | run `token`, VrfyTokenProofs |
| `VrfyTokenProofs` | theorems about supply, types and allowances | TLAPS |
| `Outbox` | the tail of `run_job`, the two tables, the worker, its child, crash and restart, the registry's answers | runs `outbox*`, OutboxProofs |
| `OutboxProofs` | theorems about records, decided rows and wake-ups | TLAPS |
| `RateLimiter` | the token buckets, with readings applied out of order | run `limiter`, RateLimiterProofs |
| `RateLimiterProofs` | the rate bound, isolation of callers, Retry-After | TLAPS |
| `ResultCache` | the `verifications` table and the migrations, as operators | JobService, Paging |
| `JobService` | start-up, `POST /verify`, `run_job`, shutdown, kill and restart | run `service`, JobServiceProofs |
| `JobServiceProofs` | theorems about permits, the gauge, rows, answers and the schema | TLAPS |
| `Reproduce` | `reproduce()`, source acquisition and the docker daemon | runs `engine`, `engine_restart`, ReproduceProofs |
| `ReproduceProofs` | theorems about verdicts, guards and volumes | TLAPS |
| `Artifact`, `Staging`, `ClaimDigest` | the choice of the artifact, the re-rooting of an archive, the layout under a digest | run `algorithms`, AlgorithmProofs |
| `Paging` | the list of results and a client that walks it | run `algorithms`, AlgorithmProofs |
| `Gate` | the payment gate's page against a moving network | run `algorithms`, AlgorithmProofs |
| `AlgorithmProofs` | theorems about the gate, the walk, the counting loops, the digest, the artifact and the staged tree | TLAPS |
| `FoldTheorems` | lemmas about folds and sums over finite sets, and the induction they rest on | RegistryProofs, VrfyTokenProofs, AlgorithmProofs |
| `MCRegistry`, `MCRegistryRefinement`, `MCVrfyToken`, `MCOutbox`, `MCRateLimiter`, `MCAlgorithms` | instances for TLC | runs |

Definitions called *mutant* in a comment are plausible bugs; each is used only by
the mutation test of a property, which must then fail.

### Registry

A Soroban call is atomic and rolled back on error, so every entry point is one
action; an `Err`, a panic of the token or a failed authorisation is a guard that
does not hold. Variables correspond to the `DataKey` entries: `stake`
(`Stake`), `opened` (`Opened`), `attesters` (`Attesters`), `att` (`Att`),
`slashed` (`Slashed`), plus the token's `balance` and the ledger number. A
missing `Opened` entry is `Never`, a missing record is `NoHash`. A claim
`(wasm_hash, input_digest)` is a model value with its hash in `WasmHash`.
`Amount` is any set of integers, negative ones included: they are legal input and
must be refused.

`Pay` is a token transfer that does not go through the registry. `Treasury`
stands for every other holder. `CloseLedger` is the network.

Left out: events; TTL extension and archival (an archived entry has to be
restored before the call can run, so every call the model takes sees the entries
it wrote); overflow (`overflow-checks` makes it a trap, i.e. a refused call, and
balances are bounded by a supply that fits an `i128`).

### ClaimVote

Verifiers cast at most one vote on a claim while it is open; an open claim is
concluded once, by counting heads of *all* the votes; a conclusion stands. There
are no stakes, ledgers, attester lists or slashes in it. The mapping sends `att`
to the votes and `consensus(c)`, which the code computes from the ledger number,
the list and the tally, to the status.

### VrfyToken

One action per operation, with the reads and writes of `transfer` in the code's
order (the receiver's balance is read after the sender's was written). Balances
are capped at `MaxI128`, the stand-in for 2^127 - 1. `approved` and `drawn` are
history: what the current approval granted and what has been drawn from it.

### Outbox

`task[j]` is the program counter of `run_job` after the build, `worker` that of
the worker loop: *scan* (the query for a due row), *scheduling* (the query for
the next retry time), *to sleep* / *to idle* (between that query and the first
poll of `select!`), *asleep* / *idle*, *submitting*. `permit` is tokio's
`Notify`. A row's `tx` says whether it names a transaction: a child that succeeds may
print no hash (`attest.rs:250-258`). `cli` is the child process: started, transaction sent, landed, or the
error the registry gave. `late` are transactions of children that were killed or
died with the service. Every database write that the code allows to fail fails
in one branch of its action. The registry is reduced to the answer of
`attest()`, with its checks in the contract's order; it is an environment here
and a component in `Registry`. `history` has the counters of the bounds and `lapsed`,
the jobs in whose last attempt the verifier was below its minimum at some moment,
unless the attempt ended in something else.

Left out: the seconds of a backoff (a row is due or not yet due), key file and
keystore set-up, redaction and parsing of the CLI's text. *verified* and
*mismatch* are one outcome since both are attested.

### RateLimiter

`ReadClock` is `check` up to the lock, `CheckAt` is `check_at` under it, so the
readings of two handlers can be applied in either order. Tokens are counted in
ticks of refill: a bucket gains one per tick and a request costs `TOKEN` of them,
which keeps the fractions of the code's `f64` arithmetic (its rounding is left
out). `spent`, `basis`, `skew` and `retryAt` are history. `skew` adds up by how
much a caller's readings were applied out of order: `last` then moves back, and
the time between the two readings refills twice. That is the only way in which
the code gives more than the textbook bound, and `RateIsBounded` says exactly so.

### ResultCache and JobService

The table is a sequence indexed by row id. A request is a handler up to
`tokio::spawn` and a task from then on; `stage` is its program counter, and each
touch of a semaphore, the database or a counter is an action, because handlers
and tasks run on several threads. Futures can be dropped only at an await:
`Disconnect` drops a handler in its lookup, `Stop` drops what awaits when the
runtime goes, and `blocking` holds the threads that go on regardless. `Term`,
`Stop` and `Exit` are the graceful shutdown, `Kill` is everything else.

`Boot` starts one of `Builds`, a binary that knows the first one or the first two
migrations, over the database the last process left: fresh, unversioned with the
first table, current, half migrated or newer. A failed write is a `Fault`; the
job it belongs to is in `lost`.

### Reproduce

`pc` is the line of `reproduce()` a job is at; every docker call is an action that
may fail, and a failure unwinds through the guards in the order in which Rust
drops them (container, then volume; the scratch directory ends with the clone).
`TimesOut` is `wait_timeout` and the killing of the CLI, `KillContainer` the
`docker kill` after it, which may fail unnoticed or hang.
`volumes`, `users`, `container` and `stale` belong to the daemon, which refuses to
remove a mounted volume and outlives the process. `Kill` runs no guard.
`unique_token` is the pid and the counter, and `PidReused` says whether the next
process has the same pid, as PID 1 of a container has.

An archive fetch is one pass of the redirect loop per step. A URL is its scheme
and what its host resolves to, all that `guard_public_url` looks at.

### Artifact, Staging, ClaimDigest, Paging

The first three are pure functions; their state is an input that grows, and the
invariant compares what the function returns with what it is for. `Artifact`
reads the files of a release directory in any order; its candidates are the set of their
positions in the tar. `Staging` works on paths as
sequences of components with files, hard links, symbolic links and pax headers; what is
staged is indexed by the position of the entry in the archive, which keeps the order.
`ClaimDigest` writes a length as one symbol from the alphabet of the options
themselves, so that a missing prefix would show; sha256 is taken as injective.
`Paging` reads a page and the total in two queries, as the handler does, while
rows are inserted and finished.

### Gate

`call` holds what one click of *Check* or *Supply* has read so far; each RPC is a
step, and between any two of them the target may change, a claim may open or be
concluded and a contract may be upgraded. The registry behaves as `ClaimVote`
says. `ran` is history: the bytes each contract ran since the click. The asset
and the amount, which only disable the button or fail the transaction, are left
out.

## 3. Runs

| Run | Module, cfg | Checks | Shows |
|---|---|---|---|
| `staking` | MCRegistry, Staking | `TypeOK`, `Solvent`, `AttesterStaysAtRisk` | stakes are covered and stay within reach of a slash, whatever is unstaked when, with payments from outside |
| `verdicts` | MCRegistryRefinement, Verdicts | `GreenIsUnanimous`, `SlashedWereOutvoted`, `VerdictIsFinal`, `OnlyASlashCosts`, `ImplementsClaimVote` | four votes, so ties and bare majorities: green is unanimous, verdicts stand, only the outvoted pay; a consumer sees votes and conclusions only |
| `escape` (violation) | MCRegistry, Escape | `DissenterCanBeSlashed` | section 6, finding 1 |
| `token` | MCVrfyToken | `TypeOK`, `SupplyIsIssued`, `ApprovalIsABudget`, `NothingDrawnAfterExpiry` | the token's books |
| `outbox` | MCOutbox | `TypeOK`, `RecordsAreTrue`, `NoSleepOnNewWork`, `DecidedRowsStay` | two jobs on one claim under failures, a crash and a stake that falls and recovers |
| `outbox_crashes` | MCOutbox, Fair | `EveryRowIsDecided` | one job, repeated crashes, an unreachable chain |
| `outbox_refusals` (violation) | MCOutbox, Refusals | `RefusalsLast` | finding 2: one job, three attempts, no crash |
| `limiter` | MCRateLimiter | `TypeOK`, `RateIsBounded`, `RetryAfterIsEnough`, `OthersAreUntouched` | the rate holds at the cap and with readings out of order; Retry-After can be relied on |
| `service` | JobService | `TypeOK`, `PermitsAccounted`, `GaugeBalances`, `PendingIsLive`, `JobsKeepTheirRows`, `ServesItsSchema`, `AnswersStand`, `EveryJobEnds` | three requests through two permits and one build slot, with two faults and two binaries |
| `engine` | Reproduce | `TypeOK`, `VerdictsAreOfWholeBuilds`, `NothingIsLeftBehind`, `VolumesArePerJob`, `WaitsAndRedirectsEnd` | two jobs at once, a failing docker call anywhere, a kill, hanging builds; pids differ |
| `engine_restart` (violation) | Reproduce, Restart | `VolumesArePerJob` | the same pid again: finding 3 |
| `algorithms` | MCAlgorithms | `LoopMatchesTally`, `DigestNamesTheQuestion`, `TheDeployedIsSelected`, `StagedTreeIsTheSource`, `WalkSeesEveryRow`, `DepositsFollowTheGate` | the four algorithms on all inputs up to a bound, and the two browser pages; they share nothing, so one moves at a time |

`CHECK_DEADLOCK FALSE` everywhere: contracts are passive, an outbox with nothing
to do and its bounds used up is at rest, a service whose requests have all been
answered and whose faults are used up has nothing to do, an input that has
reached its bound grows no further, and the clocks stop at `Horizon` or `MaxTime`.

## 4. Bounds

* `Horizon`: the last ledger considered. In `staking` it is 2 with a window of 1
  and an unbonding wait of 2: claims open in ledger 0 or 1, requests come before
  and after the attestation, a first withdrawal is possible in ledger 2, while the
  period of a claim opened in ledger 1 still runs, and slashes come before and
  after it. `OpenClaim` opens a claim only if its window can close within the
  horizon, so no claim is left open by the bound. The proofs have no such bound.
* Verifiers: three is the smallest number with a quorum (the constructor demands
  at least 3) and with a majority of 2 to 1; four adds ties and a dissent that
  leaves a quorum of others. One claim: the theorems cover any number of claims that
  share a stake. `Hash`: two, the on-chain hash and another. Three for the tally, with up to `MaxAtts` = 6 attestations, so that there are ties between
  leaders and orders of arrival in which the leader changes.
* `Amount` = {-1, 1, 2} with 2 tokens each and `MinStake` 1: partial stakes,
  partial unstakes in two requests, a refused amount. `{-1, MinStake}` where
  partial amounts do not matter. `SlashBps` = 5000 takes half, rounded down, so
  a stake of 1 is worth nothing to slash and a stake of 3 loses 1.
* `MaxI128` = 2 with amounts up to 2: a mint, a transfer and the sum of supply
  meet the limit. `Spender` restricts who is approved, nothing else.
* `MAX_ATTEMPTS` = 2 or 3 (the code: 10): a first, a middle and a last attempt.
  `MaxCrashes` 1 or 2 (0 for finding 2), `MaxStakeMoves` 2: a verifier that falls below
  the minimum and recovers.
* Limiter: `MAX_TRACKED_CLIENTS` = 1 with two keys, so that every change of caller
  meets the cap; a burst of two requests; seconds of two ticks, so that a wait can be
  half a second; two callers inside `check` at once; five instants.
* Service: three requests, two permits, one slot: one request is refused for want
  of a permit, one job waits for another's build. `MaxFaults` = 2 allows a failed
  write and a kill, or a kill in the start-up after a kill.
* Engine: two jobs and two slots; `MAX_REDIRECTS` = 1 has a first, a last and a
  refused hop; one failing call and one kill, each at any point.
* Algorithms: options of up to two symbols, two of them, on both sides; two crates;
  archives of three entries over six paths (nested, climbing, absolute, of another
  top directory); pages of two over five rows. The gate: two contracts, one a pool;
  two binaries; two claims for the one that is attested, one of them configured; two
  upgrades, so that a contract can change and change back; one call at a time. Two
  calls share only the panel's verdict, which the deposit does not use beyond
  enabling the button.

Symmetry over verifiers, over keys and callers of the limiter, and over the jobs of
`outbox` is used for safety runs only.

## 5. Fairness

* `Outbox`: the worker's own steps are weakly fair (the runtime polls the task and
  timers fire). `TakeDue` and `OutcomeWritten` are strongly fair: `INVOKE_TIMEOUT`
  ends every attempt, and a query or an update may fail often but not every
  single time; without that a database that never works again decides nothing.
  `BackoffElapses` (time passes) and `Restart` (the supervisor of the container)
  are weakly fair. Nothing is assumed of the chain, the child or the jobs.
* `JobService`: start-up and shutdown proceed (the orchestrator restarts the
  container), and each request's handler, task and blocking thread is scheduled and
  its calls return. That a *reproduction* returns is an assumption about the world, not
  something the code ensures: a git server or an archive server that stalls, or a
  docker call that hangs, holds its job and its build slot for as long as it likes, and
  `EveryJobEnds` says nothing of that case. Clients, new requests and faults owe
  nothing. Weak fairness is enough: a task that waits for the one build slot is served
  because the requests ahead of it are finitely many.
* `Reproduce`: `wait_timeout` fires (`docker.rs:405-407`), and nothing else is assumed. A
  container need never exit, a download, a clone or a docker call need never return.
  So `WaitsAndRedirectsEnd` claims only what the code bounds: the wait for a
  container ends, and a chain of redirects ends *if* each GET is answered, which is the
  hypothesis of its second half.

## 6. Findings

1. `escape`. The constructor accepts `unbond_period = attest_window`. A claim can
   be slashed on from ledger `opened + attest_window`; stake requested back in the
   ledger of the attestation is released in that same ledger, so a withdraw
   ordered before the slash leaves nothing to burn. The comment at
   `lib.rs:188-189` and design section 5 give that inequality as what keeps the
   stake until the claim can be slashed on; what it guarantees is one ledger less
   (`AttesterStaysAtRisk`, proved). The deployed parameters are 60 and 120.
2. `outbox_refusals`. `classify` (`attest.rs:415-420`) files contract error #2, the
   verifier is not active, as permanent, and the row is rejected and never retried. In
   the trace the stake falls below the minimum before the child's simulation and is topped
   up after the refusal was recorded: the row stays *rejected* while the claim is
   unattested, its window is open and the same call would be accepted. `db.rs:80-82` says
   of the three states that "either we have not landed a transaction yet, or we have one
   and can name it, or the registry refused in a way that will not change on a retry";
   `attest.rs:408-409` says that "the same bytes against the same state will get the same
   answer", and here the state is another. The comment at `attest.rs:415-416` knows that an operator
   can change it. Refusals #3 and #4 do last, and giving up is documented at
   `db.rs:90`: neither violates the property.
3. `engine_restart`. Scratch directories and volumes are named by pid and a counter
   (`source.rs:57`). The deployed service is PID 1 of its container, restarted by
   docker after a kill; both then start again, `docker volume create` accepts the
   name that exists, and the new job builds in the orphan's `CARGO_HOME`, possibly
   while the orphan's container still writes to it. `docs/security.md:71` calls the
   volume per-job, and `source.rs:54-56` says that two jobs sharing one would corrupt
   each other's build. With pids that differ (`engine`) volumes are per job.

A crash between the two commits of a finished job (result, outbox row) leaves the
result without an attestation, and nothing looks for it later. No document
promises otherwise, so it is not a finding. Neither are these, which are documented, or
of which nothing is promised; no property covers them:

* an attempt whose reply is lost is retried, and if its transaction landed after all the
  row ends *rejected*, as already attested (`attest.rs:425-429`) or as given up
  (`db.rs:90`); a *submitted* row may name no transaction (`attest.rs:250-258`);
* an attestation is queued although storing its result failed (`server.rs:811`);
* rows repeat from page to page while new ones arrive (`db.rs:384`);
* a check that is answered after the target was changed enables *Supply* for the new
  one (`app.js:132`); the deposit reads the gate anew, so it costs nothing;
* the pool is upgraded between the recheck and the ledger, while the wallet asks for a
  signature (`protocol.js:106`); the page cannot close that gap;
* an RPC error while waiting for a transaction is shown as a failed deposit though it
  may land (`protocol.js:124`);
* a lookup thread outlives the permit of the request that hung up (`server.rs:644`);
* the tag of an unpinned image moves between the build and the reading of its digest
  (`reproduce.rs:260`);
* downloads, clones and docker calls other than the build have no timeout
  (`source.rs:122`);
* stored entries of the contracts are archived when their lifetime ends, and sums of
  ledger numbers are `u32` (a trap, never a wrap).

## 7. Proofs

Every invariant and action property of a passing run is a theorem, for every value
of the constants the assumptions admit; TLC evaluates the assumptions in the runs.
Each proof starts from an inductive invariant, which TLC checked on the module's
instance first.

### Registry (`RegistryProofs`)

For every finite set of verifiers, all claims, hashes, amounts, fundings and horizons,
and every configuration the constructor accepts (`ConfigAssumption`,
`NamesAssumption`):

| Theorem | Statement | Argument |
|---|---|---|
| `TypeCorrect` | `Spec => []TypeOK` | one step per entry point; the two lemmas that carry it say that a slash takes at least 0 and at most what is staked (`SlashIsAShare`, floor division by 10000 with `SlashBps <= 10000`) and that a transfer, to oneself included, keeps balances natural (`TransferType`) |
| `RosterCorrect` | `Spec => []RosterMatchesRecords` | inductive together with `TypeOK`; only `attest` writes the three entries, and it writes all of them |
| `VerdictsAreFinal` | `Spec => VerdictIsFinal` | on a closed claim `attest` is refused and everything else leaves list, records and opening alone (`ClosedClaimsAreFrozen`), so the tally of the next state is the tally of this one; the ledger only grows, so a closed claim stays closed |
| `AttesterIsAtRisk` | `Spec => []AttesterStaysAtRisk` | from `RiskInv` (below) and `TypeOK` |
| `SlashIsTheOnlyCost` | `Spec => OnlyASlashCosts` | one step per entry point: staking and unstaking move tokens between two places that both count, a payment cannot take from a verifier, a slash is a share |
| `GreenMeansUnanimous` | `Spec => []GreenIsUnanimous` | the roster makes the attester list a bijection from positions to voters (`VotersAreCounted`); one distinct hash then is unanimity, and `top` is that hash (`DistinctMeansUnanimous`) |
| `OnlyTheOutvotedAreSlashed` | `Spec => []SlashedWereOutvoted` | the inductive form is `PunishedDissent`: whoever has a slash mark dissents on a decided claim, now; a strict majority and its dissenters are disjoint sets of voters (`DissentersAreOutvoted`) |
| `RegistryIsSolvent` | `Spec => []Solvent` | what is owed changes by as much as the one stake that moves (`OneStakeMoves`), and the balance by at least as much |
| `StakesCanBePaid` | `Spec => []StakesArePayable` | one stake is at most the sum (`SumCovers`), so `withdraw` and `slash` never fail for want of tokens |
| `RegistryImplementsClaimVote` | `Spec => ImplementsClaimVote` | the verdict drawn from the list's tally is the head count's (`VerdictIsJudgement`); an attestation is a `Cast`, a closing ledger is a `Conclude` of the claims whose window it ends, or nothing, and every other step leaves votes and verdicts alone |

`AttesterStaysAtRisk` says that staked + unbonding is at least `min_stake`, but a
state in which part of that is an unbonding balance about to be released
satisfies it and a withdrawal then breaks it. `RiskInv` counts the unbonding
balance only if its release ledger is not before `opened[c] + UnbondPeriod`
(`HeldFor`). That is preserved because every request restarts the wait of the
whole entry at `ledger + UnbondPeriod`, and a claim is never opened in the future
(the first conjunct of `RiskInv`); a withdrawal can only take a released entry,
which was not counted; an attestation needs an active stake, all of which counts.

`SlashedWereOutvoted` counts voters; to preserve it one has to know that those
counted are the dissenters of a claim whose records no longer change.
`PunishedDissent` says that and is inductive by `ClosedClaimsAreFrozen`.

### Token (`VrfyTokenProofs`)

For every finite set of accounts and every width of the integers. Of the amounts it
is assumed that a caller can pass them, i.e. that they fit the width.

| Theorem | Statement | Argument |
|---|---|---|
| `SupplyIsConserved` | `Spec => []SupplyIsIssued` | a mint and a burn change one term of the sum, a transfer two, one after the other (`SumChangesByOne`), to oneself included |
| `TokenTypeCorrect` | `Spec => []TypeOK` | no guard of a burn looks at what was issued: that it stays natural needs `SupplyIsIssued` |
| `AllowancesAreBudgets` | `Spec => []ApprovalIsABudget` | a draw moves its amount from what is left to what was drawn |
| `ExpiredIsSpent` | `Spec => NothingDrawnAfterExpiry` | a draw reads 0 past the expiry of the entry, which is the expiry that was approved (`SameExpiry`, a conjunct of `TokenInv`) |

### Outbox (`OutboxProofs`)

For any jobs, claims and number of attempts, crashes and stake moves.

| Theorem | Statement | Argument |
|---|---|---|
| `OutboxTypeCorrect` | `Spec => []TypeOK` | not inductive: the worker's end of an attempt writes the row `cur` names. `RowInv` adds that it has a row in hand exactly while it submits, and that the row is pending (`InHand`) |
| `OutboxRecordsTheTruth` | `Spec => []RecordsAreTrue` | a row is decided from the child's answer, so the answer must be true when it is read: `ReportsAreTrue`. What landed, closed or was attested stays so (`LedgerGrows`); that the verifier was inactive need not last, so the record is compared with the history of the attempt: `LapsesAreNoted`, and no other row's history changes (`LapsesStay`) |
| `DecidedRowsAreFinal` | `Spec => DecidedRowsStay` | what writes a row writes a pending one, or queues an absent one, and the worker takes only pending ones |
| `NoWakeupIsLost` | `Spec => []NoSleepOnNewWork` | the property speaks of a worker that is idle; `NoWakeupLost` says the same from the query that found nothing on, and it is preserved because a row cannot be queued again (`TasksWereAccepted`) and a notification given before the first poll is kept |

### Rate limiter (`RateLimiterProofs`)

For every set of keys and callers, every burst, token cost, second, cap and horizon
(`LimiterAssumption`, `NoneAssumption`):

| Theorem | Statement | Argument |
|---|---|---|
| `LimiterTypeCorrect` | `Spec => []TypeOK` | a refill is capped, time is never negative (`saturating_duration_since`), a token is taken only when there is one |
| `RateBound` | `Spec => []RateIsBounded` | from `BudgetInv`, below |
| `OthersKeepTheirTokens` | `Spec => OthersAreUntouched` | a bucket that is dropped was full at the reading, hence at every later instant, and so is a new one |
| `RetryAfterSuffices` | `Spec => []RetryAfterIsEnough` | the tokens of a refused bucket, and the wait rounded up to a second, add up to a token; only a later request of the same key changes either |

`RateIsBounded` speaks of the clock, while a grant is judged by a reading that may be
older than the last one applied, and by a bucket that may have been dropped and made
anew. `BudgetInv` ties each key to `basis`, the reading its bucket stands at: of a
tracked key, spent + tokens is at most burst + basis + skew; of an untracked one,
spent is at most basis + skew, because a bucket is dropped only when it is full, so
that a new full one gives nothing away; readings and bases are never in the future.

### Job service (`JobServiceProofs`)

For every finite set of requests, any two semaphores and any number of faults. The
inductive invariant is a tower of four, each resting on the ones before it.

| Invariant | Says |
|---|---|
| `StageInv` | no handler, task or thread outlives its process; a request has a row id exactly in the stages after its insertion; a blocking thread belongs to a lookup or to a job in *building* until the runtime drops it; a job that records has a result |
| `SchemaInv` | what the schema version says is applied, and the running binary knows all of it |
| `CacheInv` | jobs and rows are one to one; a row whose job has not written its outcome is pending, and after the sweep no other row is |
| `CountInv` | permits taken and free add up, as do slots and the gauge: exactly while the service runs, as bounds once the runtime drops tasks |

| Theorem | Statement |
|---|---|
| `ServiceTypeCorrect` | `Spec => []TypeOK` |
| `PermitsAreAccounted` | `Spec => []PermitsAccounted` |
| `GaugeIsBalanced` | `Spec => []GaugeBalances` |
| `PendingRowsAreLive` | `Spec => []PendingIsLive` |
| `RowsBelongToJobs` | `Spec => []JobsKeepTheirRows` |
| `SchemaIsServed` | `Spec => []ServesItsSchema` |
| `AnswersAreFinal` | `Spec => AnswersStand` |

The counts are cardinalities of sets of requests by stage, which is where finiteness
is used. `AnswersStand` needs `CacheInv`: that a finished row is not written again
rests on the row being of the job that writes it and still pending then.

### Reproduction engine (`ReproduceProofs`)

For any jobs, slots, redirects, docker failures and kills. `None` is assumed to be
neither a name nor a container (`NoneAssumption`).

| Theorem | Statement | Argument |
|---|---|---|
| `EngineTypeCorrect` | `Spec => []TypeOK` | `EngineInv` says what a job holds at each line of `reproduce()` (`At`): no volume while it is fetching, a container from its creation to its drop, and so on |
| `VerdictsComeFromWholeBuilds` | `Spec => []VerdictsAreOfWholeBuilds` | `At` also says which containers have exited with 0 by each step (`Passed`) |
| `NothingStays` | `Spec => []NothingIsLeftBehind` | `TidyInv`: unless a removal failed or the process was killed, the host has exactly what the guards hold; a guard removes what only it holds, because names are not shared |
| `VolumesAreOfOneJob` | `~PidReused => (Spec => []VolumesArePerJob)` | `TokenInv`: every name on the host was given before (`Old`), so a new one is new and nothing but its job has touched its volume. The hypothesis cannot be dropped: run `engine_restart` has the counterexample (finding 3) |

### Algorithms and pages (`AlgorithmProofs`)

Each has a specification of its own here (`GateSpec`, `PagingSpec`, `TallySpec`,
`DigestSpec`, `ArtifactSpec`, `StagingSpec`): its `Init` and `Next`, without the others
that run `algorithms` checks beside it.

| Theorem | Statement | Argument |
|---|---|---|
| `DepositsAreGated` | `GateSpec => []DepositsFollowTheGate` | `GateInv` says what a click knows at each await: the hash it read was run by its contract since the click, the claims it asks about are of that hash, and a *Verified* it has seen still stands. *Verified* stands (`VerifiedStands`), an upgrade only adds to what was run, and the best state is *Verified* only if one is (`BestIsSeen`). Any number of clicks |
| `WalksAreComplete` | `PagingSpec => []WalkSeesEveryRow` | `PagingInv`: every row older than the walk and newer than the offset has been seen. Rows inserted meanwhile push old ones down, towards pages that are still to come |
| `TallyLoopsCount` | `TallySpec => []LoopMatchesTally` | the state of each loop after i rounds is a closed form (`ScanTo`, `LoopTo`): counts of a prefix, the hashes of a prefix, the first best position of a prefix. So the theorems about the registry, which reason about the declarative tally, are about the loops of the source |
| `DigestsNameQuestions` | `DigestSpec => []DigestNamesTheQuestion` | service and contract lay out the same (`DigestIsLaid`: one flattens, one appends in a loop); from the start of an option its length is read, then the option, then where the next one starts (`LaidSaysTheOptions`) |
| `TheRightFileIsHashed` | `ArtifactSpec => []TheDeployedIsSelected` | a whole tar has each file once (`ArtifactInv`), so the candidates are the contracts' artifacts and their optimized copies: none, one, two of one contract, or files of two contracts |
| `TheSourceIsStaged` | `StagingSpec => []StagedTreeIsTheSource` | below one top directory re-rooting is injective (`RestageIsInjective`); the walk of a link's target from the staged place is, component by component, the re-rooted walk from the old one, as long as it stays inside (`StepIsMoved`, `WalksAreMoved`) |

Sums, folds and loops are recursive functions over finite sets or sequences, about
which the library's induction theorems cannot be used (they take an operator).
`FoldTheorems` has the induction as a fact about sets: a set of naturals with 0 and
all successors has every natural (`NatSetInduction`), from the well-foundedness of
`<`. On it rest `FoldsExist` (a fold of the community modules over a finite set is
defined, whichever element it picks next), the sums of `SumFunctionOnSet`, and the
closed forms above.

### Only model-checked

* Liveness: `EveryRowIsDecided`, `EveryJobEnds`, `WaitsAndRedirectsEnd`. It is out of the
  prover's reach, as are fairness and ENABLED.
* The three properties of the runs that expect a violation.

## 8. Not modelled, and the plan

Not modelled because there is no state or only input and output: XDR and JSON of
the on-chain lookup, HTTP routing, headers and static assets, bearer comparison, the
explorer's rendering of single answers, the command-line verifier (a sequential
driver of the engine), images and scripts, the calls of the gate to anchors and
wallets, `backup` (a copy that SQLite makes), the gate's own copy of the claim
layout.

Left:

1. Several nodes' outboxes composed with `Registry` in place of the reduced one, and
   `JobService` composed with `Reproduce`, so that builds that outlive a kill count
   against the slots of the next process.
2. Proofs that tie modules together: that a token call of the registry is a call of
   `VrfyToken` that its overflow checks never refuse while the supply fits the width;
   that the job service's use of its semaphores implements a counting semaphore; and
   that what the outbox assumes of the registry's answers is what `Registry` gives.
