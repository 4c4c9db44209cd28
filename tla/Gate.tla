-------------------------------- MODULE Gate --------------------------------
(***************************************************************************)
(* The payment gate (web/gate: app.js, lib/gate.js, lib/consensus.js,      *)
(* lib/protocol.js): a page that reads which bytes a contract runs, asks   *)
(* the registry about every claim it can find for them, and supplies to a  *)
(* pool only on a verdict read anew.  The page is one thread, but every    *)
(* RPC is an await: the user changes the target, claims are voted on and   *)
(* contracts are upgraded between any two reads.                           *)
(*                                                                         *)
(* The registry is what ClaimVote says of it: a claim opens, is concluded  *)
(* once, and the conclusion stands.  A call is one click of Check or       *)
(* Supply, from its first read to its end.                                 *)
(***************************************************************************)
EXTENDS Naturals

CONSTANTS
    Contract,     \* contracts on the network
    Target,       \* PROTOCOLS: the contracts that can be selected
    Pool,         \* the targets that have an adapter
    Claim,
    Descriptor,   \* claims named by BUILD_DESCRIPTORS
    Wasm,
    NoWasm,       \* no bytes read
    ClaimHash,    \* the wasm_hash of a claim
    Conclusion,   \* bound: what claims are concluded as
    Call,         \* bound: clicks under way at once
    None,         \* nothing held
    MaxUpgrades   \* bound: upgrades of contracts

ASSUME GateAssumption ==
    /\ Pool \subseteq Target /\ Target \subseteq Contract
    /\ Descriptor \subseteq Claim /\ ClaimHash \in [Claim -> Wasm] /\ NoWasm \notin Wasm
    /\ Conclusion \subseteq {"Insufficient", "Verified", "Mismatch", "Disputed"}
    /\ MaxUpgrades \in Nat

VARIABLES
    \* the network
    code,      \* the bytes a contract runs
    status,    \* consensus() of a claim
    upgrades,
    \* the page
    target, wallet,
    verdict,   \* state.verdict: the contract, its bytes and the state found; or None
    call       \* a call under way, or None.  A check, or the recheck of a deposit into
               \* pool: the bytes read, claims to do, states seen.  Then, with the gate
               \* open, the deposit itself.  History: what each contract ran since the click.

netVars  == <<code, status, upgrades>>
pageVars == <<target, wallet, verdict>>
gateVars == <<netVars, pageVars, call>>

Of(k, steps) == call[k] # None /\ call[k].step \in steps

GateInit ==
    /\ code \in [Contract -> Wasm]
    /\ status = [c \in Claim |-> "NoClaim"]
    /\ upgrades = 0
    /\ target \in Target /\ wallet = FALSE /\ verdict = None
    /\ call = [k \in Call |-> None]
-----------------------------------------------------------------------------
(* The network. *)

\* The first attestation, and the end of the window.
RegistryMoves(c) ==
    /\ \/ status[c] = "NoClaim" /\ status' = [status EXCEPT ![c] = "Open"]
       \/ status[c] = "Open" /\ \E s \in Conclusion : status' = [status EXCEPT ![c] = s]
    /\ UNCHANGED <<code, upgrades, pageVars, call>>

Upgrade(x, h) ==
    /\ upgrades < MaxUpgrades /\ code[x] # h
    /\ upgrades' = upgrades + 1
    /\ code' = [code EXCEPT ![x] = h]
    /\ call' = [k \in Call |->
                  IF call[k] = None THEN None ELSE [call[k] EXCEPT !.ran[x] = @ \cup {h}]]
    /\ UNCHANGED <<status, pageVars>>
-----------------------------------------------------------------------------
(* The check. *)

\* checkContract's arguments are read at the click.
Begin(k, x, pool) ==
    /\ call[k] = None
    /\ call' = [call EXCEPT ![k] = [step |-> "executable", pool |-> pool, contract |-> x,
                                    hash |-> NoWasm, todo |-> {}, seen |-> {},
                                    ran |-> [y \in Contract |-> {code[y]}]]]

\* Check, on the target or on an id typed in.
RunCheck(k, x) ==
    /\ Begin(k, x, None)
    /\ UNCHANGED <<netVars, pageVars>>

\* bestOf: the highest of NoClaim, Open, Insufficient, Disputed, Mismatch, Verified.
bestOf(seen) ==
    LET rank == [NoClaim |-> 0, Open |-> 1, Insufficient |-> 2,
                 Disputed |-> 3, Mismatch |-> 4, Verified |-> 5]
    IN  IF seen = {} THEN "NoClaim"
        ELSE CHOOSE s \in seen : \A t \in seen : rank[t] <= rank[s]

\* decide: one state opens the gate.
allow(s) == s = "Verified"

\* Mutant: the pool is read from the page when the recheck is back.
DeliverLatePool(k, h, s) ==
    LET c == call[k] IN
    IF c.pool = None
    THEN /\ verdict' = [contract |-> c.contract, hash |-> h, state |-> s]
         /\ call' = [call EXCEPT ![k] = None]
    ELSE /\ call' = [call EXCEPT ![k] =
                        IF allow(s)
                        THEN [step |-> "signing", pool |-> target, hash |-> h, ran |-> c.ran]
                        ELSE None]
         /\ UNCHANGED verdict

\* The verdict of a check is kept for the panel; that of a recheck opens the deposit or
\* refuses it.
Deliver(k, h, s) ==
    LET c == call[k] IN
    IF c.pool = None
    THEN /\ verdict' = [contract |-> c.contract, hash |-> h, state |-> s]
         /\ call' = [call EXCEPT ![k] = None]
    ELSE /\ call' = [call EXCEPT ![k] =
                        IF allow(s)
                        THEN [step |-> "signing", pool |-> c.pool, hash |-> h, ran |-> c.ran]
                        ELSE None]
         /\ UNCHANGED verdict

\* The bytes, or none: the read fails, there is no such contract, it is an asset contract.
executableOf(x) == {code[x], NoWasm}

ReadExecutable(k) ==
    /\ Of(k, {"executable"})
    /\ \E h \in executableOf(call[k].contract) :
        \/ /\ h # NoWasm /\ call' = [call EXCEPT ![k].step = "claims", ![k].hash = h]
           /\ UNCHANGED verdict
        \/ h = NoWasm /\ Deliver(k, h, "unavailable")
    /\ UNCHANGED <<netVars, target, wallet>>

About(h) == {c \in Claim : ClaimHash[c] = h}

\* Any of the attested claims: the scan of events may fail, stop early or look for one
\* that is older than what the RPC still holds.
discoverClaims(h) == SUBSET {c \in About(h) : status[c] # "NoClaim"}

\* Those, and the configured ones.
ClaimsFor(k) ==
    /\ Of(k, {"claims"})
    /\ \E found \in discoverClaims(call[k].hash) :
         call' = [call EXCEPT ![k].step = "consensus",
                              ![k].todo = found \cup (About(call[k].hash) \cap Descriptor)]
    /\ UNCHANGED <<netVars, pageVars>>

\* readConsensus of one claim; one that cannot be read counts as NoClaim.
ReadConsensus(k, c) ==
    /\ Of(k, {"consensus"}) /\ c \in call[k].todo
    /\ \E s \in {status[c], "NoClaim"} :
         call' = [call EXCEPT ![k].todo = @ \ {c}, ![k].seen = @ \cup {s}]
    /\ UNCHANGED <<netVars, pageVars>>

Decide(k) ==
    /\ Of(k, {"consensus"}) /\ call[k].todo = {}
    /\ Deliver(k, call[k].hash, bestOf(call[k].seen))
    /\ UNCHANGED <<netVars, target, wallet>>
-----------------------------------------------------------------------------
(* The page and the deposit. *)

SelectTarget(t) ==
    /\ t # target
    /\ target' = t /\ verdict' = None
    /\ UNCHANGED <<netVars, wallet, call>>

ConnectWallet ==
    /\ ~wallet /\ wallet' = TRUE
    /\ UNCHANGED <<netVars, target, verdict, call>>

\* refreshDepositButton.  The asset, which can disable the button too, is left out.
DepositEnabled == wallet /\ verdict # None /\ target \in Pool

\* Supply: pool and the contract to recheck are both the target of the click.
RunDeposit(k) ==
    /\ DepositEnabled
    /\ Begin(k, target, target)
    /\ UNCHANGED <<netVars, pageVars>>

\* supply builds, simulates, has the wallet sign and sends.
Send(k) ==
    /\ Of(k, {"signing"})
    /\ call' = [call EXCEPT ![k].step = "sent"]
    /\ UNCHANGED <<netVars, pageVars>>

\* It fails on the way, or the wait for the transaction is over.
DepositEnds(k) ==
    /\ Of(k, {"signing", "sent"})
    /\ call' = [call EXCEPT ![k] = None]
    /\ UNCHANGED <<netVars, pageVars>>

GateNext ==
    \/ \E c \in Claim : RegistryMoves(c)
    \/ \E x \in Contract, h \in Wasm : Upgrade(x, h)
    \/ \E k \in Call :
        \/ \E x \in Contract : RunCheck(k, x)
        \/ ReadExecutable(k) \/ ClaimsFor(k) \/ Decide(k)
        \/ \E c \in Claim : ReadConsensus(k, c)
        \/ RunDeposit(k) \/ Send(k) \/ DepositEnds(k)
    \/ \E t \in Target : SelectTarget(t)
    \/ ConnectWallet
-----------------------------------------------------------------------------
IsVerified(h) == \E c \in About(h) : status[c] = "Verified"

\* A transaction is signed or sent only into a pool that itself ran, after Supply was
\* pressed, bytes with a claim that is Verified and still is, whatever was selected,
\* checked, voted or upgraded meanwhile (supply: "a stale panel, a hand-edited DOM or a
\* second tab cannot carry a pass that was true a minute ago").
DepositsFollowTheGate ==
    \A k \in Call : Of(k, {"signing", "sent"}) =>
        /\ call[k].pool \in Pool
        /\ call[k].hash \in call[k].ran[call[k].pool] /\ IsVerified(call[k].hash)
=============================================================================
