-------------------------- MODULE AlgorithmProofs ---------------------------
(***************************************************************************)
(* The payment gate, the explorer's walk, the registry's counting loops,   *)
(* the claim digest, the artifact and the staged tree: for any network,    *)
(* any number of clicks under way, any pages and rows, and any list of     *)
(* attestations, options, files and archive entries.  They share nothing;  *)
(* each has a specification of its own here.                               *)
(*                                                                         *)
(* What a gate promises is about the end of a call.  GateInv says what a   *)
(* call knows at each step before: the bytes it has read were run by its   *)
(* contract since the click, and a Verified it has seen still stands.      *)
(***************************************************************************)
EXTENDS Gate, Paging, TallyLoop, ClaimDigest, Artifact, Staging, FoldTheorems, SequenceTheorems

\* The gate and the network by themselves.
GateSpec == GateInit /\ [][GateNext]_gateVars

State == {"NoClaim", "Open", "Insufficient", "Disputed", "Mismatch", "Verified"}

Asking == {"executable", "claims", "consensus"}
Paying == {"signing", "sent"}

History == [Contract -> SUBSET Wasm]

\* A call that asks, and one that pays.
Question == [step : Asking, pool : Pool \cup {None}, contract : Contract,
             hash : Wasm \cup {NoWasm}, todo : SUBSET Claim, seen : SUBSET State, ran : History]
Payment  == [step : Paying, pool : Pool, hash : Wasm, ran : History]

GateTypes ==
    /\ code \in [Contract -> Wasm] /\ status \in [Claim -> State]
    /\ target \in Target
    /\ call \in [Call -> Question \cup Payment \cup {None}]

\* What call k knows.
Knows(k) ==
    /\ \A x \in Contract : code[x] \in call[k].ran[x]
    /\ call[k].step \in Asking =>
        /\ call[k].pool # None => call[k].pool = call[k].contract /\ call[k].pool \in Pool
        /\ "Verified" \in call[k].seen => IsVerified(call[k].hash)
    /\ call[k].step \in {"executable", "claims"} => call[k].seen = {}
    /\ call[k].step \in {"claims", "consensus"} =>
        call[k].hash \in Wasm /\ call[k].hash \in call[k].ran[call[k].contract]
    /\ call[k].step = "consensus" => call[k].todo \subseteq About(call[k].hash)
    /\ call[k].step \in Paying =>
        call[k].hash \in call[k].ran[call[k].pool] /\ IsVerified(call[k].hash)

GateInv == GateTypes /\ \A k \in Call : call[k] # None => Knows(k)
-----------------------------------------------------------------------------
(* Verdicts. *)

\* The best of some states is Verified only if one of them is: the ranks have a highest.
LEMMA BestIsSeen ==
  ASSUME NEW found \in SUBSET State, bestOf(found) = "Verified"
  PROVE  "Verified" \in found
<1> DEFINE rank == [NoClaim |-> 0, Open |-> 1, Insufficient |-> 2,
                    Disputed |-> 3, Mismatch |-> 4, Verified |-> 5]
           highest(s) == \A t \in found : rank[t] <= rank[s]
<1>1. /\ rank["NoClaim"] = 0 /\ rank["Open"] = 1 /\ rank["Insufficient"] = 2
      /\ rank["Disputed"] = 3 /\ rank["Mismatch"] = 4 /\ rank["Verified"] = 5
  OBVIOUS
<1> HIDE DEF rank
<1>2. SUFFICES ASSUME "Verified" \notin found PROVE FALSE
  OBVIOUS
<1>3. found # {} /\ bestOf(found) = CHOOSE s \in found : highest(s)
  BY DEF bestOf, rank
<1>4. \E s \in found : highest(s)
  <2>1. \A t \in found : t \in {"NoClaim", "Open", "Insufficient", "Disputed", "Mismatch"}
    BY <1>2 DEF State
  <2>2. CASE "Mismatch" \in found
    BY <1>1, <2>1, <2>2
  <2>3. CASE "Mismatch" \notin found /\ "Disputed" \in found
    BY <1>1, <2>1, <2>3
  <2>4. CASE "Mismatch" \notin found /\ "Disputed" \notin found /\ "Insufficient" \in found
    BY <1>1, <2>1, <2>4
  <2>5. CASE found \cap {"Mismatch", "Disputed", "Insufficient"} = {} /\ "Open" \in found
    BY <1>1, <2>1, <2>5
  <2>6. CASE found \cap {"Mismatch", "Disputed", "Insufficient", "Open"} = {}
    BY <1>1, <1>3, <2>1, <2>6
  <2> QED
    BY <2>2, <2>3, <2>4, <2>5, <2>6
<1> QED
  BY <1>2, <1>3, <1>4

\* Verified is final: a claim is concluded once.
LEMMA VerifiedStands ==
  ASSUME GateTypes, [GateNext]_gateVars
  PROVE  \A c \in Claim : status[c] = "Verified" => status'[c] = "Verified"
  BY DEF GateTypes, GateNext, RegistryMoves, Upgrade, RunCheck, ReadExecutable, ClaimsFor, Decide,
         ReadConsensus, RunDeposit, Send, DepositEnds, SelectTarget, ConnectWallet, gateVars, netVars

\* A call that nothing happens to knows what it knew.
LEMMA SameKeepsKnowing ==
  ASSUME GateTypes, [GateNext]_gateVars, NEW k \in Call, Knows(k),
         call'[k] = call[k], code' = code
  PROVE  Knows(k)'
  BY VerifiedStands DEF Knows, IsVerified, About

\* A step of call k leaves the other calls and the contracts as they are.
LEMMA OneCallMoves ==
  ASSUME GateInv, [GateNext]_gateVars, NEW k \in Call,
         GateTypes', code' = code,
         \A i \in Call : i # k => call'[i] = call[i],
         call'[k] # None => Knows(k)'
  PROVE  GateInv'
  BY SameKeepsKnowing DEF GateInv
-----------------------------------------------------------------------------
(* The steps of a call. *)

LEMMA BeginKeeps ==
  ASSUME GateInv, GateNext, NEW k \in Call, NEW x \in Contract, NEW pool \in Pool \cup {None},
         pool # None => pool = x, Begin(k, x, pool), UNCHANGED <<code, status, target>>
  PROVE  GateInv'
<1> DEFINE q == [step |-> "executable", pool |-> pool, contract |-> x,
                 hash |-> NoWasm, todo |-> {}, seen |-> {},
                 ran |-> [y \in Contract |-> {code[y]}]]
<1>0. GateTypes
  BY DEF GateInv
<1>1. /\ q \in Question /\ q.step = "executable" /\ q.pool = pool /\ q.contract = x /\ q.seen = {}
      /\ \A y \in Contract : code[y] \in q.ran[y]
  BY <1>0 DEF Question, Asking, GateTypes, History
<1>2. call' = [call EXCEPT ![k] = q]
  BY DEF Begin
<1> HIDE DEF q
<1>3. call'[k] = q /\ \A i \in Call : i # k => call'[i] = call[i]
  BY <1>0, <1>2 DEF GateTypes
<1>4. GateTypes'
  BY <1>0, <1>1, <1>2 DEF GateTypes
<1>5. Knows(k)'
  BY <1>1, <1>3 DEF Knows, Asking, Paying
<1> QED
  BY <1>3, <1>4, <1>5, OneCallMoves

\* The end of a recheck: what opens the deposit is a Verified that was seen.
LEMMA DeliverKeeps ==
  ASSUME GateInv, GateNext, NEW k \in Call, call[k] # None, call[k].step \in Asking,
         NEW h \in Wasm \cup {NoWasm}, NEW s,
         Deliver(k, h, s),
         s = "Verified" => /\ call[k].step = "consensus" /\ h = call[k].hash
                           /\ "Verified" \in call[k].seen,
         UNCHANGED <<code, status, target>>
  PROVE  GateInv'
<1>0. GateTypes /\ Knows(k) /\ call[k] \in Question
  BY DEF GateInv, GateTypes, Payment, Asking, Paying
<1>1. CASE call[k].pool = None \/ ~allow(s)
  <2>1. call' = [call EXCEPT ![k] = None]
    BY <1>1 DEF Deliver
  <2>2. GateTypes' /\ call'[k] = None /\ \A i \in Call : i # k => call'[i] = call[i]
    BY <1>0, <2>1 DEF GateTypes
  <2> QED
    BY <2>2, OneCallMoves
<1>2. CASE call[k].pool # None /\ allow(s)
  <2> DEFINE p == [step |-> "signing", pool |-> call[k].pool, hash |-> h, ran |-> call[k].ran]
  <2>1. /\ call[k].step = "consensus" /\ h = call[k].hash
        /\ "Verified" \in call[k].seen
    BY <1>2 DEF allow
  <2>2. /\ h \in Wasm /\ h \in call[k].ran[call[k].contract]
        /\ call[k].pool = call[k].contract /\ call[k].pool \in Pool /\ IsVerified(h)
        /\ call[k].ran \in History
    BY <1>0, <1>2, <2>1 DEF Knows, Asking, Question
  <2>3. /\ p \in Payment /\ p.step = "signing" /\ p.pool = call[k].pool
        /\ p.hash = h /\ p.ran = call[k].ran
    BY <2>2 DEF Payment, Paying
  <2>4. call' = [call EXCEPT ![k] = p]
    BY <1>2 DEF Deliver
  <2> HIDE DEF p
  <2>5. call'[k] = p /\ GateTypes' /\ \A i \in Call : i # k => call'[i] = call[i]
    BY <1>0, <2>3, <2>4 DEF GateTypes
  <2>6. Knows(k)'
    BY <1>0, <2>2, <2>3, <2>5 DEF Knows, Asking, Paying, IsVerified, About
  <2> QED
    BY <2>5, <2>6, OneCallMoves
<1> QED
  BY <1>1, <1>2

LEMMA ReadExecutableKeeps ==
  ASSUME GateInv, GateNext, NEW k \in Call, ReadExecutable(k)
  PROVE  GateInv'
<1>0. /\ GateTypes /\ Knows(k) /\ call[k] # None /\ call[k].step = "executable"
      /\ call[k] \in Question /\ UNCHANGED <<code, status, target>>
  BY DEF GateInv, GateTypes, Payment, Paying, ReadExecutable, Of, netVars
<1>1. PICK h \in executableOf(call[k].contract) :
        \/ /\ h # NoWasm /\ call' = [call EXCEPT ![k].step = "claims", ![k].hash = h]
        \/ h = NoWasm /\ Deliver(k, h, "unavailable")
  BY DEF ReadExecutable
<1>2. CASE h # NoWasm /\ call' = [call EXCEPT ![k].step = "claims", ![k].hash = h]
  <2> DEFINE q == [call[k] EXCEPT !.step = "claims", !.hash = h]
  <2>1. h = code[call[k].contract] /\ h \in Wasm /\ h \in call[k].ran[call[k].contract]
    BY <1>0, <1>2 DEF executableOf, GateTypes, Question, Knows
  <2>2. /\ q \in Question /\ q.step = "claims" /\ q.hash = h /\ q.pool = call[k].pool
        /\ q.contract = call[k].contract /\ q.seen = call[k].seen /\ q.ran = call[k].ran
    BY <1>0, <2>1 DEF Question, Asking
  <2>3. call' = [call EXCEPT ![k] = q]
    BY <1>0, <1>2 DEF GateTypes
  <2> HIDE DEF q
  <2>4. call'[k] = q /\ GateTypes' /\ \A i \in Call : i # k => call'[i] = call[i]
    BY <1>0, <2>2, <2>3 DEF GateTypes
  <2>5. Knows(k)'
    BY <1>0, <2>1, <2>2, <2>4 DEF Knows, Asking, Paying
  <2> QED
    BY <1>0, <2>4, <2>5, OneCallMoves
<1>3. CASE h = NoWasm /\ Deliver(k, h, "unavailable")
  BY <1>0, <1>3, DeliverKeeps DEF Asking
<1> QED
  BY <1>1, <1>2, <1>3

LEMMA ClaimsForKeeps ==
  ASSUME GateInv, GateNext, NEW k \in Call, ClaimsFor(k)
  PROVE  GateInv'
<1>0. /\ GateTypes /\ Knows(k) /\ call[k] # None /\ call[k].step = "claims"
      /\ call[k] \in Question /\ UNCHANGED <<code, status, target>>
  BY DEF GateInv, GateTypes, Payment, Paying, ClaimsFor, Of, netVars, pageVars
<1>1. PICK found \in discoverClaims(call[k].hash) :
        call' = [call EXCEPT ![k].step = "consensus",
                             ![k].todo = found \cup (About(call[k].hash) \cap Descriptor)]
  BY DEF ClaimsFor
<1> DEFINE todo == found \cup (About(call[k].hash) \cap Descriptor)
           q == [call[k] EXCEPT !.step = "consensus", !.todo = todo]
<1>2. todo \subseteq About(call[k].hash) /\ todo \in SUBSET Claim
  BY DEF discoverClaims, About
<1>3. /\ q \in Question /\ q.step = "consensus" /\ q.todo = todo /\ q.hash = call[k].hash
      /\ q.pool = call[k].pool /\ q.contract = call[k].contract
      /\ q.seen = call[k].seen /\ q.ran = call[k].ran
  BY <1>0, <1>2 DEF Question, Asking
<1>4. call' = [call EXCEPT ![k] = q]
  BY <1>0, <1>1 DEF GateTypes
<1> HIDE DEF q, todo
<1>5. call'[k] = q /\ GateTypes' /\ \A i \in Call : i # k => call'[i] = call[i]
  BY <1>0, <1>3, <1>4 DEF GateTypes
<1>6. Knows(k)'
  BY <1>0, <1>2, <1>3, <1>5 DEF Knows, Asking, Paying, About
<1> QED
  BY <1>0, <1>5, <1>6, OneCallMoves

\* The answer read is the claim's, or nothing: what is Verified then stays so.
LEMMA ReadConsensusKeeps ==
  ASSUME GateInv, GateNext, NEW k \in Call, NEW c \in Claim, ReadConsensus(k, c)
  PROVE  GateInv'
<1>0. /\ GateTypes /\ Knows(k) /\ call[k] # None /\ call[k].step = "consensus"
      /\ call[k] \in Question /\ UNCHANGED <<code, status, target>> /\ c \in call[k].todo
  BY DEF GateInv, GateTypes, Payment, Paying, ReadConsensus, Of, netVars, pageVars
<1>1. PICK s \in {status[c], "NoClaim"} :
        call' = [call EXCEPT ![k].todo = @ \ {c}, ![k].seen = @ \cup {s}]
  BY DEF ReadConsensus
<1> DEFINE q == [call[k] EXCEPT !.todo = @ \ {c}, !.seen = @ \cup {s}]
<1>2. s \in State /\ (s = "Verified" => IsVerified(call[k].hash))
  BY <1>0, <1>1 DEF GateTypes, State, Knows, IsVerified
<1>3. /\ q \in Question /\ q.step = "consensus" /\ q.todo = call[k].todo \ {c}
      /\ q.hash = call[k].hash /\ q.pool = call[k].pool /\ q.contract = call[k].contract
      /\ q.seen = call[k].seen \cup {s} /\ q.ran = call[k].ran
  BY <1>0, <1>2 DEF Question, Asking
<1>4. call' = [call EXCEPT ![k] = q]
  BY <1>0, <1>1 DEF GateTypes
<1> HIDE DEF q
<1>5. call'[k] = q /\ GateTypes' /\ \A i \in Call : i # k => call'[i] = call[i]
  BY <1>0, <1>3, <1>4 DEF GateTypes
<1>6. "Verified" \in q.seen => IsVerified(q.hash)
  BY <1>0, <1>2, <1>3 DEF Knows, Asking
<1>7. Knows(k)'
  BY <1>0, <1>3, <1>5, <1>6 DEF Knows, Asking, Paying, IsVerified, About
<1> QED
  BY <1>0, <1>5, <1>7, OneCallMoves

LEMMA DecideKeeps ==
  ASSUME GateInv, GateNext, NEW k \in Call, Decide(k)
  PROVE  GateInv'
<1>1. /\ call[k] # None /\ call[k].step = "consensus" /\ call[k] \in Question
      /\ Deliver(k, call[k].hash, bestOf(call[k].seen)) /\ UNCHANGED <<code, status, target>>
  BY DEF GateInv, GateTypes, Payment, Paying, Decide, Of, netVars
<1>2. call[k].hash \in Wasm \cup {NoWasm} /\ call[k].seen \in SUBSET State
  BY <1>1 DEF Question
<1>3. bestOf(call[k].seen) = "Verified" => "Verified" \in call[k].seen
  BY <1>2, BestIsSeen
<1> QED
  BY <1>1, <1>2, <1>3, DeliverKeeps DEF Asking

LEMMA SendKeeps ==
  ASSUME GateInv, GateNext, NEW k \in Call, Send(k)
  PROVE  GateInv'
<1>0. /\ GateTypes /\ Knows(k) /\ call[k] # None /\ call[k].step = "signing"
      /\ call[k] \in Payment /\ UNCHANGED <<code, status, target>>
  BY DEF GateInv, GateTypes, Question, Asking, Send, Of, netVars, pageVars
<1> DEFINE p == [call[k] EXCEPT !.step = "sent"]
<1>1. p \in Payment /\ p.step = "sent" /\ p.pool = call[k].pool /\ p.hash = call[k].hash
      /\ p.ran = call[k].ran
  BY <1>0 DEF Payment, Paying
<1>2. call' = [call EXCEPT ![k] = p]
  BY DEF Send
<1> HIDE DEF p
<1>3. call'[k] = p /\ GateTypes' /\ \A i \in Call : i # k => call'[i] = call[i]
  BY <1>0, <1>1, <1>2 DEF GateTypes
<1>4. Knows(k)'
  BY <1>0, <1>1, <1>3 DEF Knows, Asking, Paying, IsVerified, About
<1> QED
  BY <1>0, <1>3, <1>4, OneCallMoves

LEMMA DepositEndsKeeps ==
  ASSUME GateInv, GateNext, NEW k \in Call, DepositEnds(k)
  PROVE  GateInv'
<1>1. GateTypes' /\ code' = code /\ call'[k] = None /\ \A i \in Call : i # k => call'[i] = call[i]
  BY DEF GateInv, GateTypes, DepositEnds, netVars, pageVars
<1> QED
  BY <1>1, OneCallMoves

\* An upgrade adds to what every call has seen run.
LEMMA UpgradeKeeps ==
  ASSUME GateInv, GateNext, NEW x \in Contract, NEW h \in Wasm, Upgrade(x, h)
  PROVE  GateInv'
<1>0. GateTypes /\ UNCHANGED <<status, target>>
  BY DEF GateInv, Upgrade, pageVars
<1>1. ASSUME NEW k \in Call, call[k] # None
      PROVE  /\ call'[k] \in Question \cup Payment
             /\ call'[k].step = call[k].step /\ call'[k].hash = call[k].hash
             /\ call[k].step \in Asking =>
                  /\ call'[k].pool = call[k].pool /\ call'[k].contract = call[k].contract
                  /\ call'[k].todo = call[k].todo /\ call'[k].seen = call[k].seen
             /\ call[k].step \in Paying => call'[k].pool = call[k].pool
             /\ call'[k].ran \in History
             /\ \A y \in Contract : call[k].ran[y] \subseteq call'[k].ran[y]
             /\ h \in call'[k].ran[x]
  <2> DEFINE ran == [call[k].ran EXCEPT ![x] = @ \cup {h}]
             new == [call[k] EXCEPT !.ran = ran]
  <2>1. call'[k] = new
    BY <1>1 DEF Upgrade
  <2>2. call[k].ran \in History /\ (call[k] \in Question \/ call[k] \in Payment)
    BY <1>0, <1>1 DEF GateTypes, Question, Payment
  <2>3. /\ ran \in History /\ \A y \in Contract : call[k].ran[y] \subseteq ran[y]
        /\ h \in ran[x]
    BY <2>2 DEF History
  <2> HIDE DEF ran
  <2>4. CASE call[k] \in Question
    BY <2>1, <2>3, <2>4 DEF Question, Asking, Paying
  <2>5. CASE call[k] \in Payment
    BY <2>1, <2>3, <2>5 DEF Payment, Asking, Paying
  <2> QED
    BY <2>2, <2>4, <2>5
<1>2. GateTypes'
  <2>1. call' \in [Call -> Question \cup Payment \cup {None}]
    BY <1>1 DEF Upgrade
  <2> QED
    BY <1>0, <2>1 DEF GateTypes, Upgrade
<1>3. ASSUME NEW k \in Call, call'[k] # None PROVE Knows(k)'
  <2>1. call[k] # None
    BY <1>3 DEF Upgrade
  <2>2. Knows(k)
    BY <2>1 DEF GateInv
  <2>3. \A y \in Contract : code'[y] \in call'[k].ran[y]
    BY <1>0, <1>1, <2>1, <2>2 DEF Knows, Upgrade, GateTypes
  <2>4. call[k].step \in {"claims", "consensus"} =>
          call[k].hash \in call'[k].ran[call[k].contract]
    BY <1>0, <1>1, <2>1, <2>2 DEF Knows, GateTypes, Question, Payment, Paying
  <2>5. call[k].step \in Paying => call[k].hash \in call'[k].ran[call[k].pool]
    BY <1>0, <1>1, <2>1, <2>2, GateAssumption DEF Knows, GateTypes, Question, Asking, Payment, Paying
  <2> QED
    BY <1>0, <1>1, <2>1, <2>2, <2>3, <2>4, <2>5 DEF Knows, Asking, Paying, IsVerified, About
<1> QED
  BY <1>2, <1>3 DEF GateInv
-----------------------------------------------------------------------------
\* The gate's invariant: what a call knows at each await (checkContract, runDeposit).
THEOREM GateInvariant == GateSpec => []GateInv
<1>1. GateInit => GateInv
  BY DEF GateInit, GateInv, GateTypes, State
<1>2. GateInv /\ [GateNext]_gateVars => GateInv'
  <2> SUFFICES ASSUME GateInv, [GateNext]_gateVars PROVE GateInv'
    OBVIOUS
  <2>1. ASSUME NEW c \in Claim, RegistryMoves(c) PROVE GateInv'
    <3>1. GateTypes' /\ code' = code /\ call' = call
      BY <2>1, GateAssumption DEF GateInv, GateTypes, RegistryMoves, pageVars, State
    <3> QED
      BY <3>1, SameKeepsKnowing DEF GateInv
  <2>2. ASSUME NEW k \in Call, NEW x \in Contract, RunCheck(k, x), GateNext PROVE GateInv'
    BY <2>2, BeginKeeps DEF RunCheck, netVars, pageVars
  <2>3. ASSUME NEW k \in Call, RunDeposit(k), GateNext PROVE GateInv'
    <3>1. target \in Pool /\ target \in Contract
      BY <2>3, GateAssumption DEF GateInv, GateTypes, RunDeposit, DepositEnabled
    <3> QED
      BY <2>3, <3>1, BeginKeeps DEF RunDeposit, netVars, pageVars
  <2>4. CASE (\E t \in Target : SelectTarget(t)) \/ ConnectWallet \/ UNCHANGED gateVars
    <3>1. GateTypes' /\ code' = code /\ call' = call
      BY <2>4 DEF GateInv, GateTypes, SelectTarget, ConnectWallet, gateVars, netVars, pageVars
    <3> QED
      BY <3>1, SameKeepsKnowing DEF GateInv
  <2> QED
    BY <2>1, <2>2, <2>3, <2>4, UpgradeKeeps, ReadExecutableKeeps, ClaimsForKeeps, DecideKeeps,
       ReadConsensusKeeps, SendKeeps, DepositEndsKeeps
    DEF GateNext
<1> QED
  BY <1>1, <1>2, PTL DEF GateSpec

\* A transaction is signed or sent only into a pool that ran, since Supply was pressed,
\* bytes that are Verified (runDeposit, supply).
THEOREM DepositsAreGated == GateSpec => []DepositsFollowTheGate
<1>1. GateInv => DepositsFollowTheGate
  BY DEF GateInv, GateTypes, Knows, DepositsFollowTheGate, Of, Question, Payment, Asking, Paying
<1> QED
  BY <1>1, GateInvariant, PTL
-----------------------------------------------------------------------------
(* The explorer's walk. *)

\* The explorer's walk and the jobs by themselves.
PagingSpec == PagingInit /\ [][PagingNext]_pagingVars

Row == [req : Nat, status : JobStatus]

PagingTypes ==
    /\ rows \in Seq(Row)
    /\ base \in Nat /\ base <= Len(rows) /\ offset \in Nat
    /\ page \in Seq(Nat) /\ seen \subseteq Nat /\ over \in BOOLEAN

\* Every row of the walk newer than the n-th from the newest is in ids.
NewestAreIn(n, ids) == \A i \in 1 .. base : i > Len(rows) - n => i \in ids

\* Rows inserted since only push older ones towards pages that are still to come.
PagingInv ==
    /\ PagingTypes
    /\ page = NoPage => NewestAreIn(offset, seen)
    /\ page # NoPage =>
        /\ Len(page) <= PAGE
        /\ NewestAreIn(offset + PAGE, seen \cup ToSet(page))
        /\ page = <<>> => 1 .. base \subseteq seen
    /\ over => page = NoPage /\ 1 .. base \subseteq seen

\* The page that starts at the n-th row from the newest: the PAGE rows before it.
LEMMA PageIsTheNewest ==
  ASSUME PagingTypes, NEW n \in Nat
  PROVE  /\ recent(PAGE, n) \in Seq(Nat) /\ recent(PAGE, n) # NoPage
         /\ Len(recent(PAGE, n)) <= PAGE
         /\ recent(PAGE, n) = <<>> => Len(rows) <= n
         /\ \A i \in 1 .. Len(rows) :
              i <= Len(rows) - n /\ i > Len(rows) - (n + PAGE) => i \in ToSet(recent(PAGE, n))
<1> DEFINE L == Len(rows)
           newest == Reverse([i \in 1 .. L |-> i])
           last == IF n + PAGE <= L THEN n + PAGE ELSE L
           p == SubSeq(newest, n + 1, last)
<1>0. L \in Nat /\ PAGE \in Nat \ {0} /\ PAGE <= MAX_PAGE
  BY PagingAssumption DEF PagingTypes
<1>1. \A i \in 1 .. L : newest[i] = L - i + 1
  <2> DEFINE ids == [i \in 1 .. L |-> i]
  <2>0. newest = Reverse(ids)
    OBVIOUS
  <2>1. Len(ids) = L
    BY <1>0
  <2> HIDE DEF ids, newest
  <2>2. newest = [i \in 1 .. L |-> ids[(L - i) + 1]]
    BY <2>0, <2>1 DEF Reverse
  <2>3. \A i \in 1 .. L : ids[(L - i) + 1] = (L - i) + 1
    BY <1>0 DEF ids
  <2> QED
    BY <2>2, <2>3
<1> HIDE DEF newest
<1>2. last \in Nat /\ last <= L /\ last <= n + PAGE
  BY <1>0
<1>3. recent(PAGE, n) = p
  BY <1>0 DEF recent, newest
<1>4. \A i \in n + 1 .. last : newest[i] = L - i + 1 /\ newest[i] \in Nat /\ newest[i] # 0
  BY <1>0, <1>1, <1>2
<1>5. /\ p \in Seq(Nat) /\ Len(p) = (IF n + 1 <= last THEN last - n ELSE 0)
      /\ \A i \in 1 .. last - n : p[i] = newest[n + i]
  <2>1. n + 1 \in Int /\ last \in Int
    BY <1>2
  <2>2. \A i \in n + 1 .. last : newest[i] \in Nat
    BY <1>4
  <2>3. /\ p \in Seq(Nat)
        /\ Len(p) = (IF n + 1 <= last THEN last - (n + 1) + 1 ELSE 0)
        /\ \A i \in 1 .. last - (n + 1) + 1 : p[i] = newest[(n + 1) + i - 1]
    <3> HIDE DEF last
    <3> QED
      BY <2>1, <2>2, SubSeqProperties
  <2>4. last - (n + 1) + 1 = last - n /\ \A i \in Int : (n + 1) + i - 1 = n + i
    BY <1>2
  <2> HIDE DEF p, last
  <2> QED
    BY <2>3, <2>4
<1> HIDE DEF p
<1>6. \A i \in 1 .. last - n : p[i] = L - (n + i) + 1 /\ p[i] # 0
  <2> SUFFICES ASSUME NEW i \in 1 .. last - n PROVE p[i] = L - (n + i) + 1 /\ p[i] # 0
    OBVIOUS
  <2>1. n + i \in n + 1 .. last
    BY <1>2
  <2> HIDE DEF last
  <2> QED
    BY <1>4, <1>5, <2>1
<1>7. p # NoPage
  <2> SUFFICES ASSUME p = << 0 >> PROVE FALSE
    BY DEF NoPage
  <2>1. Len(p) = 1 /\ p[1] = 0
    OBVIOUS
  <2>2. 1 \in 1 .. last - n
    BY <1>2, <1>5, <2>1
  <2> QED
    BY <1>6, <2>1, <2>2
<1>8. p = <<>> => L <= n
  BY <1>0, <1>5
<1>9. ASSUME NEW i \in 1 .. L, i <= L - n, i > L - (n + PAGE) PROVE i \in ToSet(p)
  <2> DEFINE k == L - n - i + 1
  <2>1. k \in 1 .. last - n /\ L - (n + k) + 1 = i /\ n + 1 <= last
    BY <1>0, <1>9
  <2> HIDE DEF k
  <2>2. p[k] = i
    BY <1>6, <2>1
  <2>3. k \in DOMAIN p
    BY <1>2, <1>5, <2>1
  <2> QED
    BY <2>2, <2>3 DEF ToSet
<1> QED
  BY <1>0, <1>2, <1>3, <1>5, <1>7, <1>8, <1>9

LEMMA NoPageIsAPage == NoPage \in Seq(Nat)
  BY DEF NoPage

LEMMA PagingStarts == PagingInit => PagingInv
<1> SUFFICES ASSUME PagingInit PROVE PagingInv
  OBVIOUS
<1>1. PagingTypes
  <2>1. rows = <<>> /\ rows \in Seq(Row) /\ Len(rows) = 0
    BY DEF PagingInit
  <2>2. page \in Seq(Nat)
    BY NoPageIsAPage DEF PagingInit
  <2>3. base = 0 /\ offset = 0 /\ seen = {} /\ over = FALSE
    BY DEF PagingInit
  <2>4. base \in Nat /\ base <= Len(rows) /\ offset \in Nat
    BY <2>1, <2>3
  <2>5. seen \subseteq Nat /\ over \in BOOLEAN
    BY <2>3
  <2> QED
    BY <2>1, <2>2, <2>4, <2>5, Zenon DEF PagingTypes
<1>2. NewestAreIn(offset, seen) /\ page = NoPage /\ ~over
  BY DEF PagingInit, NewestAreIn
<1> QED
  BY <1>1, <1>2 DEF PagingInv

\* The table only grows at its end, and the walk is owed what it was.
LEMMA TableMoves ==
  ASSUME PagingInv, PagingTypes', UNCHANGED walkVars, Len(rows) <= Len(rows')
  PROVE  PagingInv'
<1>0. /\ base' = base /\ offset' = offset /\ page' = page /\ seen' = seen /\ over' = over
      /\ offset \in Nat /\ PAGE \in Nat /\ Len(rows) \in Nat /\ Len(rows') \in Nat
  BY PagingAssumption DEF PagingInv, PagingTypes, walkVars
<1>1. ASSUME NEW n \in Nat, NEW ids, NewestAreIn(n, ids)
      PROVE  \A i \in 1 .. base' : i > Len(rows') - n => i \in ids
  BY <1>0, <1>1 DEF NewestAreIn
<1>2. page = NoPage => NewestAreIn(offset, seen)'
  BY <1>0, <1>1 DEF PagingInv, NewestAreIn
<1>3. page # NoPage => NewestAreIn(offset + PAGE, seen \cup ToSet(page))'
  BY <1>0, <1>1 DEF PagingInv, NewestAreIn
<1> QED
  BY <1>0, <1>2, <1>3 DEF PagingInv

LEMMA SubmitKeepsPaging == PagingInv /\ Submit => PagingInv'
<1> SUFFICES ASSUME PagingInv, Submit PROVE PagingInv'
  OBVIOUS
<1> DEFINE row == [req |-> Len(rows) + 1, status |-> "pending"]
<1>1. row \in Row /\ rows' = Append(rows, row)
  BY DEF PagingInv, PagingTypes, Submit, insert_pending, JobStatus, Row
<1> HIDE DEF row
<1>2. /\ rows' \in Seq(Row) /\ Len(rows') = Len(rows) + 1
  BY <1>1 DEF PagingInv, PagingTypes
<1>3. UNCHANGED walkVars /\ PagingTypes'
  BY <1>2 DEF Submit, walkVars, PagingInv, PagingTypes
<1> QED
  BY <1>2, <1>3, TableMoves DEF PagingInv, PagingTypes

LEMMA FinishKeepsPaging ==
  ASSUME PagingInv, NEW i \in DOMAIN rows, Finish(i)
  PROVE  PagingInv'
<1> DEFINE row == [rows[i] EXCEPT !.status = "verified"]
<1>1. rows \in Seq(Row) /\ rows[i] \in Row /\ i \in 1 .. Len(rows)
  BY DEF PagingInv, PagingTypes
<1>2. row \in Row
  BY <1>1 DEF Row, JobStatus, Terminal
<1>3. rows' = [rows EXCEPT ![i] = row]
  BY DEF Finish, complete
<1> HIDE DEF row
<1>4. rows' \in Seq(Row) /\ Len(rows') = Len(rows)
  BY <1>1, <1>2, <1>3, ExceptSeq
<1>5. UNCHANGED walkVars /\ PagingTypes'
  BY <1>4 DEF Finish, walkVars, PagingInv, PagingTypes
<1>6. Len(rows) <= Len(rows')
  BY <1>1, <1>4
<1> QED
  BY <1>5, <1>6, TableMoves

\* The first page begins the walk: nothing is newer than its newest row.
LEMMA ReadPageKeepsPaging == PagingInv /\ ReadPage => PagingInv'
<1> SUFFICES ASSUME PagingInv, ReadPage PROVE PagingInv'
  OBVIOUS
<1>0. /\ PagingTypes /\ page' = recent(PAGE, offset) /\ page = NoPage /\ ~over
      /\ UNCHANGED <<rows, offset, seen, over>>
      /\ Len(rows) \in Nat /\ offset \in Nat /\ PAGE \in Nat
      /\ base' = IF offset = 0 THEN Len(rows) ELSE base
      /\ NewestAreIn(offset, seen)
  BY PagingAssumption DEF PagingInv, PagingTypes, ReadPage
<1>1. /\ page' \in Seq(Nat) /\ page' # NoPage /\ Len(page') <= PAGE
      /\ page' = <<>> => Len(rows) <= offset
      /\ \A i \in 1 .. Len(rows) :
           i <= Len(rows) - offset /\ i > Len(rows) - (offset + PAGE) => i \in ToSet(page')
  BY <1>0, PageIsTheNewest
<1>2. base' \in Nat /\ base' <= Len(rows)
  BY <1>0 DEF PagingTypes
<1>3. \A i \in 1 .. base' : i > Len(rows) - offset => i \in seen
  BY <1>0, <1>2 DEF NewestAreIn
<1>4. PagingTypes'
  BY <1>0, <1>1, <1>2 DEF PagingTypes
<1>5. NewestAreIn(offset + PAGE, seen \cup ToSet(page))'
  BY <1>0, <1>1, <1>2, <1>3 DEF NewestAreIn
<1>6. page' = <<>> => 1 .. base' \subseteq seen
  BY <1>0, <1>1, <1>2, <1>3
<1> QED
  BY <1>0, <1>1, <1>4, <1>5, <1>6 DEF PagingInv

\* Without an Older link the page was the last: it was empty, or reached row 1 even if
\* rows were inserted before the total was read.
LEMMA ReadTotalKeepsPaging == PagingInv /\ ReadTotal => PagingInv'
<1> SUFFICES ASSUME PagingInv, ReadTotal PROVE PagingInv'
  OBVIOUS
<1>0. /\ PagingTypes /\ page # NoPage /\ page' = NoPage /\ seen' = seen \cup ToSet(page)
      /\ over' = ~OffersOlder /\ offset' = offset + PAGE /\ UNCHANGED <<rows, base>>
      /\ Len(rows) \in Nat /\ offset \in Nat /\ PAGE \in Nat /\ base \in Nat
      /\ Len(page) \in Nat /\ Len(page) <= PAGE
      /\ NewestAreIn(offset + PAGE, seen \cup ToSet(page))
      /\ page = <<>> => 1 .. base \subseteq seen
  BY PagingAssumption DEF PagingInv, PagingTypes, ReadTotal
<1>1. ToSet(page) \subseteq Nat
  BY <1>0 DEF PagingTypes, ToSet
<1>2. PagingTypes'
  <2>1. over' \in BOOLEAN
    BY <1>0
  <2> QED
    <3>1. page' \in Seq(Nat)
      BY <1>0, NoPageIsAPage, Zenon
    <3>2. offset' \in Nat
      BY <1>0
    <3>3. seen' \subseteq Nat
      BY <1>0, <1>1, Zenon DEF PagingTypes
    <3> QED
      BY <1>0, <2>1, <3>1, <3>2, <3>3, Zenon DEF PagingTypes
<1>3. NewestAreIn(offset, seen)'
  BY <1>0 DEF NewestAreIn
<1>4. ASSUME ~OffersOlder PROVE 1 .. base \subseteq seen \cup ToSet(page)
  <2>1. CASE page = <<>>
    BY <1>0, <2>1
  <2>2. CASE Len(rows) <= offset + PAGE
    BY <1>0, <2>2 DEF NewestAreIn
  <2> QED
    BY <1>0, <1>4, <2>1, <2>2 DEF OffersOlder, count
<1> QED
  BY <1>0, <1>2, <1>3, <1>4 DEF PagingInv

\* Whoever pages to the end was shown every row there was when the walk began, whatever
\* was inserted or finished meanwhile (list_verifications, renderHome's Older link).
THEOREM WalksAreComplete == PagingSpec => []WalkSeesEveryRow
<1>1. PagingInv /\ [PagingNext]_pagingVars => PagingInv'
  <2>1. ASSUME PagingInv, UNCHANGED pagingVars PROVE PagingInv'
    BY <2>1 DEF PagingInv, PagingTypes, NewestAreIn, pagingVars, walkVars
  <2> QED
    BY <2>1, SubmitKeepsPaging, FinishKeepsPaging, ReadPageKeepsPaging, ReadTotalKeepsPaging
    DEF PagingNext
<1>2. PagingInv => WalkSeesEveryRow
  BY DEF PagingInv, WalkSeesEveryRow
<1> QED
  BY <1>1, <1>2, PagingStarts, PTL DEF PagingSpec
-----------------------------------------------------------------------------
(* tally_of.  Each loop is a recursive function of how far it got; it is the *)
(* function that says in closed form what the loop has by then.              *)

\* A claim's attestations by themselves.
TallySpec == TallyInit /\ [][TallyNext]_atts

IsAtts == atts \in Seq(Hash)

\* Among the first j attestations, those that carry h.
CountTo(j, h) == Cardinality({k \in 1 .. j : atts[k] = h})

\* None of the first j is an earlier one with the hash of the i-th.
FirstTo(i, j) == \A k \in 1 .. j : atts[k] = atts[i] => ~(k < i)

ScanStep(scan, i, j) ==
    IF j = 0 THEN [count |-> 0, first_seen |-> TRUE]
    ELSE IF atts[j] = atts[i]
         THEN [count |-> scan[j-1].count + 1, first_seen |-> scan[j-1].first_seen /\ ~(j < i)]
         ELSE scan[j-1]

Scan(i) == CHOOSE scan : scan = [j \in 0 .. Len(atts) |-> ScanStep(scan, i, j)]

ScanTo(i) == [j \in 0 .. Len(atts) |-> [count |-> CountTo(j, atts[i]), first_seen |-> FirstTo(i, j)]]

LEMMA CountsOneMore ==
  ASSUME NEW h, NEW j \in Nat
  PROVE  /\ CountTo(0, h) = 0
         /\ CountTo(j, h) \in Nat
         /\ CountTo(j + 1, h) = IF atts[j + 1] = h THEN CountTo(j, h) + 1 ELSE CountTo(j, h)
<1> DEFINE at(m) == {k \in 1 .. m : atts[k] = h}
<1>1. at(0) = {}
  OBVIOUS
<1>2. IsFiniteSet(at(j))
  <2>1. IsFiniteSet(1 .. j) /\ at(j) \subseteq 1 .. j
    BY FS_Interval
  <2> QED
    BY <2>1, FS_Subset
<1>3. CASE atts[j + 1] = h
  <2>1. at(j + 1) = at(j) \cup {j + 1} /\ j + 1 \notin at(j)
    BY <1>3
  <2> HIDE DEF at
  <2>2. Cardinality(at(j + 1)) = Cardinality(at(j)) + 1
    BY <1>2, <2>1, FS_AddElement
  <2> USE DEF at
  <2> QED
    BY <1>1, <1>2, <1>3, <2>2, FS_EmptySet, FS_CardinalityType DEF CountTo
<1>4. CASE atts[j + 1] # h
  <2>1. at(j + 1) = at(j)
    BY <1>4
  <2> QED
    BY <1>1, <1>2, <1>4, <2>1, FS_EmptySet, FS_CardinalityType DEF CountTo
<1> QED
  BY <1>3, <1>4

LEMMA FieldsOfScan ==
  ASSUME NEW a, NEW b, NEW r, r = [count |-> a, first_seen |-> b]
  PROVE  r.count = a /\ r.first_seen = b
  OBVIOUS

LEMMA ScanToSteps ==
  ASSUME IsAtts, NEW i \in 1 .. Len(atts)
  PROVE  ScanTo(i) = [j \in 0 .. Len(atts) |-> ScanStep(ScanTo(i), i, j)]
<1> DEFINE h == atts[i]
           g == ScanTo(i)
<1>0. Len(atts) \in Nat
  BY DEF IsAtts
<1>1. \A j \in 0 .. Len(atts) : g[j] = [count |-> CountTo(j, h), first_seen |-> FirstTo(i, j)]
  BY DEF ScanTo
<1> HIDE DEF g
<1>2. ASSUME NEW j \in 0 .. Len(atts) PROVE g[j] = ScanStep(g, i, j)
  <2>1. CASE j = 0
    <3>1. FirstTo(i, 0) = TRUE
      BY DEF FirstTo
    <3> QED
      BY <1>0, <1>1, <2>1, <3>1, CountsOneMore DEF ScanStep
  <2>2. CASE j # 0
    <3>1. j - 1 \in Nat /\ j - 1 \in 0 .. Len(atts) /\ (j - 1) + 1 = j
      BY <1>0, <2>2
    <3>2. CountTo(j, h) = IF atts[j] = h THEN CountTo(j - 1, h) + 1 ELSE CountTo(j - 1, h)
      BY <3>1, CountsOneMore
    <3>3. g[j-1].count = CountTo(j - 1, h) /\ g[j-1].first_seen = FirstTo(i, j - 1)
      <4>1. g[j-1] = [count |-> CountTo(j - 1, h), first_seen |-> FirstTo(i, j - 1)]
        BY <1>1, <3>1
      <4> QED
        BY <4>1, FieldsOfScan
    <3>4. 1 .. j = 1 .. (j - 1) \cup {j}
      BY <1>0, <2>2
    <3>5. CASE atts[j] = h
      <4>1. FirstTo(i, j) = (FirstTo(i, j - 1) /\ ~(j < i))
        BY <3>4, <3>5 DEF FirstTo
      <4> QED
        BY <1>1, <2>2, <3>2, <3>3, <3>5, <4>1 DEF ScanStep
    <3>6. CASE atts[j] # h
      <4>1. FirstTo(i, j) = FirstTo(i, j - 1)
        BY <3>4, <3>6 DEF FirstTo
      <4> QED
        BY <1>1, <2>2, <3>1, <3>2, <3>3, <3>6, <4>1 DEF ScanStep
    <3> QED
      BY <3>5, <3>6
  <2> QED
    BY <2>1, <2>2
<1>3. g = [j \in 0 .. Len(atts) |-> g[j]]
  BY DEF ScanTo, g
<1> QED
  BY <1>2, <1>3 DEF g

\* The inner loop counts the attestations with the i-th hash, and finds whether it is new.
LEMMA InnerCounts ==
  ASSUME IsAtts, NEW i \in 1 .. Len(atts)
  PROVE  InnerCount(i) = [count |-> CountTo(Len(atts), atts[i]), first_seen |-> FirstTo(i, Len(atts))]
<1> DEFINE n == Len(atts)
           s == Scan(i)
           T == {j \in Nat : j <= n => s[j] = ScanTo(i)[j]}
<1>0. n \in Nat
  BY DEF IsAtts
<1>1. s = [j \in 0 .. n |-> ScanStep(s, i, j)]
  BY ScanToSteps DEF Scan
<1>2. /\ \A j \in 0 .. n : s[j] = ScanStep(s, i, j)
      /\ \A j \in 0 .. n : ScanTo(i)[j] = ScanStep(ScanTo(i), i, j)
  <2> HIDE DEF s
  <2> QED
    BY <1>1, ScanToSteps
<1> HIDE DEF s
<1>3. 0 \in T
  <2>1. 0 \in 0 .. n
    BY <1>0
  <2>2. ScanStep(s, i, 0) = ScanStep(ScanTo(i), i, 0)
    BY DEF ScanStep
  <2> QED
    BY <1>2, <2>1, <2>2
<1>4. ASSUME NEW j \in T PROVE j + 1 \in T
  <2>1. CASE j + 1 <= n
    <3>1. s[j] = ScanTo(i)[j] /\ j + 1 # 0 /\ (j + 1) - 1 = j /\ j + 1 \in 0 .. n
      BY <1>0, <2>1
    <3>2. ScanStep(s, i, j + 1) = ScanStep(ScanTo(i), i, j + 1)
      BY <3>1 DEF ScanStep
    <3> QED
      BY <1>2, <3>1, <3>2
  <2> QED
    BY <2>1
<1>5. n \in T
  <2> HIDE DEF T
  <2>1. T \in SUBSET Nat
    BY DEF T
  <2> QED
    BY <1>0, <1>3, <1>4, <2>1, NatSetInduction
<1>6. InnerCount(i) = s[n]
  BY DEF InnerCount, s, Scan, ScanStep
<1> QED
  BY <1>0, <1>5, <1>6 DEF ScanTo
-----------------------------------------------------------------------------
\* The earliest of the most common among the first i.
IsBest(p, i) ==
    /\ p \in 1 .. i
    /\ \A k \in 1 .. i : CountOf(atts, atts[k]) <= CountOf(atts, atts[p])
    /\ \A k \in 1 .. i : k < p => CountOf(atts, atts[k]) < CountOf(atts, atts[p])

Best(i) == CHOOSE p : IsBest(p, i)

HashesTo(i) == {atts[k] : k \in 1 .. i}

LoopTo ==
    [i \in 0 .. Len(atts) |->
        [top       |-> IF i = 0 THEN ZeroHash ELSE atts[Best(i)],
         top_count |-> IF i = 0 THEN 0 ELSE CountOf(atts, atts[Best(i)]),
         distinct  |-> Cardinality(HashesTo(i))]]

LEMMA CountsAreCounts ==
  ASSUME IsAtts, NEW i \in 1 .. Len(atts)
  PROVE  /\ CountOf(atts, atts[i]) = CountTo(Len(atts), atts[i])
         /\ CountOf(atts, atts[i]) \in Nat /\ CountOf(atts, atts[i]) > 0
<1> DEFINE at == {k \in 1 .. Len(atts) : atts[k] = atts[i]}
<1>1. DOMAIN atts = 1 .. Len(atts) /\ Len(atts) \in Nat
  BY DEF IsAtts
<1>2. CountOf(atts, atts[i]) = Cardinality(at) /\ CountTo(Len(atts), atts[i]) = Cardinality(at)
  BY <1>1 DEF CountOf, CountTo
<1>3. IsFiniteSet(at) /\ at # {}
  <2>1. IsFiniteSet(1 .. Len(atts)) /\ at \subseteq 1 .. Len(atts) /\ i \in at
    BY <1>1, FS_Interval
  <2> QED
    BY <2>1, FS_Subset
<1>4. Cardinality(at) \in Nat /\ Cardinality(at) # 0
  BY <1>3, FS_CardinalityType, FS_EmptySet
<1> QED
  BY <1>2, <1>4

\* The next position is the best if it is strictly more common; else the best stays.
LEMMA BestSteps ==
  ASSUME IsAtts, NEW i \in Nat, i + 1 \in 1 .. Len(atts), i # 0, NEW p, IsBest(p, i)
  PROVE  IsBest(IF CountOf(atts, atts[i + 1]) > CountOf(atts, atts[p]) THEN i + 1 ELSE p, i + 1)
<1> DEFINE c(k) == CountOf(atts, atts[k])
<1>0. Len(atts) \in Nat
  BY DEF IsAtts
<1>1. \A k \in 1 .. i + 1 : c(k) \in Nat
  BY <1>0, CountsAreCounts
<1>2. /\ p \in 1 .. i /\ \A k \in 1 .. i : c(k) <= c(p)
      /\ \A k \in 1 .. i : k < p => c(k) < c(p)
  BY DEF IsBest
<1> HIDE DEF c
<1>3. \A k \in 1 .. i + 1 : k \in 1 .. i \/ k = i + 1
  OBVIOUS
<1>4. CASE c(i + 1) > c(p)
  <2>1. \A k \in 1 .. i : c(k) < c(i + 1)
    <3> TAKE k \in 1 .. i
    <3>1. c(k) <= c(p) /\ k \in 1 .. i + 1 /\ p \in 1 .. i + 1 /\ i + 1 \in 1 .. i + 1
      BY <1>2
    <3> QED
      BY <1>1, <1>4, <3>1
  <2>2. c(i + 1) <= c(i + 1)
    BY <1>1
  <2>3. \A k \in 1 .. i + 1 : c(k) <= c(i + 1) /\ (k < i + 1 => c(k) < c(i + 1))
    BY <1>1, <1>3, <2>1, <2>2
  <2> QED
    BY <1>4, <2>3 DEF IsBest, c
<1>5. CASE ~ (c(i + 1) > c(p))
  <2>1. c(i + 1) <= c(p)
    BY <1>1, <1>2, <1>5
  <2>2. \A k \in 1 .. i + 1 : c(k) <= c(p) /\ (k < p => c(k) < c(p))
    BY <1>2, <1>3, <2>1
  <2> QED
    BY <1>2, <1>5, <2>2 DEF IsBest, c
<1> QED
  BY <1>4, <1>5 DEF c

LEMMA OneIsBest == ASSUME IsAtts, 1 \in 1 .. Len(atts) PROVE IsBest(1, 1)
  BY CountsAreCounts DEF IsBest

LEMMA BestIsUnique ==
  ASSUME IsAtts, NEW i \in 1 .. Len(atts), NEW p, NEW q, IsBest(p, i), IsBest(q, i)
  PROVE  p = q
<1> DEFINE c(k) == CountOf(atts, atts[k])
<1>1. Len(atts) \in Nat /\ p \in 1 .. i /\ q \in 1 .. i
  BY DEF IsAtts, IsBest
<1>2. c(p) \in Nat /\ c(q) \in Nat
  BY <1>1, CountsAreCounts
<1>3. c(p) <= c(q) /\ c(q) <= c(p) /\ (p < q => c(p) < c(q)) /\ (q < p => c(q) < c(p))
  BY <1>1 DEF IsBest
<1> HIDE DEF c
<1> QED
  BY <1>1, <1>2, <1>3

LEMMA BestIsBest == ASSUME IsAtts, NEW i \in 1 .. Len(atts) PROVE IsBest(Best(i), i)
<1> DEFINE T == {m \in Nat : m \in 1 .. Len(atts) => \E p : IsBest(p, m)}
<1>0. Len(atts) \in Nat
  BY DEF IsAtts
<1>1. 0 \in T
  OBVIOUS
<1>2. ASSUME NEW m \in T PROVE m + 1 \in T
  <2>1. CASE m = 0
    BY <2>1, OneIsBest
  <2>2. CASE m # 0 /\ m + 1 \in 1 .. Len(atts)
    <3>1. m \in 1 .. Len(atts)
      BY <1>0, <2>2
    <3>2. PICK p : IsBest(p, m)
      BY <3>1
    <3>3. \E q : IsBest(q, m + 1)
      BY <2>2, <3>2, BestSteps
    <3> QED
      BY <3>3
  <2> QED
    BY <2>1, <2>2
<1>3. i \in T
  <2>1. T \in SUBSET Nat
    OBVIOUS
  <2> HIDE DEF T
  <2> QED
    BY <1>0, <1>1, <1>2, <2>1, NatSetInduction
<1>4. \E p : IsBest(p, i)
  BY <1>3
<1> QED
  BY <1>4 DEF Best

LEMMA HashesGrow ==
  ASSUME IsAtts, NEW i \in 1 .. Len(atts)
  PROVE  /\ Cardinality(HashesTo(0)) = 0
         /\ Cardinality(HashesTo(i - 1)) \in Nat
         /\ Cardinality(HashesTo(i)) = IF FirstTo(i, Len(atts)) THEN Cardinality(HashesTo(i - 1)) + 1
                                       ELSE Cardinality(HashesTo(i - 1))
<1>0. Len(atts) \in Nat
  BY DEF IsAtts
<1>1. HashesTo(0) = {}
  BY DEF HashesTo
<1>2. IsFiniteSet(HashesTo(i - 1))
  <2>1. i - 1 \in Nat /\ IsFiniteSet(1 .. i - 1)
    BY FS_Interval
  <2> DEFINE f == [k \in 1 .. i - 1 |-> atts[k]]
  <2>2. f \in Surjection(1 .. i - 1, HashesTo(i - 1))
    BY DEF Surjection, HashesTo
  <2> HIDE DEF f
  <2> QED
    BY <2>1, <2>2, FS_Surjection
<1>3. HashesTo(i) = HashesTo(i - 1) \cup {atts[i]}
  <2>1. 1 .. i = 1 .. (i - 1) \cup {i}
    OBVIOUS
  <2> QED
    BY <2>1 DEF HashesTo
<1>4. FirstTo(i, Len(atts)) <=> atts[i] \notin HashesTo(i - 1)
  <2>1. \A k \in 1 .. Len(atts) : k < i <=> k \in 1 .. i - 1
    BY <1>0
  <2>2. \A k \in 1 .. i - 1 : k \in 1 .. Len(atts)
    BY <1>0
  <2> QED
    BY <2>1, <2>2 DEF HashesTo, FirstTo
<1>5. CASE FirstTo(i, Len(atts))
  BY <1>1, <1>2, <1>3, <1>4, <1>5, FS_AddElement, FS_EmptySet, FS_CardinalityType
<1>6. CASE ~FirstTo(i, Len(atts))
  <2>1. HashesTo(i) = HashesTo(i - 1)
    BY <1>3, <1>4, <1>6
  <2> QED
    BY <1>1, <1>2, <1>6, <2>1, FS_EmptySet, FS_CardinalityType
<1> QED
  BY <1>5, <1>6

LEMMA LoopToFields ==
  ASSUME IsAtts
  PROVE  /\ LoopTo[0] = [top |-> ZeroHash, top_count |-> 0, distinct |-> 0]
         /\ \A i \in 1 .. Len(atts) :
              LoopTo[i] = [top |-> atts[Best(i)], top_count |-> CountOf(atts, atts[Best(i)]),
                           distinct |-> Cardinality(HashesTo(i))]
<1>1. Len(atts) \in Nat
  BY DEF IsAtts
<1>2. Cardinality(HashesTo(0)) = 0
  BY FS_EmptySet DEF HashesTo
<1> QED
  BY <1>1, <1>2 DEF LoopTo

\* One pass of the outer loop gets from one closed form to the next.
LEMMA OuterStepSteps ==
  ASSUME IsAtts, NEW i \in 1 .. Len(atts)
  PROVE  OuterStep(LoopTo[i - 1], i) = LoopTo[i]
<1> DEFINE count_i == CountOf(atts, atts[i])
           hashes == Cardinality(HashesTo(i - 1))
           first == FirstTo(i, Len(atts))
           acc == LoopTo[i - 1]
<1>0. Len(atts) \in Nat /\ i - 1 \in Nat
  BY DEF IsAtts
<1>1. InnerCount(i).count = count_i /\ InnerCount(i).first_seen = first
  BY InnerCounts, CountsAreCounts, FieldsOfScan
<1>2. Cardinality(HashesTo(i)) = IF first THEN hashes + 1 ELSE hashes
  BY HashesGrow
<1>3. count_i \in Nat /\ count_i > 0
  BY CountsAreCounts
<1>4. ASSUME NEW t, NEW n \in Nat, acc = [top |-> t, top_count |-> n, distinct |-> hashes]
      PROVE  OuterStep(acc, i) =
               [top |-> IF count_i > n THEN atts[i] ELSE t,
                top_count |-> IF count_i > n THEN count_i ELSE n,
                distinct |-> Cardinality(HashesTo(i))]
  <2> HIDE DEF acc, count_i, hashes, first
  <2>1. CASE first
    BY <1>1, <1>2, <1>4, <2>1 DEF OuterStep
  <2>2. CASE ~first
    BY <1>1, <1>2, <1>4, <2>2 DEF OuterStep
  <2> QED
    BY <2>1, <2>2
<1>5. IsBest(Best(i), i)
  BY BestIsBest
<1>6. CASE i = 1
  <2>1. acc = [top |-> ZeroHash, top_count |-> 0, distinct |-> hashes]
    BY <1>6, LoopToFields, HashesGrow
  <2>2. Best(i) = 1
    BY <1>5, <1>6 DEF IsBest
  <2> HIDE DEF acc
  <2>3. OuterStep(acc, i) = [top |-> atts[i], top_count |-> count_i, distinct |-> Cardinality(HashesTo(i))]
    BY <1>3, <1>4, <2>1
  <2> QED
    BY <1>6, <2>2, <2>3, LoopToFields DEF acc
<1>7. CASE i # 1
  <2> DEFINE p == Best(i - 1)
             top == CountOf(atts, atts[p])
             q == IF count_i > top THEN i ELSE p
  <2>0. i - 1 \in 1 .. Len(atts) /\ i - 1 # 0 /\ (i - 1) + 1 = i
    BY <1>0, <1>7
  <2>1. IsBest(p, i - 1)
    BY <2>0, BestIsBest
  <2>2. acc = [top |-> atts[p], top_count |-> top, distinct |-> hashes]
    BY <2>0, LoopToFields
  <2>3. p \in 1 .. Len(atts) /\ top \in Nat
    <3>1. p \in 1 .. Len(atts)
      BY <1>0, <2>1 DEF IsBest
    <3> QED
      BY <3>1, CountsAreCounts
  <2> HIDE DEF acc, p
  <2>4. IsBest(q, i)
    BY <1>0, <2>0, <2>1, BestSteps
  <2> HIDE DEF q
  <2>5. q = Best(i)
    BY <1>5, <2>4, BestIsUnique
  <2>6. /\ atts[q] = (IF count_i > top THEN atts[i] ELSE atts[p])
        /\ CountOf(atts, atts[q]) = (IF count_i > top THEN count_i ELSE top)
    BY DEF q
  <2> HIDE DEF top, count_i
  <2>7. OuterStep(acc, i) =
          [top |-> atts[q], top_count |-> CountOf(atts, atts[q]), distinct |-> Cardinality(HashesTo(i))]
    <3>1. OuterStep(acc, i) =
               [top |-> IF count_i > top THEN atts[i] ELSE atts[p],
                top_count |-> IF count_i > top THEN count_i ELSE top,
                distinct |-> Cardinality(HashesTo(i))]
      BY <1>4, <2>2, <2>3
    <3> QED
      BY <2>6, <3>1
  <2> QED
    BY <2>5, <2>7, LoopToFields DEF acc
<1> QED
  BY <1>6, <1>7

LoopStep(loop, i) ==
    IF i = 0 THEN [top |-> ZeroHash, top_count |-> 0, distinct |-> 0] ELSE OuterStep(loop[i - 1], i)

Loop == CHOOSE loop : loop = [i \in 0 .. Len(atts) |-> LoopStep(loop, i)]

\* What the two loops return.
LEMMA TallyIsClosed == ASSUME IsAtts PROVE tally_of = LoopTo[Len(atts)]
<1> DEFINE n == Len(atts)
           T == {j \in Nat : j <= n => Loop[j] = LoopTo[j]}
<1>0. n \in Nat
  BY DEF IsAtts
<1>1. \A i \in 0 .. n : LoopTo[i] = LoopStep(LoopTo, i)
  BY <1>0, LoopToFields, OuterStepSteps DEF LoopStep
<1>2. LoopTo = [i \in 0 .. n |-> LoopStep(LoopTo, i)]
  <2>1. LoopTo = [i \in 0 .. n |-> LoopTo[i]]
    BY DEF LoopTo
  <2> QED
    BY <1>1, <2>1
<1>3. Loop = [i \in 0 .. n |-> LoopStep(Loop, i)]
  BY <1>2 DEF Loop
<1>4. \A i \in 0 .. n : Loop[i] = LoopStep(Loop, i)
  BY <1>3
<1>5. 0 \in T
  BY <1>0, <1>1, <1>4 DEF LoopStep
<1>6. ASSUME NEW j \in T PROVE j + 1 \in T
  <2>1. CASE j + 1 <= n
    <3>1. Loop[j] = LoopTo[j] /\ j + 1 # 0 /\ (j + 1) - 1 = j /\ j + 1 \in 0 .. n
      BY <1>0, <2>1
    <3>2. LoopStep(Loop, j + 1) = LoopStep(LoopTo, j + 1)
      BY <3>1 DEF LoopStep
    <3> QED
      BY <1>1, <1>4, <3>1, <3>2
  <2> QED
    BY <2>1
<1>7. n \in T
  <2>1. T \in SUBSET Nat
    OBVIOUS
  <2> HIDE DEF T
  <2> QED
    BY <1>0, <1>5, <1>6, <2>1, NatSetInduction
<1>8. tally_of = Loop[n]
  BY DEF tally_of, Loop, LoopStep
<1> QED
  BY <1>0, <1>7, <1>8

LEMMA LoopsAgree == ASSUME IsAtts PROVE LoopMatchesTally
<1> DEFINE n == Len(atts)
<1>0. n \in Nat /\ DOMAIN atts = 1 .. n
  BY DEF IsAtts
<1>1. Distinct(atts) = Cardinality(HashesTo(n))
  BY <1>0 DEF Distinct, HashesTo
<1>2. CASE atts = <<>>
  <2>1. n = 0 /\ TopCount(atts) = 0
    BY <1>2 DEF TopCount
  <2>2. tally_of = [top |-> ZeroHash, top_count |-> 0, distinct |-> 0]
    BY <2>1, TallyIsClosed, LoopToFields
  <2>3. Cardinality(HashesTo(n)) = 0
    BY <2>1, FS_EmptySet DEF HashesTo
  <2> QED
    BY <1>1, <1>2, <2>1, <2>2, <2>3 DEF LoopMatchesTally
<1>3. CASE atts # <<>>
  <2>1. n \in 1 .. n
    BY <1>0, <1>3 DEF IsAtts
  <2>2. tally_of = [top |-> atts[Best(n)], top_count |-> CountOf(atts, atts[Best(n)]),
                    distinct |-> Cardinality(HashesTo(n))]
    BY <2>1, TallyIsClosed, LoopToFields
  <2>3. IsBest(Best(n), n)
    BY <2>1, BestIsBest
  <2>4. \A p : p \in DOMAIN atts /\ IsTopPosition(atts, p) <=> IsBest(p, n)
    BY <1>0 DEF IsTopPosition, IsBest
  <2>5. TopHash(atts) = atts[Best(n)]
    <3> DEFINE p == CHOOSE i \in DOMAIN atts : IsTopPosition(atts, i)
    <3>1. p \in DOMAIN atts /\ IsTopPosition(atts, p)
      BY <2>3, <2>4
    <3> HIDE DEF p
    <3>2. p = Best(n)
      BY <2>1, <2>3, <2>4, <3>1, BestIsUnique
    <3> QED
      BY <3>2 DEF TopHash, p
  <2>6. TopCount(atts) = CountOf(atts, atts[Best(n)])
    BY <1>3, <2>5 DEF TopCount
  <2> QED
    BY <1>1, <2>2, <2>5, <2>6 DEF LoopMatchesTally
<1> QED
  BY <1>2, <1>3

\* The two loops of tally_of return the declarative tally, on which every verdict of the
\* registry is proved, for any list of attestations.
THEOREM TallyLoopsCount == TallySpec => []LoopMatchesTally
<1>1. TallyInit => IsAtts
  BY DEF TallyInit, IsAtts
<1>2. IsAtts /\ [TallyNext]_atts => IsAtts'
  BY DEF IsAtts, TallyNext, Push
<1>3. IsAtts => LoopMatchesTally
  BY LoopsAgree
<1> QED
  BY <1>1, <1>2, <1>3, PTL DEF TallySpec
-----------------------------------------------------------------------------
(* The claim digest.  What is laid out for an option is its length and then  *)
(* the option; the service flattens these and the contract folds them.       *)

\* Two jobs' options by themselves.
DigestSpec == ClaimInit /\ [][ClaimNext]_claimVars

Options == Seq(Seq(Nat))

Symbol == {"sorofy-claim-v1", "s1", "s2", "i1", "i2"} \cup Nat

Part(opt) == <<Len(opt)>> \o opt

\* laid[k] is what is laid out for the first k options, after b.
IsLaid(opts, b, laid) ==
    /\ laid \in [0 .. Len(opts) -> Seq(Symbol)]
    /\ laid[0] = b
    /\ \A k \in Nat : k < Len(opts) => laid[k + 1] = laid[k] \o Part(opts[k + 1])

Laid(opts, b) == CHOOSE laid : IsLaid(opts, b, laid)

LEMMA MaxIsOne ==
  ASSUME NEW n \in Nat, NEW s \in SUBSET (1 .. n), s # {}
  PROVE  Max(s) \in s /\ \A y \in s : Max(s) >= y
<1> DEFINE HasMax(t) == \E x \in t : \A y \in t : x >= y
           T == {m \in Nat : \A t \in SUBSET (1 .. m) : t # {} => HasMax(t)}
<1>1. 0 \in T
  <2>1. 1 .. 0 = {}
    OBVIOUS
  <2> QED
    BY <2>1
<1>2. ASSUME NEW m \in T PROVE m + 1 \in T
  <2> SUFFICES ASSUME NEW t \in SUBSET (1 .. m + 1), t # {} PROVE HasMax(t)
    OBVIOUS
  <2>1. CASE m + 1 \in t
    BY <2>1
  <2>2. CASE m + 1 \notin t
    <3>1. t \in SUBSET (1 .. m)
      BY <2>2
    <3> QED
      BY <3>1
  <2> QED
    BY <2>1, <2>2
<1>3. n \in T
  <2> HIDE DEF T
  <2>1. T \in SUBSET Nat
    BY DEF T
  <2> QED
    BY <1>1, <1>2, <2>1, NatSetInduction
<1>4. \E x \in s : \A y \in s : x >= y
  BY <1>3
<1> QED
  BY <1>4 DEF Max

LEMMA MaxOfPrefix ==
  ASSUME NEW k \in Nat
  PROVE  Max(1 .. (k + 1)) = k + 1 /\ (1 .. (k + 1)) \ {k + 1} = 1 .. k
<1> DEFINE n == k + 1
<1>1. n \in Nat /\ n \in 1 .. n /\ (1 .. n) \ {n} = 1 .. k
  OBVIOUS
<1> HIDE DEF n
<1>2. 1 .. n # {} /\ 1 .. n \in SUBSET (1 .. n)
  BY <1>1
<1>3. Max(1 .. n) \in 1 .. n /\ \A y \in 1 .. n : Max(1 .. n) >= y
  BY <1>1, <1>2, MaxIsOne
<1>4. Max(1 .. n) = n
  BY <1>1, <1>3
<1> QED
  BY <1>1, <1>4 DEF n

LEMMA PartIsSeq ==
  ASSUME NEW opts \in Options, NEW k \in 1 .. Len(opts)
  PROVE  /\ opts[k] \in Seq(Nat) /\ Len(opts[k]) \in Nat /\ opts[k] \in Seq(Symbol)
         /\ <<Len(opts[k])>> \in Seq(Symbol)
         /\ Part(opts[k]) \in Seq(Symbol)
         /\ Len(Part(opts[k])) = Len(opts[k]) + 1 /\ Part(opts[k])[1] = Len(opts[k])
         /\ \A j \in 1 .. Len(opts[k]) : Part(opts[k])[j + 1] = opts[k][j]
<1> DEFINE opt == opts[k]
<1>1. opt \in Seq(Nat)
  BY DEF Options
<1> HIDE DEF opt
<1>2. Len(opt) \in Nat /\ Nat \subseteq Symbol
  BY <1>1 DEF Symbol
<1>3. opt \in Seq(Symbol) /\ <<Len(opt)>> \in Seq(Symbol)
  BY <1>1, <1>2, SeqMonotonic
<1>4. /\ <<Len(opt)>> \o opt \in Seq(Symbol)
      /\ Len(<<Len(opt)>> \o opt) = 1 + Len(opt)
      /\ (<<Len(opt)>> \o opt)[1] = Len(opt)
      /\ \A j \in 1 .. Len(opt) : (<<Len(opt)>> \o opt)[j + 1] = opt[j]
  BY <1>1, <1>2, <1>3
<1> QED
  BY <1>1, <1>2, <1>3, <1>4 DEF Part, opt

LEMMA ConcatsAssociate == \A u, v, w \in Seq(Symbol) : (u \o v) \o w = u \o (v \o w)
  BY ConcatAssociative

\* The contract's buffer, as the fold has it: what was appended for the options in s.
BufStep(opts, b, g, s) ==
    IF s = {} THEN b ELSE (g[s \ {Max(s)}] \o <<Len(opts[Max(s)])>>) \o opts[Max(s)]

Bufs(opts, b) == CHOOSE g : g = [s \in SUBSET DOMAIN opts |-> BufStep(opts, b, g, s)]

LEMMA BufsExist ==
  ASSUME NEW opts \in Options, NEW b \in Seq(Symbol)
  PROVE  Bufs(opts, b) = [s \in SUBSET DOMAIN opts |-> BufStep(opts, b, Bufs(opts, b), s)]
<1> DEFINE S == DOMAIN opts
           B == Seq(Symbol)
           F == [k \in S |-> [buf \in B |-> (buf \o <<Len(opts[k])>>) \o opts[k]]]
           pick == [s \in SUBSET S |-> Max(s)]
<1>0. S = 1 .. Len(opts) /\ Len(opts) \in Nat
  BY DEF Options
<1>1. \A k \in S, buf \in B : (buf \o <<Len(opts[k])>>) \o opts[k] \in B
  BY <1>0, PartIsSeq, ConcatProperties
<1>2. F \in [S -> [B -> B]] /\ \A k \in S, buf \in B : F[k][buf] = (buf \o <<Len(opts[k])>>) \o opts[k]
  <2> HIDE DEF B, S
  <2> QED
    BY <1>1
<1>3. \A s \in SUBSET S : pick[s] = Max(s) /\ (s # {} => pick[s] \in s)
  BY <1>0, MaxIsOne
<1>4. IsFiniteSet(S) /\ b \in B
  BY <1>0, FS_Interval
<1> HIDE DEF F, pick, S, B
<1>5. PICK g : IsFold(S, B, b, F, pick, g)
  <2>1. Foldable(S, B, b, F, pick)
    BY <1>2, <1>3, <1>4 DEF Foldable
  <2> QED
    BY <2>1, FoldsExist
<1>6. g \in [SUBSET S -> B] /\ \A s \in SUBSET S : g[s] = FoldStep(b, F, pick, g, s)
  BY <1>5 DEF IsFold
<1>7. ASSUME NEW s \in SUBSET S PROVE g[s] = BufStep(opts, b, g, s)
  <2>1. CASE s # {}
    <3>1. Max(s) \in S /\ g[s \ {Max(s)}] \in B
      BY <1>3, <1>6, <2>1
    <3> QED
      BY <1>2, <1>3, <1>6, <2>1, <3>1 DEF BufStep, FoldStep
  <2> QED
    BY <1>6, <2>1 DEF BufStep, FoldStep
<1>8. g = [s \in SUBSET S |-> BufStep(opts, b, g, s)]
  BY <1>6, <1>7
<1> QED
  BY <1>8 DEF Bufs, S

\* Option by option, the buffer is what is laid out.
LEMMA BufsAreLaid ==
  ASSUME NEW opts \in Options, NEW b \in Seq(Symbol)
  PROVE  IsLaid(opts, b, [k \in 0 .. Len(opts) |-> Bufs(opts, b)[1 .. k]])
<1> DEFINE n == Len(opts)
           g == Bufs(opts, b)
           T == {k \in Nat : k <= n => g[1 .. k] \in Seq(Symbol)}
<1>0. DOMAIN opts = 1 .. n /\ n \in Nat
  BY DEF Options
<1>1. \A s \in SUBSET (1 .. n) : g[s] = BufStep(opts, b, g, s)
  <2>1. g = [s \in SUBSET (1 .. n) |-> BufStep(opts, b, g, s)]
    BY <1>0, BufsExist
  <2> HIDE DEF g
  <2> QED
    BY <2>1
<1> HIDE DEF g
<1>2. g[1 .. 0] = b
  <2>1. 1 .. 0 = {} /\ {} \in SUBSET (1 .. n)
    OBVIOUS
  <2> QED
    BY <1>1, <2>1 DEF BufStep
<1>3. ASSUME NEW k \in Nat, k < n, g[1 .. k] \in Seq(Symbol)
      PROVE  g[1 .. (k + 1)] \in Seq(Symbol) /\ g[1 .. (k + 1)] = g[1 .. k] \o Part(opts[k + 1])
  <2> DEFINE i == k + 1
             buf == g[1 .. k]
             len == <<Len(opts[i])>>
  <2>1. i \in 1 .. n /\ i \in 1 .. i /\ 1 .. i \subseteq 1 .. n
    BY <1>0, <1>3
  <2>2. Max(1 .. i) = i /\ (1 .. i) \ {i} = 1 .. k
    BY MaxOfPrefix
  <2> HIDE DEF i
  <2>3. g[1 .. i] = (buf \o len) \o opts[i]
    <3>1. 1 .. i \in SUBSET (1 .. n) /\ 1 .. i # {}
      BY <2>1
    <3> QED
      BY <1>1, <2>2, <3>1 DEF BufStep
  <2>4. buf \in Seq(Symbol) /\ len \in Seq(Symbol) /\ opts[i] \in Seq(Symbol)
        /\ Part(opts[i]) \in Seq(Symbol)
    BY <1>3, <2>1, PartIsSeq
  <2>5. Part(opts[i]) = len \o opts[i]
    BY DEF Part
  <2> HIDE DEF buf, len
  <2>6. (buf \o len) \o opts[i] = buf \o (len \o opts[i]) /\ buf \o Part(opts[i]) \in Seq(Symbol)
    BY <2>4, ConcatsAssociate, ConcatProperties
  <2> QED
    BY <2>3, <2>5, <2>6 DEF buf, i
<1>4. 0 \in T
  BY <1>2
<1>5. ASSUME NEW k \in T PROVE k + 1 \in T
  <2>1. CASE k + 1 <= n
    <3>1. k \in Nat /\ k < n /\ g[1 .. k] \in Seq(Symbol)
      BY <1>0, <2>1
    <3>2. g[1 .. (k + 1)] \in Seq(Symbol)
      BY <1>3, <3>1
    <3>3. k + 1 \in Nat
      BY <3>1
    <3> QED
      BY <3>2, <3>3
  <2> QED
    BY <2>1
<1>6. Nat \subseteq T
  <2> HIDE DEF T
  <2>1. T \in SUBSET Nat
    BY DEF T
  <2> QED
    BY <1>4, <1>5, <2>1, NatSetInduction
<1>7. \A k \in 0 .. n : g[1 .. k] \in Seq(Symbol)
  BY <1>0, <1>6
<1>8. ASSUME NEW k \in Nat, k < n PROVE g[1 .. (k + 1)] = g[1 .. k] \o Part(opts[k + 1])
  <2>1. k \in 0 .. n
    BY <1>0, <1>8
  <2> QED
    BY <1>3, <1>7, <1>8, <2>1
<1> DEFINE laid == [k \in 0 .. n |-> g[1 .. k]]
<1>9. laid \in [0 .. n -> Seq(Symbol)] /\ \A k \in 0 .. n : laid[k] = g[1 .. k]
  BY <1>7
<1> HIDE DEF laid
<1>10. IsLaid(opts, b, laid)
  <2>1. laid[0] = b
    BY <1>0, <1>2, <1>9
  <2>2. ASSUME NEW k \in Nat, k < n PROVE laid[k + 1] = laid[k] \o Part(opts[k + 1])
    <3>1. k \in 0 .. n /\ k + 1 \in 0 .. n
      BY <1>0, <2>2
    <3>2. laid[k] = g[1 .. k] /\ laid[k + 1] = g[1 .. (k + 1)]
      BY <1>9, <3>1
    <3> QED
      BY <1>8, <2>2, <3>2
  <2> QED
    BY <1>9, <2>1, <2>2 DEF IsLaid
<1> QED
  BY <1>10 DEF laid, g

LEMMA LaidIsLaid ==
  ASSUME NEW opts \in Options, NEW b \in Seq(Symbol)
  PROVE  IsLaid(opts, b, Laid(opts, b))
  BY BufsAreLaid DEF Laid

\* Whatever satisfies the recursion is the same at every option.
LEMMA LaidIsUnique ==
  ASSUME NEW opts \in Options, NEW b, NEW e, NEW f, IsLaid(opts, b, e), IsLaid(opts, b, f),
         NEW k \in 0 .. Len(opts)
  PROVE  e[k] = f[k]
<1> DEFINE T == {m \in Nat : m <= Len(opts) => e[m] = f[m]}
<1>0. Len(opts) \in Nat
  BY DEF Options
<1>1. 0 \in T
  BY DEF IsLaid
<1>2. ASSUME NEW m \in T PROVE m + 1 \in T
  <2>1. CASE m + 1 <= Len(opts)
    <3>1. m \in Nat /\ m < Len(opts) /\ e[m] = f[m]
      BY <1>0, <2>1
    <3>2. e[m + 1] = e[m] \o Part(opts[m + 1]) /\ f[m + 1] = f[m] \o Part(opts[m + 1])
      BY <3>1 DEF IsLaid
    <3>3. e[m + 1] = f[m + 1] /\ m + 1 \in Nat
      BY <3>1, <3>2
    <3> QED
      BY <3>3
  <2> QED
    BY <2>1
<1>3. k \in T
  <2> HIDE DEF T
  <2>1. T \in SUBSET Nat
    BY DEF T
  <2> QED
    BY <1>0, <1>1, <1>2, <2>1, NatSetInduction
<1> QED
  BY <1>0, <1>3

\* The contract's fold.
LEMMA FoldIsLaid ==
  ASSUME NEW opts \in Options, NEW in \in Inputs
  PROVE  LET b == <<"sorofy-claim-v1">> \o <<in.source>> \o <<in.image>> \o <<Len(opts)>>
         IN  b \in Seq(Symbol) => claim_input_digest(in, opts) = Laid(opts, b)[Len(opts)]
<1> DEFINE b == <<"sorofy-claim-v1">> \o <<in.source>> \o <<in.image>> \o <<Len(opts)>>
<1>1. claim_input_digest(in, opts) = Bufs(opts, b)[DOMAIN opts]
  BY DEF claim_input_digest, FoldLeft, MapThenFoldSet, Bufs, BufStep
<1> HIDE DEF b
<1> SUFFICES ASSUME b \in Seq(Symbol) PROVE claim_input_digest(in, opts) = Laid(opts, b)[Len(opts)]
  BY DEF b
<1>2. DOMAIN opts = 1 .. Len(opts) /\ Len(opts) \in 0 .. Len(opts)
  BY DEF Options
<1> DEFINE e == [k \in 0 .. Len(opts) |-> Bufs(opts, b)[1 .. k]]
<1>3. e[Len(opts)] = Bufs(opts, b)[DOMAIN opts]
  BY <1>2
<1>4. IsLaid(opts, b, e) /\ IsLaid(opts, b, Laid(opts, b))
  BY BufsAreLaid, LaidIsLaid
<1> HIDE DEF e
<1> QED
  BY <1>1, <1>2, <1>3, <1>4, LaidIsUnique

\* The service's flattened parts.
FlatStep(seqs, flat, i) == IF i = 1 THEN seqs[i] ELSE flat[i - 1] \o seqs[i]

Flat(seqs) == CHOOSE flat : flat = [i \in 1 .. Len(seqs) |-> FlatStep(seqs, flat, i)]

LEMMA FlattenIsLaid ==
  ASSUME NEW opts \in Options
  PROVE  FlattenSeq([i \in DOMAIN opts |-> <<Len(opts[i])>> \o opts[i]]) = Laid(opts, <<>>)[Len(opts)]
<1> DEFINE n == Len(opts)
           seqs == [i \in DOMAIN opts |-> <<Len(opts[i])>> \o opts[i]]
           e == Laid(opts, <<>>)
           flat == Flat(seqs)
           T == {m \in Nat : m + 1 <= n => flat[m + 1] = e[m + 1]}
<1>0. DOMAIN opts = 1 .. n /\ n \in Nat /\ n \in 0 .. n
  BY DEF Options
<1>1. seqs \in Seq(Seq(Symbol)) /\ Len(seqs) = n /\ \A i \in 1 .. n : seqs[i] = Part(opts[i])
  <2>1. \A i \in 1 .. n : <<Len(opts[i])>> \o opts[i] \in Seq(Symbol)
    BY PartIsSeq DEF Part
  <2>2. seqs \in [1 .. n -> Seq(Symbol)]
    BY <1>0, <2>1
  <2>3. \A i \in 1 .. n : seqs[i] = Part(opts[i])
    BY <1>0 DEF Part
  <2> HIDE DEF seqs
  <2> QED
    BY <1>0, <2>2, <2>3
<1>2. e[0] = <<>> /\ \A k \in Nat : k < n => e[k + 1] = e[k] \o Part(opts[k + 1])
  <2>1. <<>> \in Seq(Symbol)
    OBVIOUS
  <2>2. IsLaid(opts, <<>>, e)
    BY <2>1, LaidIsLaid
  <2> HIDE DEF e
  <2> QED
    BY <2>2 DEF IsLaid
<1>3. FlattenSeq(seqs) = IF Len(seqs) = 0 THEN seqs ELSE flat[Len(seqs)]
  BY DEF FlattenSeq, Flat, FlatStep
<1> HIDE DEF seqs, e
<1>4. \A k \in Nat : k < n => FlatStep(seqs, e, k + 1) = e[k + 1]
  <2> SUFFICES ASSUME NEW k \in Nat, k < n PROVE FlatStep(seqs, e, k + 1) = e[k + 1]
    OBVIOUS
  <2>1. k + 1 \in 1 .. n /\ seqs[k + 1] = Part(opts[k + 1]) /\ (k + 1) - 1 = k
    BY <1>0, <1>1
  <2>2. Part(opts[k + 1]) \in Seq(Symbol)
    BY <2>1, PartIsSeq
  <2>3. k = 0 => e[k + 1] = Part(opts[k + 1])
    BY <1>2, <2>1, <2>2, ConcatEmptySeq
  <2>4. CASE k = 0
    BY <2>1, <2>3, <2>4 DEF FlatStep
  <2>5. CASE k # 0
    <3>1. k + 1 # 1
      BY <2>5
    <3>2. FlatStep(seqs, e, k + 1) = e[k] \o seqs[k + 1]
      BY <2>1, <3>1 DEF FlatStep
    <3> QED
      BY <1>2, <2>1, <3>2
  <2> QED
    BY <2>4, <2>5
<1>5. flat = [i \in 1 .. n |-> FlatStep(seqs, flat, i)]
  <2> DEFINE g == [i \in 1 .. n |-> e[i]]
  <2>1. \A i \in 1 .. n : g[i] = e[i]
    OBVIOUS
  <2>2. ASSUME NEW i \in 1 .. n PROVE FlatStep(seqs, g, i) = e[i]
    <3> DEFINE k == i - 1
    <3>1. k \in Nat /\ k < n /\ k + 1 = i /\ (k # 0 => k \in 1 .. n)
      BY <1>0
    <3>2. FlatStep(seqs, e, i) = e[i]
      BY <1>4, <3>1
    <3>3. FlatStep(seqs, g, i) = FlatStep(seqs, e, i)
      BY <2>1, <3>1 DEF FlatStep
    <3> QED
      BY <3>2, <3>3
  <2>3. g = [i \in 1 .. n |-> FlatStep(seqs, g, i)]
    BY <2>2
  <2> HIDE DEF g
  <2> QED
    BY <1>1, <2>3 DEF Flat
<1> HIDE DEF flat
<1>6. \A i \in 1 .. n : flat[i] = FlatStep(seqs, flat, i)
  BY <1>5
<1>7. 0 \in T
  <2>1. CASE 1 <= n
    <3>1. flat[1] = FlatStep(seqs, flat, 1) /\ FlatStep(seqs, e, 1) = e[1]
      <4>1. 0 < n /\ 0 + 1 = 1 /\ 1 \in 1 .. n
        BY <1>0, <2>1
      <4> QED
        BY <1>4, <1>6, <4>1
    <3>2. FlatStep(seqs, flat, 1) = FlatStep(seqs, e, 1)
      BY DEF FlatStep
    <3> QED
      BY <3>1, <3>2
  <2> QED
    BY <2>1
<1>8. ASSUME NEW m \in T PROVE m + 1 \in T
  <2>1. CASE (m + 1) + 1 <= n
    <3> DEFINE i == m + 1
    <3>1. i \in Nat /\ i < n /\ i # 0 /\ i + 1 \in 1 .. n /\ (i + 1) - 1 = i /\ flat[i] = e[i]
      BY <1>0, <2>1
    <3>2. FlatStep(seqs, flat, i + 1) = FlatStep(seqs, e, i + 1)
      BY <3>1 DEF FlatStep
    <3>3. flat[i + 1] = e[i + 1]
      BY <1>4, <1>6, <3>1, <3>2
    <3> QED
      BY <3>1, <3>3
  <2> QED
    BY <2>1
<1>9. Nat \subseteq T
  <2> HIDE DEF T
  <2>1. T \in SUBSET Nat
    BY DEF T
  <2> QED
    BY <1>7, <1>8, <2>1, NatSetInduction
<1>10. CASE n = 0
  <2>1. seqs = <<>>
    BY <1>1, <1>10
  <2> QED
    BY <1>1, <1>2, <1>3, <1>10, <2>1 DEF seqs, e
<1>11. CASE n # 0
  <2> DEFINE m == n - 1
  <2>1. m \in Nat /\ m + 1 = n
    BY <1>0, <1>11
  <2>2. m \in T
    BY <1>9, <2>1
  <2>3. flat[n] = e[n]
    BY <2>1, <2>2
  <2> QED
    BY <1>1, <1>3, <1>11, <2>3 DEF seqs, e
<1> QED
  BY <1>10, <1>11

Starts(u, w) == Len(u) <= Len(w) /\ \A i \in 1 .. Len(u) : w[i] = u[i]

LEMMA ConcatIndexes ==
  ASSUME NEW u \in Seq(Symbol), NEW w \in Seq(Symbol)
  PROVE  /\ Len(u) \in Nat /\ Len(w) \in Nat /\ Len(u \o w) = Len(u) + Len(w)
         /\ \A i \in 1 .. Len(u) : (u \o w)[i] = u[i]
         /\ \A i \in 1 .. Len(w) : (u \o w)[Len(u) + i] = w[i]
<1>1. Len(u) \in Nat /\ Len(w) \in Nat
  BY LenProperties
<1>2. /\ Len(u \o w) = Len(u) + Len(w)
      /\ \A i \in 1 .. Len(u) + Len(w) : (u \o w)[i] = IF i <= Len(u) THEN u[i] ELSE w[i - Len(u)]
  BY ConcatProperties
<1>3. ASSUME NEW i \in 1 .. Len(w) PROVE (u \o w)[Len(u) + i] = w[i]
  <2>1. Len(u) + i \in 1 .. Len(u) + Len(w) /\ ~(Len(u) + i <= Len(u)) /\ (Len(u) + i) - Len(u) = i
    BY <1>1
  <2> QED
    BY <1>2, <2>1
<1> QED
  BY <1>1, <1>2, <1>3

LEMMA StartsOn ==
  ASSUME NEW u \in Seq(Symbol), NEW v \in Seq(Symbol), NEW w \in Seq(Symbol), Starts(u, v)
  PROVE  Starts(u, v \o w)
  BY ConcatIndexes, LenProperties DEF Starts

\* What is laid out for the first options starts what is laid out for all of them.
LEMMA LaidIsPrefix ==
  ASSUME NEW opts \in Options, NEW e, IsLaid(opts, <<>>, e), NEW k \in Nat, k <= Len(opts)
  PROVE  /\ e[k] \in Seq(Symbol)
         /\ Len(e[k]) <= Len(e[Len(opts)])
         /\ \A i \in 1 .. Len(e[k]) : e[Len(opts)][i] = e[k][i]
<1> DEFINE n == Len(opts)
           T == {d \in Nat : k + d <= n => Starts(e[k], e[k + d])}
<1>0. n \in Nat
  BY DEF Options
<1>1. \A m \in Nat : m <= n => e[m] \in Seq(Symbol) /\ Len(e[m]) \in Nat
  <2> SUFFICES ASSUME NEW m \in Nat, m <= n PROVE e[m] \in Seq(Symbol) /\ Len(e[m]) \in Nat
    OBVIOUS
  <2>1. m \in 0 .. n
    BY <1>0
  <2>2. e[m] \in Seq(Symbol)
    BY <2>1 DEF IsLaid
  <2> QED
    BY <2>2, LenProperties
<1>2. 0 \in T
  <2>1. Starts(e[k], e[k])
    BY <1>1 DEF Starts
  <2>2. k + 0 = k
    OBVIOUS
  <2> QED
    BY <2>1, <2>2
<1>3. ASSUME NEW d \in T PROVE d + 1 \in T
  <2>1. CASE k + (d + 1) <= n
    <3> DEFINE m == k + d
    <3>1. m \in Nat /\ m < n /\ m <= n /\ m + 1 <= n /\ m + 1 \in 1 .. n /\ k + (d + 1) = m + 1
      BY <1>0, <2>1
    <3>2. Starts(e[k], e[m])
      BY <3>1
    <3> HIDE DEF m
    <3>3. e[m + 1] = e[m] \o Part(opts[m + 1])
      BY <3>1 DEF IsLaid
    <3>4. /\ e[k] \in Seq(Symbol) /\ Len(e[k]) \in Nat /\ e[m] \in Seq(Symbol) /\ Len(e[m]) \in Nat
          /\ Part(opts[m + 1]) \in Seq(Symbol) /\ Len(Part(opts[m + 1])) \in Nat
      BY <1>1, <3>1, PartIsSeq, LenProperties
    <3>5. Starts(e[k], e[m] \o Part(opts[m + 1]))
      BY <3>2, <3>4, StartsOn
    <3>6. Starts(e[k], e[k + (d + 1)])
      BY <3>1, <3>3, <3>5
    <3> QED
      BY <3>6
  <2> QED
    BY <2>1
<1>4. Nat \subseteq T
  <2> HIDE DEF T
  <2>1. T \in SUBSET Nat
    BY DEF T
  <2> QED
    BY <1>2, <1>3, <2>1, NatSetInduction
<1>5. PICK d \in Nat : k + d = n
  <2>1. n - k \in Nat /\ k + (n - k) = n
    BY <1>0
  <2> QED
    BY <2>1
<1>6. Starts(e[k], e[n])
  <2>1. d \in T /\ k + d <= n
    BY <1>0, <1>4, <1>5
  <2>2. Starts(e[k], e[k + d])
    BY <2>1
  <2> QED
    BY <1>5, <2>2
<1> QED
  BY <1>1, <1>6 DEF Starts

\* Where the layouts of as many options are the same, each length says where the next
\* option ends: the options are the same.
LEMMA LaidSaysTheOptions ==
  ASSUME NEW x \in Options, NEW y \in Options, Len(x) = Len(y), NEW e, NEW f,
         IsLaid(x, <<>>, e), IsLaid(y, <<>>, f), e[Len(x)] = f[Len(x)]
  PROVE  x = y
<1> DEFINE n == Len(x)
           T == {k \in Nat : k <= n => e[k] = f[k] /\ \A j \in 1 .. k : x[j] = y[j]}
<1>0. n \in Nat /\ DOMAIN x = 1 .. n /\ DOMAIN y = 1 .. n
  BY DEF Options
<1>1. 0 \in T
  BY DEF IsLaid
<1>2. ASSUME NEW k \in T PROVE k + 1 \in T
  <2>1. CASE k + 1 <= n
    <3> DEFINE i == k + 1
    <3>1. /\ i \in Nat /\ i <= n /\ i \in 1 .. n /\ k \in Nat /\ k < n /\ k <= n
          /\ e[k] = f[k] /\ \A j \in 1 .. k : x[j] = y[j]
      BY <1>0, <2>1
    <3>2. e[i] = e[k] \o Part(x[i]) /\ f[i] = e[k] \o Part(y[i])
      BY <3>1 DEF IsLaid
    <3>3. \A j \in 1 .. i : j \in 1 .. k \/ j = i
      BY <3>1
    <3> HIDE DEF i
    <3>4. /\ x[i] \in Seq(Nat) /\ Len(x[i]) \in Nat /\ Part(x[i]) \in Seq(Symbol)
          /\ Len(Part(x[i])) = Len(x[i]) + 1 /\ Part(x[i])[1] = Len(x[i])
          /\ \A j \in 1 .. Len(x[i]) : Part(x[i])[j + 1] = x[i][j]
      BY <3>1, PartIsSeq
    <3>5. /\ y[i] \in Seq(Nat) /\ Len(y[i]) \in Nat /\ Part(y[i]) \in Seq(Symbol)
          /\ Len(Part(y[i])) = Len(y[i]) + 1 /\ Part(y[i])[1] = Len(y[i])
          /\ \A j \in 1 .. Len(y[i]) : Part(y[i])[j + 1] = y[i][j]
      BY <3>1, PartIsSeq
    <3> DEFINE b == e[k]
               w == e[n]
               l == Len(b)
               p == Part(x[i])
               q == Part(y[i])
    <3>6. b \in Seq(Symbol) /\ l \in Nat
      BY <3>1, LaidIsPrefix, LenProperties
    <3>7. /\ Len(e[i]) <= Len(w) /\ \A j \in 1 .. Len(e[i]) : w[j] = e[i][j]
          /\ Len(f[i]) <= Len(w) /\ \A j \in 1 .. Len(f[i]) : w[j] = f[i][j]
      BY <3>1, LaidIsPrefix
    <3> HIDE DEF b, w, l, p, q
    <3>8. /\ Len(b \o p) = l + Len(p) /\ \A j \in 1 .. Len(p) : (b \o p)[l + j] = p[j]
          /\ Len(b \o q) = l + Len(q) /\ \A j \in 1 .. Len(q) : (b \o q)[l + j] = q[j]
      <4>1. p \in Seq(Symbol) /\ q \in Seq(Symbol)
        BY <3>4, <3>5 DEF p, q
      <4> QED
        BY <3>6, <4>1, ConcatIndexes DEF l
    <3>9. /\ Len(p) = Len(x[i]) + 1 /\ p[1] = Len(x[i]) /\ Len(p) \in Nat
          /\ Len(q) = Len(y[i]) + 1 /\ q[1] = Len(y[i]) /\ Len(q) \in Nat
      BY <3>4, <3>5 DEF p, q
    <3>10. /\ \A j \in 1 .. Len(p) : w[l + j] = p[j]
           /\ \A j \in 1 .. Len(q) : w[l + j] = q[j]
      <4>0. e[i] = b \o p /\ f[i] = b \o q
        BY <3>2 DEF b, p, q
      <4>1. ASSUME NEW j \in 1 .. Len(p) PROVE w[l + j] = p[j]
        <5>1. l + j \in 1 .. l + Len(p)
          BY <3>6, <3>9
        <5> QED
          BY <3>7, <3>8, <4>0, <5>1
      <4>2. ASSUME NEW j \in 1 .. Len(q) PROVE w[l + j] = q[j]
        <5>1. l + j \in 1 .. l + Len(q)
          BY <3>6, <3>9
        <5> QED
          BY <3>7, <3>8, <4>0, <5>1
      <4> QED
        BY <4>1, <4>2
    <3>11. Len(x[i]) = Len(y[i])
      <4>1. 1 \in 1 .. Len(p) /\ 1 \in 1 .. Len(q)
        BY <3>4, <3>5, <3>9
      <4> QED
        BY <3>9, <3>10, <4>1
    <3>12. \A j \in 1 .. Len(x[i]) : x[i][j] = y[i][j]
      <4> TAKE j \in 1 .. Len(x[i])
      <4>1. j + 1 \in 1 .. Len(p) /\ j + 1 \in 1 .. Len(q) /\ j \in 1 .. Len(y[i])
        BY <3>4, <3>5, <3>9, <3>11
      <4>2. p[j + 1] = x[i][j] /\ q[j + 1] = y[i][j]
        BY <3>4, <3>5, <4>1 DEF p, q
      <4> QED
        BY <3>10, <4>1, <4>2
    <3>13. x[i] = y[i]
      BY <3>4, <3>5, <3>11, <3>12, SeqEqual
    <3>14. e[i] = f[i] /\ \A j \in 1 .. i : x[j] = y[j]
      BY <3>1, <3>2, <3>3, <3>13
    <3> QED
      BY <3>1, <3>14 DEF i
  <2> QED
    BY <2>1
<1>3. n \in T
  <2> HIDE DEF T
  <2>1. T \in SUBSET Nat
    BY DEF T
  <2> QED
    BY <1>0, <1>1, <1>2, <2>1, NatSetInduction
<1>4. \A j \in 1 .. n : x[j] = y[j]
  BY <1>0, <1>3
<1> QED
  BY <1>0, <1>4, SeqEqual DEF Options

LEMMA OneFieldMore ==
  ASSUME NEW S, NEW u \in Seq(S), NEW x \in S, NEW w \in Seq(S), Len(w) = Len(u) + 1,
         \A i \in 1 .. Len(u) : w[i] = u[i], w[Len(u) + 1] = x
  PROVE  u \o <<x>> = w
<1> DEFINE v == Append(u, x)
<1>1. u \o <<x>> = v
  BY AppendIsConcat
<1>2. v \in Seq(S) /\ Len(v) = Len(u) + 1 /\ v[Len(u) + 1] = x /\ \A i \in 1 .. Len(u) : v[i] = u[i]
  BY AppendProperties
<1> HIDE DEF v
<1>3. \A i \in 1 .. Len(v) : v[i] = w[i]
  BY <1>2, LenProperties
<1> QED
  BY <1>1, <1>2, <1>3, SeqEqual

\* The four fields in front, however they are put together, are what they say.
LEMMA HeadersSayTheInputs ==
  ASSUME NEW a \in Inputs, NEW m \in Nat
  PROVE  /\ <<"sorofy-claim-v1", a.source, a.image, m>> \in Seq(Symbol)
         /\ <<"sorofy-claim-v1">> \o <<a.source>> \o <<a.image>> \o <<m>>
              = <<"sorofy-claim-v1", a.source, a.image, m>>
<1> DEFINE d == "sorofy-claim-v1"
           s == a.source
           i == a.image
<1>1. s \in Symbol /\ i \in Symbol /\ m \in Symbol /\ d \in Symbol
  BY DEF Inputs, Symbol
<1> HIDE DEF d, s, i
<1>2. /\ <<d>> \in Seq(Symbol) /\ <<d, s>> \in Seq(Symbol) /\ <<d, s, i>> \in Seq(Symbol)
      /\ <<d, s, i, m>> \in Seq(Symbol)
  BY <1>1
<1>3. <<d>> \o <<s>> = <<d, s>>
  <2> DEFINE u == <<d>>
             w == <<d, s>>
  <2>1. Len(w) = Len(u) + 1 /\ w[Len(u) + 1] = s /\ \A j \in 1 .. Len(u) : w[j] = u[j]
    OBVIOUS
  <2>2. u \in Seq(Symbol) /\ w \in Seq(Symbol)
    BY <1>2
  <2> HIDE DEF u, w
  <2>3. u \o <<s>> = w
    BY <1>1, <2>1, <2>2, OneFieldMore
  <2> QED
    BY <2>3 DEF u, w
<1>4. <<d, s>> \o <<i>> = <<d, s, i>>
  <2> DEFINE u == <<d, s>>
             w == <<d, s, i>>
  <2>1. Len(w) = Len(u) + 1 /\ w[Len(u) + 1] = i /\ \A j \in 1 .. Len(u) : w[j] = u[j]
    OBVIOUS
  <2>2. u \in Seq(Symbol) /\ w \in Seq(Symbol)
    BY <1>2
  <2> HIDE DEF u, w
  <2>3. u \o <<i>> = w
    BY <1>1, <2>1, <2>2, OneFieldMore
  <2> QED
    BY <2>3 DEF u, w
<1>5. <<d, s, i>> \o <<m>> = <<d, s, i, m>>
  <2> DEFINE u == <<d, s, i>>
             w == <<d, s, i, m>>
  <2>1. Len(w) = Len(u) + 1 /\ w[Len(u) + 1] = m /\ \A j \in 1 .. Len(u) : w[j] = u[j]
    OBVIOUS
  <2>2. u \in Seq(Symbol) /\ w \in Seq(Symbol)
    BY <1>2
  <2> HIDE DEF u, w
  <2>3. u \o <<m>> = w
    BY <1>1, <2>1, <2>2, OneFieldMore
  <2> QED
    BY <2>3 DEF u, w
<1> QED
  BY <1>2, <1>3, <1>4, <1>5 DEF d, s, i

\* A layout after a start is the start and then the layout.
LEMMA LaidAfter ==
  ASSUME NEW opts \in Options, NEW b \in Seq(Symbol), NEW e, NEW f,
         IsLaid(opts, b, e), IsLaid(opts, <<>>, f), NEW k \in 0 .. Len(opts)
  PROVE  e[k] = b \o f[k]
<1> DEFINE n == Len(opts)
           T == {m \in Nat : m <= n => e[m] = b \o f[m]}
<1>0. n \in Nat
  BY DEF Options
<1>1. 0 \in T
  <2>1. e[0] = b /\ f[0] = <<>>
    BY DEF IsLaid
  <2> QED
    BY <2>1, ConcatEmptySeq
<1>2. ASSUME NEW m \in T PROVE m + 1 \in T
  <2>1. CASE m + 1 <= n
    <3>1. m \in Nat /\ m < n /\ m <= n /\ m \in 0 .. n /\ m + 1 \in 1 .. n /\ e[m] = b \o f[m]
      BY <1>0, <2>1
    <3> DEFINE p == Part(opts[m + 1])
    <3>2. e[m + 1] = e[m] \o p /\ f[m + 1] = f[m] \o p
      BY <3>1 DEF IsLaid
    <3>3. p \in Seq(Symbol) /\ f[m] \in Seq(Symbol)
      <4>1. f[m] \in Seq(Symbol)
        BY <3>1 DEF IsLaid
      <4>2. p \in Seq(Symbol)
        BY <3>1, PartIsSeq
      <4> QED
        BY <4>1, <4>2
    <3> HIDE DEF p
    <3>4. (b \o f[m]) \o p = b \o (f[m] \o p)
      BY <3>3, ConcatsAssociate
    <3>5. e[m + 1] = b \o f[m + 1] /\ m + 1 \in Nat
      BY <3>1, <3>2, <3>4
    <3> QED
      BY <3>5
  <2> QED
    BY <2>1
<1>3. k \in T
  <2> HIDE DEF T
  <2>1. T \in SUBSET Nat
    BY DEF T
  <2> QED
    BY <1>0, <1>1, <1>2, <2>1, NatSetInduction
<1> QED
  BY <1>0, <1>3

\* What both sides hash.
LEMMA DigestIsLaid ==
  ASSUME NEW opts \in Options, NEW a \in Inputs
  PROVE  LET header == <<"sorofy-claim-v1", a.source, a.image, Len(opts)>>
         IN  /\ input_digest(a, opts) = header \o Laid(opts, <<>>)[Len(opts)]
             /\ claim_input_digest(a, opts) = header \o Laid(opts, <<>>)[Len(opts)]
             /\ Laid(opts, <<>>)[Len(opts)] \in Seq(Symbol)
<1> DEFINE header == <<"sorofy-claim-v1", a.source, a.image, Len(opts)>>
           n == Len(opts)
           e == Laid(opts, <<>>)
<1>0. n \in Nat /\ n \in 0 .. n
  BY DEF Options
<1>1. input_digest(a, opts) = header \o e[n]
  BY FlattenIsLaid DEF input_digest
<1>2. header \in Seq(Symbol)
      /\ header = <<"sorofy-claim-v1">> \o <<a.source>> \o <<a.image>> \o <<n>>
  BY <1>0, HeadersSayTheInputs
<1>3. claim_input_digest(a, opts) = Laid(opts, header)[n]
  BY <1>2, FoldIsLaid
<1> HIDE DEF header
<1>4. IsLaid(opts, <<>>, e) /\ IsLaid(opts, header, Laid(opts, header))
  <2>1. <<>> \in Seq(Symbol)
    OBVIOUS
  <2> QED
    BY <1>2, <2>1, LaidIsLaid
<1>5. Laid(opts, header)[n] = header \o e[n] /\ e[n] \in Seq(Symbol)
  <2> HIDE DEF e
  <2>1. e[n] \in Seq(Symbol)
    BY <1>0, <1>4 DEF IsLaid
  <2> DEFINE g == Laid(opts, header)
  <2> HIDE DEF g
  <2>2. IsLaid(opts, header, g)
    BY <1>4 DEF g
  <2>3. header \in Seq(Symbol) /\ IsLaid(opts, <<>>, e)
    BY <1>2, <1>4
  <2>4. \A k \in 0 .. n : g[k] = header \o e[k]
    BY <2>2, <2>3, LaidAfter
  <2> QED
    BY <1>0, <2>1, <2>4 DEF g
<1> QED
  BY <1>1, <1>3, <1>5 DEF header

LEMMA DigestsDiffer ==
  ASSUME NEW x \in Options, NEW y \in Options, NEW a \in Inputs, NEW b \in Inputs,
         input_digest(a, x) = input_digest(b, y)
  PROVE  a = b /\ x = y
<1> DEFINE e == Laid(x, <<>>)
           f == Laid(y, <<>>)
           h == <<"sorofy-claim-v1", a.source, a.image, Len(x)>>
           g == <<"sorofy-claim-v1", b.source, b.image, Len(y)>>
           u == e[Len(x)]
           v == f[Len(y)]
<1>0. Len(x) \in Nat /\ Len(y) \in Nat
  BY DEF Options
<1>1. input_digest(a, x) = h \o u /\ input_digest(b, y) = g \o v
      /\ u \in Seq(Symbol) /\ v \in Seq(Symbol)
  BY DigestIsLaid
<1>2. h \in Seq(Symbol) /\ g \in Seq(Symbol)
  BY <1>0, HeadersSayTheInputs
<1>3. /\ Len(h) = 4 /\ h[2] = a.source /\ h[3] = a.image /\ h[4] = Len(x)
      /\ Len(g) = 4 /\ g[2] = b.source /\ g[3] = b.image /\ g[4] = Len(y)
  OBVIOUS
<1> HIDE DEF h, g, u, v
<1>4. h = g
  <2>1. \A i \in 1 .. 4 : (h \o u)[i] = h[i] /\ (g \o v)[i] = g[i]
    <3>1. \A i \in 1 .. Len(h) : (h \o u)[i] = h[i]
      BY <1>1, <1>2, ConcatIndexes
    <3>2. \A i \in 1 .. Len(g) : (g \o v)[i] = g[i]
      BY <1>1, <1>2, ConcatIndexes
    <3> QED
      BY <1>3, <3>1, <3>2
  <2>2. \A i \in 1 .. 4 : h[i] = g[i]
    BY <1>1, <2>1
  <2> QED
    BY <1>2, <1>3, <2>2, SeqEqual
<1>5. u = v
  BY <1>1, <1>2, <1>4, ConcatSimplifications
<1>6. a = b
  BY <1>3, <1>4 DEF Inputs
<1>7. Len(x) = Len(y)
  BY <1>3, <1>4
<1>8. IsLaid(x, <<>>, e) /\ IsLaid(y, <<>>, f)
  <2>1. <<>> \in Seq(Symbol)
    OBVIOUS
  <2> QED
    BY <2>1, LaidIsLaid
<1> HIDE DEF e, f
<1>9. e[Len(x)] = f[Len(x)]
  BY <1>5, <1>7 DEF u, v
<1>10. x = y
  BY <1>7, <1>8, <1>9, LaidSaysTheOptions
<1> QED
  BY <1>6, <1>10

\* More symbols and options are symbols and options.
LEMMA GrownAreOptions ==
  ASSUME NEW opts \in Options, NEW more \in Grown(opts)
  PROVE  more \in Options
<1>1. CASE more = Append(opts, <<>>)
  BY <1>1 DEF Options
<1>2. CASE \E b \in Byte : /\ opts # <<>>
                           /\ more = ReplaceAt(opts, Len(opts), Append(Last(opts), b))
  <2>1. PICK b \in Byte : opts # <<>> /\ more = ReplaceAt(opts, Len(opts), Append(Last(opts), b))
    BY <1>2
  <2> DEFINE S == Seq(Nat)
             opt == Append(Last(opts), b)
  <2>2. opts \in Seq(S) /\ Len(opts) \in 1 .. Len(opts)
    BY <2>1, EmptySeq DEF Options
  <2>3. b \in Nat /\ Last(opts) \in S
    BY <2>2, ClaimAssumption, ElementOfSeq DEF Last
  <2>4. opt \in S
    BY <2>3
  <2>5. more = [opts EXCEPT ![Len(opts)] = opt]
    BY <2>1 DEF ReplaceAt
  <2> HIDE DEF S, opt
  <2>6. more \in Seq(S)
    BY <2>2, <2>4, <2>5, ExceptSeq
  <2> QED
    BY <2>6 DEF S, Options
<1> QED
  BY <1>1, <1>2 DEF Grown

\* Two jobs land on the same claim exactly when they ask the same question, and the service
\* and the contract lay it out alike, for options of any number and length
\* (claim::input_digest, claim_input_digest).
THEOREM DigestsNameQuestions == DigestSpec => []DigestNamesTheQuestion
<1> DEFINE Inv == bldopt \in Options /\ other \in Options
<1>1. ClaimInit => Inv
  BY DEF ClaimInit, Options
<1>2. Inv /\ [ClaimNext]_claimVars => Inv'
  BY GrownAreOptions DEF ClaimNext, claimVars
<1>3. Inv => DigestNamesTheQuestion
  <2> SUFFICES ASSUME Inv, NEW a \in Inputs, NEW b \in Inputs
               PROVE  /\ input_digest(a, bldopt) = claim_input_digest(a, bldopt)
                      /\ input_digest(a, bldopt) = input_digest(b, other) => a = b /\ bldopt = other
    BY DEF DigestNamesTheQuestion
  <2>1. input_digest(a, bldopt) = claim_input_digest(a, bldopt)
    BY DigestIsLaid
  <2> QED
    BY <2>1, DigestsDiffer
<1> QED
  BY <1>1, <1>2, <1>3, PTL DEF DigestSpec
-----------------------------------------------------------------------------
(* The artifact. *)

\* A build and the tar read from it, by themselves.
ArtifactSpec == ArtifactInit /\ [][ArtifactNext]_artifactVars

\* No file of the release directory is in the tar twice.
ArtifactInv ==
    /\ workspace.contracts \in SUBSET Crate /\ workspace.optimize \in BOOLEAN
    /\ tar \in Seq(File)
    /\ \A i, j \in DOMAIN tar : tar[i] = tar[j] => i = j

Wasm2(c) == [contract |-> c, kind |-> "wasm", depth |-> 2]
Optimized2(c) == [contract |-> c, kind |-> "optimized", depth |-> 2]

LEMMA OutputsAreFiles ==
  ASSUME workspace.contracts \in SUBSET Crate
  PROVE  Output(workspace) \subseteq File
  BY DEF Output, File

\* What is a candidate in a whole tar: a contract's artifact and its optimized copy.
LEMMA CandidatesAreOutputs ==
  ASSUME ArtifactInv, ToSet(tar) = Output(workspace)
  PROVE  /\ IsFiniteSet(Candidates) /\ Candidates \subseteq DOMAIN tar
         /\ \A i \in Candidates : \E c \in workspace.contracts :
              tar[i] = Wasm2(c) \/ (workspace.optimize /\ tar[i] = Optimized2(c))
         /\ \A c \in workspace.contracts :
              /\ \E i \in Candidates : tar[i] = Wasm2(c)
              /\ workspace.optimize => \E i \in Candidates : tar[i] = Optimized2(c)
<1>1. DOMAIN tar = 1 .. Len(tar) /\ Len(tar) \in Nat
  BY DEF ArtifactInv
<1>2. IsFiniteSet(Candidates) /\ Candidates \subseteq DOMAIN tar
  <2>1. IsFiniteSet(1 .. Len(tar)) /\ Candidates \subseteq 1 .. Len(tar)
    BY <1>1, FS_Interval DEF Candidates
  <2> QED
    BY <1>1, <2>1, FS_Subset
<1>3. ASSUME NEW i \in Candidates
      PROVE  \E c \in workspace.contracts :
               tar[i] = Wasm2(c) \/ (workspace.optimize /\ tar[i] = Optimized2(c))
  <2>1. tar[i] \in Output(workspace)
    BY DEF Candidates, ToSet
  <2>2. tar[i].kind \in {"wasm", "optimized"} /\ tar[i].depth = 2
    BY DEF Candidates
  <2> QED
    BY <2>1, <2>2 DEF Output, Wasm2, Optimized2
<1>4. ASSUME NEW c \in workspace.contracts
      PROVE  /\ \E i \in Candidates : tar[i] = Wasm2(c)
             /\ workspace.optimize => \E i \in Candidates : tar[i] = Optimized2(c)
  <2>1. Wasm2(c) \in ToSet(tar) /\ (workspace.optimize => Optimized2(c) \in ToSet(tar))
    BY DEF Output, Wasm2, Optimized2
  <2>2. /\ Wasm2(c).kind = "wasm" /\ Wasm2(c).depth = 2
        /\ Optimized2(c).kind = "optimized" /\ Optimized2(c).depth = 2
    BY DEF Wasm2, Optimized2
  <2> QED
    BY <2>1, <2>2 DEF Candidates, ToSet
<1> QED
  BY <1>2, <1>3, <1>4

LEMMA FilesDiffer ==
  ASSUME NEW c, NEW d
  PROVE  /\ Wasm2(c).kind = "wasm" /\ Optimized2(c).kind = "optimized"
         /\ Wasm2(c).contract = c /\ Optimized2(c).contract = c
         /\ Wasm2(c) # Optimized2(d)
  BY DEF Wasm2, Optimized2

LEMMA TwoAreTwo ==
  ASSUME NEW i, NEW j, i # j
  PROVE  Cardinality({i} \cup {j}) = 2 /\ IsFiniteSet({i} \cup {j})
<1>1. IsFiniteSet({i}) /\ Cardinality({i}) = 1 /\ j \notin {i}
  BY FS_Singleton
<1> DEFINE s == {i}
<1> HIDE DEF s
<1>2. Cardinality(s \cup {j}) = Cardinality(s) + 1 /\ IsFiniteSet(s \cup {j})
  BY <1>1, FS_AddElement DEF s
<1> QED
  BY <1>1, <1>2 DEF s

LEMMA NothingIsSelected ==
  ASSUME ArtifactInv, ToSet(tar) = Output(workspace), workspace.contracts = {}
  PROVE  select_wasm_from_tar = NoWasmProduced
<1>1. Candidates = {}
  BY CandidatesAreOutputs
<1>2. Cardinality(Candidates) = 0
  BY <1>1, FS_EmptySet
<1> QED
  BY <1>2 DEF select_wasm_from_tar

LEMMA OneIsSelected ==
  ASSUME ArtifactInv, ToSet(tar) = Output(workspace), NEW c, workspace.contracts = {c}
  PROVE  select_wasm_from_tar = IF workspace.optimize THEN Optimized2(c) ELSE Wasm2(c)
<1> DEFINE optimized == {i \in Candidates : tar[i].kind = "optimized"}
<1>0. c \in workspace.contracts /\ \A d \in workspace.contracts : d = c
  OBVIOUS
<1>1. PICK i \in Candidates : tar[i] = Wasm2(c)
  BY <1>0, CandidatesAreOutputs
<1>2. \A k \in Candidates : tar[k] = Wasm2(c) => k = i
  BY <1>1, CandidatesAreOutputs DEF ArtifactInv
<1>3. CASE ~workspace.optimize
  <2>1. Candidates = {i}
    BY <1>0, <1>1, <1>2, <1>3, CandidatesAreOutputs
  <2>2. Cardinality(Candidates) = 1
    BY <2>1, FS_Singleton
  <2>3. Only(Candidates) = Wasm2(c)
    BY <1>1, <2>1 DEF Only
  <2> QED
    BY <1>3, <2>2, <2>3 DEF select_wasm_from_tar
<1>4. CASE workspace.optimize
  <2>1. PICK j \in Candidates : tar[j] = Optimized2(c)
    BY <1>0, <1>4, CandidatesAreOutputs
  <2>2. \A k \in Candidates : tar[k] = Optimized2(c) => k = j
    BY <2>1, CandidatesAreOutputs DEF ArtifactInv
  <2>3. i # j
    BY <1>1, <2>1, FilesDiffer
  <2>4. Candidates = {i} \cup {j}
    BY <1>0, <1>1, <1>2, <2>1, <2>2, CandidatesAreOutputs
  <2>5. optimized = {j}
    BY <1>1, <2>1, <2>4, FilesDiffer
  <2>6. Cardinality(Candidates) = 2
    BY <2>3, <2>4, TwoAreTwo
  <2>7. Cardinality(optimized) = 1
    BY <2>5, FS_Singleton
  <2>8. Only(optimized) = Optimized2(c)
    BY <2>1, <2>5 DEF Only
  <2> QED
    BY <1>4, <2>6, <2>7, <2>8 DEF select_wasm_from_tar
<1> QED
  BY <1>3, <1>4

LEMMA ManyAreAmbiguous ==
  ASSUME ArtifactInv, ToSet(tar) = Output(workspace),
         NEW c \in workspace.contracts, NEW d \in workspace.contracts, c # d
  PROVE  select_wasm_from_tar = AmbiguousWasm
<1> DEFINE optimized == {k \in Candidates : tar[k].kind = "optimized"}
<1>1. PICK i \in Candidates : tar[i] = Wasm2(c)
  BY CandidatesAreOutputs
<1>2. PICK j \in Candidates : tar[j] = Wasm2(d)
  BY CandidatesAreOutputs
<1>3. i # j
  BY <1>1, <1>2, FilesDiffer
<1>4. Cardinality({i} \cup {j}) = 2 /\ IsFiniteSet({i} \cup {j})
  BY <1>3, TwoAreTwo
<1>5. /\ Cardinality(Candidates) \in Nat
      /\ \A s \in SUBSET Candidates : Cardinality(s) <= Cardinality(Candidates)
  BY CandidatesAreOutputs, FS_CardinalityType, FS_Subset
<1>6. CASE ~workspace.optimize
  <2>1. optimized = {}
    BY <1>6, CandidatesAreOutputs, FilesDiffer
  <2>2. Cardinality(optimized) = 0
    BY <2>1, FS_EmptySet
  <2>3. Cardinality(Candidates) # 0 /\ Cardinality(Candidates) # 1
    BY <1>4, <1>5
  <2> QED
    BY <2>2, <2>3 DEF select_wasm_from_tar
<1>7. CASE workspace.optimize
  <2>1. PICK k \in Candidates : tar[k] = Optimized2(c)
    BY <1>7, CandidatesAreOutputs
  <2>2. k \notin {i} \cup {j}
    BY <1>1, <1>2, <2>1, FilesDiffer
  <2> DEFINE three == ({i} \cup {j}) \cup {k}
  <2>3. Cardinality(three) = 3
    BY <1>4, <2>2, FS_AddElement
  <2>4. three \in SUBSET Candidates
    OBVIOUS
  <2> HIDE DEF three
  <2>5. Cardinality(Candidates) >= 3
    BY <1>5, <2>3, <2>4
  <2>6. /\ Cardinality(Candidates) # 0 /\ Cardinality(Candidates) # 1
        /\ Cardinality(Candidates) # 2
    BY <1>5, <2>5
  <2> QED
    BY <2>6 DEF select_wasm_from_tar
<1> QED
  BY <1>6, <1>7

\* The file that is hashed is the one that is deployed, whichever order the tar has them in
\* and whatever intermediates are among them (select_wasm_from_tar).
THEOREM TheRightFileIsHashed == ArtifactSpec => []TheDeployedIsSelected
<1>1. ArtifactInit => ArtifactInv
  BY DEF ArtifactInit, ArtifactInv
<1>2. ArtifactInv /\ [ArtifactNext]_artifactVars => ArtifactInv'
  <2> SUFFICES ASSUME ArtifactInv, [ArtifactNext]_artifactVars PROVE ArtifactInv'
    OBVIOUS
  <2>1. CASE Build
    BY <2>1 DEF Build, ArtifactInv
  <2>2. CASE Read
    <3>1. PICK f \in Output(workspace) \ ToSet(tar) : tar' = Append(tar, f)
      BY <2>2 DEF Read
    <3>2. f \in File /\ \A i \in DOMAIN tar : tar[i] # f
      BY <3>1, OutputsAreFiles DEF ArtifactInv, ToSet
    <3>3. tar' \in Seq(File) /\ \A i, j \in DOMAIN tar' : tar'[i] = tar'[j] => i = j
      BY <3>1, <3>2 DEF ArtifactInv
    <3> QED
      BY <2>2, <3>3 DEF Read, ArtifactInv
  <2>3. CASE UNCHANGED artifactVars
    BY <2>3 DEF artifactVars, ArtifactInv
  <2> QED
    BY <2>1, <2>2, <2>3 DEF ArtifactNext
<1>3. ArtifactInv => TheDeployedIsSelected
  <2> SUFFICES ASSUME ArtifactInv, ToSet(tar) = Output(workspace) PROVE TheDeployedIsSelected
    BY DEF TheDeployedIsSelected
  <2>1. CASE workspace.contracts = {}
    BY <2>1, NothingIsSelected DEF TheDeployedIsSelected
  <2>2. CASE \E c \in Crate : workspace.contracts = {c}
    <3>1. PICK c \in Crate : workspace.contracts = {c}
      BY <2>2
    <3>2. (CHOOSE x \in workspace.contracts : TRUE) = c
      BY <3>1
    <3>3. select_wasm_from_tar = IF workspace.optimize THEN Optimized2(c) ELSE Wasm2(c)
      BY <3>1, OneIsSelected
    <3>4. workspace.contracts # {}
      BY <3>1
    <3> QED
      BY <2>2, <3>2, <3>3, <3>4 DEF TheDeployedIsSelected, Optimized2, Wasm2
  <2>3. CASE workspace.contracts # {} /\ ~ \E c \in Crate : workspace.contracts = {c}
    <3>1. PICK c \in workspace.contracts, d \in workspace.contracts : c # d
      BY <2>3 DEF ArtifactInv
    <3>2. select_wasm_from_tar = AmbiguousWasm
      BY <3>1, ManyAreAmbiguous
    <3> QED
      BY <2>3, <3>2 DEF TheDeployedIsSelected
  <2> QED
    BY <2>1, <2>2, <2>3
<1> QED
  BY <1>1, <1>2, <1>3, PTL DEF ArtifactSpec
-----------------------------------------------------------------------------
(* The staged tree. *)

\* A source archive being read, by itself.
StagingSpec == StagingInit /\ [][StagingNext]_archive

ArchiveInv == archive \in Seq(Entry)

\* The components of paths (the constant directory is named, because the prover does not
\* know that it is a string), and their sequences.
Name == STRING \cup {STAGED_TOP_DIR}
Steps == Seq(Name)

LEMMA TopIsAName == STAGED_TOP_DIR \in Name
  BY DEF Name

LEMMA PathsJoin ==
  ASSUME NEW p \in Steps, NEW q \in Steps
  PROVE  /\ p \o q \in Steps /\ Len(p \o q) = Len(p) + Len(q)
         /\ \A k \in 1 .. Len(p) + Len(q) :
              (p \o q)[k] = IF k <= Len(p) THEN p[k] ELSE q[k - Len(p)]
  BY ConcatProperties DEF Steps

\* A path under the constant directory, place by place.
LEMMA RestagedPath ==
  ASSUME NEW p \in Steps, p # <<>>
  PROVE  /\ Len(p) \in Nat \ {0} /\ Head(p) = p[1]
         /\ restage_path(p) \in Steps /\ restage_path(p) # <<>> /\ Len(restage_path(p)) = Len(p)
         /\ restage_path(p)[1] = STAGED_TOP_DIR
         /\ \A k \in 2 .. Len(p) : restage_path(p)[k] = p[k]
<1> DEFINE top == <<STAGED_TOP_DIR>>
           rest == Tail(p)
<1>1. Len(p) \in Nat \ {0} /\ Head(p) = p[1]
  BY DEF Steps
<1>2. top \in Steps /\ Len(top) = 1 /\ top[1] = STAGED_TOP_DIR
  BY TopIsAName DEF Steps
<1>3. rest \in Steps /\ Len(rest) = Len(p) - 1 /\ \A k \in 1 .. Len(rest) : rest[k] = p[k + 1]
  BY <1>1 DEF Steps
<1>4. restage_path(p) = top \o rest
  BY DEF restage_path
<1> HIDE DEF top, rest
<1>5. /\ top \o rest \in Steps /\ Len(top \o rest) = Len(p)
      /\ (top \o rest)[1] = STAGED_TOP_DIR
      /\ \A k \in 2 .. Len(p) : (top \o rest)[k] = rest[k - 1]
  <2>1. /\ top \o rest \in Steps /\ Len(top \o rest) = Len(top) + Len(rest)
        /\ \A k \in 1 .. Len(top) + Len(rest) :
             (top \o rest)[k] = IF k <= Len(top) THEN top[k] ELSE rest[k - Len(top)]
    BY <1>2, <1>3, PathsJoin
  <2> QED
    BY <1>1, <1>2, <1>3, <2>1
<1>6. \A k \in 2 .. Len(p) : rest[k - 1] = p[k]
  BY <1>1, <1>3
<1>7. top \o rest # <<>>
  BY <1>1, <1>5
<1> QED
  BY <1>1, <1>4, <1>5, <1>6, <1>7

\* Two sequences are one if they agree at every place.
LEMMA SamePath ==
  ASSUME NEW p \in Steps, NEW q \in Steps, Len(p) = Len(q), \A k \in 1 .. Len(p) : p[k] = q[k]
  PROVE  p = q
  BY SeqEqual DEF Steps

\* Under one top directory no two paths fall together.
LEMMA RestageIsInjective ==
  ASSUME NEW p \in Steps, NEW q \in Steps, p # <<>>, q # <<>>, Head(p) = Head(q),
         restage_path(p) = restage_path(q)
  PROVE  p = q
<1>1. Len(p) = Len(q) /\ Len(p) \in Nat \ {0} /\ p[1] = q[1]
  BY RestagedPath
<1>2. ASSUME NEW k \in 2 .. Len(p) PROVE p[k] = q[k]
  BY <1>1, RestagedPath
<1>3. \A k \in 1 .. Len(p) : p[k] = q[k]
  <2>1. \A k \in 1 .. Len(p) : k = 1 \/ k \in 2 .. Len(p)
    BY <1>1
  <2> QED
    BY <1>1, <1>2, <2>1
<1> QED
  BY <1>1, <1>3, SamePath

\* Going down keeps a path where it was moved.
LEMMA RestageOfAppend ==
  ASSUME NEW p \in Steps, p # <<>>, NEW c \in Name
  PROVE  restage_path(Append(p, c)) = Append(restage_path(p), c)
<1> DEFINE a == Append(p, c)
           b == Append(restage_path(p), c)
           r == restage_path(a)
<1>0. Len(p) \in Nat \ {0} /\ restage_path(p) \in Steps /\ Len(restage_path(p)) = Len(p)
  BY RestagedPath
<1>1. /\ a \in Steps /\ a # <<>> /\ Len(a) = Len(p) + 1
      /\ \A k \in 1 .. Len(p) : a[k] = p[k]
      /\ a[Len(p) + 1] = c
  BY <1>0 DEF Steps
<1>2. /\ b \in Steps /\ Len(b) = Len(p) + 1
      /\ \A k \in 1 .. Len(p) : b[k] = restage_path(p)[k]
      /\ b[Len(p) + 1] = c
  BY <1>0 DEF Steps
<1> HIDE DEF a, b
<1>3. r \in Steps /\ Len(r) = Len(p) + 1
      /\ r[1] = STAGED_TOP_DIR /\ \A k \in 2 .. Len(p) + 1 : r[k] = a[k]
  BY <1>1, RestagedPath
<1>4. b[1] = STAGED_TOP_DIR /\ \A k \in 2 .. Len(p) : b[k] = p[k]
  BY <1>0, <1>2, RestagedPath
<1> HIDE DEF r
<1>5. ASSUME NEW k \in 1 .. Len(r) PROVE r[k] = b[k]
  <2>1. k = 1 \/ k \in 2 .. Len(p) \/ k = Len(p) + 1
    BY <1>0, <1>3
  <2> QED
    BY <1>0, <1>1, <1>2, <1>3, <1>4, <2>1
<1>6. r = b
  BY <1>2, <1>3, <1>5, SamePath
<1> QED
  BY <1>6 DEF a, b, r

\* So does going up, as long as it stays inside.
LEMMA RestageOfFront ==
  ASSUME NEW p \in Steps, Len(p) > 1
  PROVE  /\ Front(p) \in Steps /\ Front(p) # <<>>
         /\ restage_path(Front(p)) = Front(restage_path(p))
<1> DEFINE a == Front(p)
           b == Front(restage_path(p))
           r == restage_path(a)
           n == Len(p) - 1
<1>0. p # <<>> /\ n \in Nat \ {0} /\ Len(p) \in Nat /\ Len(p) = n + 1
  <2>1. Len(p) \in Nat /\ Len(<<>>) = 0
    BY DEF Steps
  <2> QED
    BY <2>1
<1>1. restage_path(p) \in Steps /\ Len(restage_path(p)) = n + 1
      /\ restage_path(p)[1] = STAGED_TOP_DIR /\ \A k \in 2 .. n : restage_path(p)[k] = p[k]
  BY <1>0, RestagedPath
<1>2. a = SubSeq(p, 1, n) /\ b = SubSeq(restage_path(p), 1, n)
  BY <1>0, <1>1 DEF Front
<1> HIDE DEF n
<1>3. a \in Steps /\ Len(a) = n /\ \A k \in 1 .. n : a[k] = p[k]
  BY <1>0, <1>2 DEF Steps
<1>4. b \in Steps /\ Len(b) = n /\ \A k \in 1 .. n : b[k] = restage_path(p)[k]
  BY <1>0, <1>1, <1>2 DEF Steps
<1>5. a # <<>>
  BY <1>0, <1>3
<1> HIDE DEF a, b
<1>6. r \in Steps /\ Len(r) = n /\ r[1] = STAGED_TOP_DIR /\ \A k \in 2 .. n : r[k] = a[k]
  BY <1>3, <1>5, RestagedPath
<1> HIDE DEF r
<1>7. ASSUME NEW k \in 1 .. Len(r) PROVE r[k] = b[k]
  <2>1. k = 1 \/ k \in 2 .. n
    BY <1>0, <1>6
  <2> QED
    BY <1>0, <1>1, <1>3, <1>4, <1>6, <2>1
<1>8. r = b
  BY <1>4, <1>6, <1>7, SamePath
<1> QED
  BY <1>3, <1>5, <1>8 DEF a, b, r

\* One component of a symlink's target.
StepTo(at, c) == IF at = <<>> THEN <<>>
                 ELSE IF c # ".." THEN Append(at, c)
                 ELSE IF Len(at) = 1 THEN <<>> ELSE Front(at)

\* The place at, and where it is in the staged tree.
Moved(at, to) == at \in Steps /\ to = IF at = <<>> THEN <<>> ELSE restage_path(at)

LEMMA StepIsMoved ==
  ASSUME NEW at, NEW to, Moved(at, to), NEW c \in Name
  PROVE  Moved(StepTo(at, c), StepTo(to, c))
<1>1. CASE at = <<>>
  BY <1>1 DEF Moved, StepTo, Steps
<1>2. CASE at # <<>>
  <2>1. /\ at \in Steps /\ to = restage_path(at) /\ to # <<>> /\ Len(to) = Len(at)
        /\ Len(at) \in Nat \ {0}
    BY <1>2, RestagedPath DEF Moved
  <2>2. CASE c # ".."
    <3>1. Append(at, c) \in Steps /\ Append(at, c) # <<>>
      BY <2>1 DEF Steps
    <3>2. Append(to, c) = restage_path(Append(at, c))
      BY <1>2, <2>1, RestageOfAppend
    <3> QED
      BY <1>2, <2>1, <2>2, <3>1, <3>2 DEF Moved, StepTo
  <2>3. CASE c = ".." /\ Len(at) = 1
    BY <1>2, <2>1, <2>3 DEF Moved, StepTo, Steps
  <2>4. CASE c = ".." /\ Len(at) # 1
    <3>1. Len(at) > 1
      BY <2>1, <2>4
    <3>2. Front(at) \in Steps /\ Front(at) # <<>> /\ Front(to) = restage_path(Front(at))
      BY <2>1, <3>1, RestageOfFront
    <3> QED
      BY <1>2, <2>1, <2>4, <3>2 DEF Moved, StepTo
  <2> QED
    BY <2>2, <2>3, <2>4
<1> QED
  BY <1>1, <1>2

\* The walk, as the fold has it: where the components in s lead.
WalkStep(t, b, g, s) == IF s = {} THEN b ELSE StepTo(g[s \ {Max(s)}], t[Max(s)])

Walk(t, b) == CHOOSE g : g = [s \in SUBSET DOMAIN t |-> WalkStep(t, b, g, s)]

LEMMA FollowIsAWalk ==
  ASSUME NEW p, NEW t
  PROVE  Follow(p, t) = Walk(t, Front(p))[DOMAIN t]
  BY DEF Follow, FoldLeft, MapThenFoldSet, Walk, WalkStep, StepTo

LEMMA StepStays == ASSUME NEW at \in Steps, NEW c \in Name PROVE StepTo(at, c) \in Steps
<1>1. Moved(at, IF at = <<>> THEN <<>> ELSE restage_path(at))
  BY DEF Moved
<1> QED
  BY <1>1, StepIsMoved DEF Moved

LEMMA WalksExist ==
  ASSUME NEW t \in Steps, NEW b \in Steps
  PROVE  /\ \A s \in SUBSET DOMAIN t : Walk(t, b)[s] = WalkStep(t, b, Walk(t, b), s)
         /\ \A s \in SUBSET DOMAIN t : Walk(t, b)[s] \in Steps
<1> DEFINE S == DOMAIN t
           F == [k \in S |-> [at \in Steps |-> StepTo(at, t[k])]]
           pick == [s \in SUBSET S |-> Max(s)]
<1>0. S = 1 .. Len(t) /\ Len(t) \in Nat /\ \A k \in S : t[k] \in Name
  BY DEF Steps
<1>1. F \in [S -> [Steps -> Steps]] /\ \A k \in S, at \in Steps : F[k][at] = StepTo(at, t[k])
  <2>1. \A k \in S, at \in Steps : StepTo(at, t[k]) \in Steps
    BY <1>0, StepStays
  <2> HIDE DEF S
  <2> QED
    BY <2>1
<1>2. \A s \in SUBSET S : pick[s] = Max(s) /\ (s # {} => pick[s] \in s)
  BY <1>0, MaxIsOne
<1>3. IsFiniteSet(S)
  BY <1>0, FS_Interval
<1> HIDE DEF F, pick, S
<1>4. PICK g : IsFold(S, Steps, b, F, pick, g)
  <2>1. Foldable(S, Steps, b, F, pick)
    BY <1>1, <1>2, <1>3 DEF Foldable
  <2> QED
    BY <2>1, FoldsExist
<1>5. g \in [SUBSET S -> Steps] /\ \A s \in SUBSET S : g[s] = FoldStep(b, F, pick, g, s)
  BY <1>4 DEF IsFold
<1>6. ASSUME NEW s \in SUBSET S PROVE g[s] = WalkStep(t, b, g, s)
  <2>1. CASE s # {}
    <3>1. Max(s) \in S /\ g[s \ {Max(s)}] \in Steps
      BY <1>2, <1>5, <2>1
    <3> QED
      BY <1>1, <1>2, <1>5, <2>1, <3>1 DEF WalkStep, FoldStep
  <2> QED
    BY <1>5, <2>1 DEF WalkStep, FoldStep
<1>7. g = [s \in SUBSET S |-> WalkStep(t, b, g, s)]
  BY <1>5, <1>6
<1> DEFINE w == Walk(t, b)
<1>8. w = [s \in SUBSET S |-> WalkStep(t, b, w, s)]
  BY <1>7 DEF Walk, S
<1> HIDE DEF w
<1>9. \A s \in SUBSET S : w[s] = WalkStep(t, b, w, s)
  BY <1>8
<1> DEFINE T == {n \in Nat : \A s \in SUBSET S : Cardinality(s) = n => w[s] \in Steps}
<1>10. 0 \in T
  <2>1. \A s \in SUBSET S : Cardinality(s) = 0 => s = {}
    BY <1>3, FS_Subset, FS_EmptySet
  <2> QED
    BY <1>9, <2>1 DEF WalkStep
<1>11. ASSUME NEW n \in T PROVE n + 1 \in T
  <2> SUFFICES ASSUME NEW s \in SUBSET S, Cardinality(s) = n + 1 PROVE w[s] \in Steps
    OBVIOUS
  <2>1. IsFiniteSet(s) /\ s # {}
    BY <1>3, FS_Subset, FS_EmptySet
  <2>2. Max(s) \in s
    BY <1>2, <2>1
  <2>3. n \in Nat /\ Cardinality(s \ {Max(s)}) = n
    <3>1. Cardinality(s \ {Max(s)}) = Cardinality(s) - 1
      BY <2>1, <2>2, FS_RemoveElement
    <3> QED
      BY <3>1
  <2>4. w[s \ {Max(s)}] \in Steps
    BY <2>3
  <2> QED
    BY <1>0, <1>9, <2>1, <2>2, <2>4, StepStays DEF WalkStep
<1>12. Nat \subseteq T
  <2> HIDE DEF T
  <2>1. T \in SUBSET Nat
    BY DEF T
  <2> QED
    BY <1>10, <1>11, <2>1, NatSetInduction
<1>13. \A s \in SUBSET S : w[s] \in Steps
  BY <1>3, <1>12, FS_Subset, FS_CardinalityType
<1> QED
  BY <1>9, <1>13 DEF w, S

\* Wherever a walk of the archive is, the same walk of the staged tree is there too.
LEMMA WalksAreMoved ==
  ASSUME NEW t \in Steps, NEW b \in Steps, NEW c \in Steps, Moved(b, c)
  PROVE  Moved(Walk(t, b)[DOMAIN t], Walk(t, c)[DOMAIN t])
<1> DEFINE n == Len(t)
           v == Walk(t, b)
           w == Walk(t, c)
           T == {k \in Nat : k <= n => Moved(v[1 .. k], w[1 .. k])}
<1>0. DOMAIN t = 1 .. n /\ n \in Nat /\ \A k \in 1 .. n : t[k] \in Name
  BY DEF Steps
<1>1. \A s \in SUBSET (1 .. n) : v[s] = WalkStep(t, b, v, s) /\ w[s] = WalkStep(t, c, w, s)
  BY <1>0, WalksExist
<1> HIDE DEF v, w
<1>2. 0 \in T
  <2>1. 1 .. 0 = {} /\ {} \in SUBSET (1 .. n)
    OBVIOUS
  <2>2. v[1 .. 0] = b /\ w[1 .. 0] = c
    BY <1>1, <2>1 DEF WalkStep
  <2> QED
    BY <2>2
<1>3. ASSUME NEW k \in T PROVE k + 1 \in T
  <2> DEFINE i == k + 1
  <2>1. SUFFICES ASSUME i <= n PROVE Moved(v[1 .. i], w[1 .. i])
    OBVIOUS
  <2>2. k \in Nat /\ i \in 1 .. n /\ Moved(v[1 .. k], w[1 .. k])
    BY <1>0, <2>1
  <2>3. Max(1 .. i) = i /\ (1 .. i) \ {i} = 1 .. k
    BY <2>2, MaxOfPrefix
  <2>4. 1 .. i \in SUBSET (1 .. n) /\ 1 .. i # {}
    <3>1. i \in 1 .. i /\ 1 .. i \subseteq 1 .. n
      BY <1>0, <2>2
    <3> QED
      BY <3>1
  <2> HIDE DEF i
  <2>5. v[1 .. i] = StepTo(v[1 .. k], t[i]) /\ w[1 .. i] = StepTo(w[1 .. k], t[i])
    BY <1>1, <2>3, <2>4 DEF WalkStep
  <2> QED
    BY <1>0, <2>2, <2>5, StepIsMoved
<1>4. Nat \subseteq T
  <2> HIDE DEF T
  <2>1. T \in SUBSET Nat
    BY DEF T
  <2> QED
    BY <1>2, <1>3, <2>1, NatSetInduction
<1> QED
  BY <1>0, <1>4 DEF v, w

\* A symlink leads to the same file from where it is staged.
LEMMA LinksAreMoved ==
  ASSUME NEW p \in Steps, p # <<>>, NEW t \in Steps, Follow(p, t) # <<>>
  PROVE  Follow(restage_path(p), t) = restage_path(Follow(p, t))
<1> DEFINE q == restage_path(p)
<1>0. q \in Steps /\ Len(q) = Len(p) /\ Len(p) \in Nat \ {0}
  BY RestagedPath
<1>1. Front(p) \in Steps /\ Front(q) \in Steps /\ Moved(Front(p), Front(q))
  <2>1. CASE Len(p) = 1
    <3>1. Front(p) = SubSeq(p, 1, 0) /\ Front(q) = SubSeq(q, 1, 0)
      BY <1>0, <2>1 DEF Front
    <3>2. SubSeq(p, 1, 0) = <<>> /\ SubSeq(q, 1, 0) = <<>> /\ <<>> \in Steps
      BY <1>0 DEF Steps
    <3> QED
      BY <3>1, <3>2 DEF Moved
  <2>2. CASE Len(p) # 1
    <3>1. Len(p) > 1
      BY <1>0, <2>2
    <3>2. Front(p) \in Steps /\ Front(p) # <<>> /\ restage_path(Front(p)) = Front(q)
      BY <3>1, RestageOfFront
    <3>3. Front(q) \in Steps
      BY <3>2, RestagedPath
    <3> QED
      BY <3>2, <3>3 DEF Moved
  <2> QED
    BY <2>1, <2>2
<1> HIDE DEF q
<1>2. Moved(Follow(p, t), Follow(q, t))
  BY <1>1, WalksAreMoved, FollowIsAWalk
<1> QED
  BY <1>2 DEF Moved, q

\* What stands in an archive.
LEMMA RealEntriesAre ==
  ASSUME ArchiveInv, NEW i \in RealEntries(archive)
  PROVE  /\ archive[i].path \in Steps /\ archive[i].path # <<>>
         /\ archive[i].kind = "hard" => archive[i].link \in Steps /\ archive[i].link # <<>>
         /\ archive[i].kind = "symlink" => archive[i].link \in Steps /\ archive[i].link # <<>>
         /\ normalize_for_staging(archive)[i] = Restage(archive[i])
         /\ Restage(archive[i]).path = restage_path(archive[i].path)
         /\ Restage(archive[i]).kind = archive[i].kind
         /\ Restage(archive[i]).link =
              IF archive[i].kind = "hard" THEN restage_path(archive[i].link) ELSE archive[i].link
<1> DEFINE e == archive[i]
<1>1. e \in Entry /\ e.kind # "pax"
  BY DEF ArchiveInv, RealEntries
<1> HIDE DEF e
<1>2. /\ e.path \in Path
      /\ e.kind = "hard" => e.link \in Path
      /\ e.kind = "symlink" => e.link \in SymTarget
  BY <1>1 DEF Entry
<1>3. \A p \in Path \cup SymTarget : p \in Steps /\ p # <<>>
  <2>1. \A p \in Path \cup SymTarget : p \in Seq(STRING) /\ p # <<>>
    BY StagingAssumption
  <2>2. Seq(STRING) \subseteq Steps
    BY SeqMonotonic DEF Steps, Name
  <2> QED
    BY <2>1, <2>2
<1>4. /\ Restage(e).path = restage_path(e.path) /\ Restage(e).kind = e.kind
      /\ Restage(e).link = IF e.kind = "hard" THEN restage_path(e.link) ELSE e.link
  <2>1. \E k, p, l : e = [kind |-> k, path |-> p, link |-> l]
    BY <1>1 DEF Entry
  <2> QED
    BY <2>1 DEF Restage
<1>5. normalize_for_staging(archive)[i] = Restage(e)
  BY DEF normalize_for_staging, e
<1> QED
  BY <1>2, <1>3, <1>4, <1>5 DEF e

\* An accepted archive has one top directory.
LEMMA OneTop ==
  ASSUME ArchiveInv, single_top_dir(archive),
         NEW i \in RealEntries(archive), NEW j \in RealEntries(archive)
  PROVE  Head(archive[i].path) = Head(archive[j].path)
<1> DEFINE heads == {Head(p) : p \in {archive[k].path : k \in RealEntries(archive)}}
<1>1. IsFiniteSet(heads)
  <2>1. DOMAIN archive = 1 .. Len(archive) /\ Len(archive) \in Nat
    BY DEF ArchiveInv
  <2>2. IsFiniteSet(1 .. Len(archive))
    BY <2>1, FS_Interval
  <2>3. IsFiniteSet(RealEntries(archive))
    BY <2>1, <2>2, FS_Subset DEF RealEntries
  <2> DEFINE head == [k \in RealEntries(archive) |-> Head(archive[k].path)]
  <2>4. head \in Surjection(RealEntries(archive), heads)
    BY DEF Surjection
  <2> QED
    BY <2>3, <2>4, FS_Surjection
<1>2. Cardinality(heads) = 1
  BY DEF single_top_dir
<1>3. Head(archive[i].path) \in heads /\ Head(archive[j].path) \in heads
  OBVIOUS
<1> HIDE DEF heads
<1> QED
  BY <1>1, <1>2, <1>3, FS_Singleton

\* What is staged is the source archive under the constant directory, whatever its paths,
\* links and entries are (restage_path, normalize_for_staging).
THEOREM TheSourceIsStaged == StagingSpec => []StagedTreeIsTheSource
<1>1. StagingInit => ArchiveInv
  BY DEF StagingInit, ArchiveInv
<1>2. ArchiveInv /\ [StagingNext]_archive => ArchiveInv'
  BY DEF StagingNext, ArchiveInv
<1>3. ArchiveInv => StagedTreeIsTheSource
  <2> DEFINE staged == normalize_for_staging(archive)
  <2> SUFFICES ASSUME ArchiveInv, single_top_dir(archive),
                      NEW i \in RealEntries(archive), NEW j \in RealEntries(archive)
               PROVE  /\ Head(staged[i].path) = STAGED_TOP_DIR
                      /\ staged[i].path = staged[j].path <=> archive[i].path = archive[j].path
                      /\ (archive[j].kind \in {"hard", "symlink"} /\ Leads(archive[j]) = archive[i].path)
                           => Leads(staged[j]) = staged[i].path
    BY DEF StagedTreeIsTheSource
  <2> DEFINE p == archive[i].path
             q == archive[j].path
             l == archive[j].link
  <2>1. /\ p \in Steps /\ q \in Steps /\ p # <<>> /\ q # <<>>
        /\ staged[i].path = restage_path(p) /\ staged[j].path = restage_path(q)
    BY RealEntriesAre
  <2>2. Head(restage_path(p)) = STAGED_TOP_DIR
    <3>1. restage_path(p) \in Steps /\ restage_path(p) # <<>> /\ restage_path(p)[1] = STAGED_TOP_DIR
      BY <2>1, RestagedPath
    <3> QED
      BY <3>1, RestagedPath
  <2>3. restage_path(p) = restage_path(q) => p = q
    BY <2>1, OneTop, RestageIsInjective
  <2>4. ASSUME archive[j].kind = "hard", Leads(archive[j]) = p
        PROVE  Leads(staged[j]) = restage_path(p)
    BY <2>4, RealEntriesAre DEF Leads
  <2>5. ASSUME archive[j].kind = "symlink", Leads(archive[j]) = p
        PROVE  Leads(staged[j]) = restage_path(p)
    <3>1. l \in Steps /\ Follow(q, l) = p
      BY <2>5, RealEntriesAre DEF Leads
    <3>2. Leads(staged[j]) = Follow(restage_path(q), l)
      BY <2>5, RealEntriesAre DEF Leads
    <3> QED
      BY <2>1, <3>1, <3>2, LinksAreMoved
  <2> HIDE DEF staged, p, q
  <2> QED
    BY <2>1, <2>2, <2>3, <2>4, <2>5 DEF p, q
<1> QED
  BY <1>1, <1>2, <1>3, PTL DEF StagingSpec
=============================================================================
