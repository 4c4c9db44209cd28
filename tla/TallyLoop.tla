----------------------------- MODULE TallyLoop -----------------------------
(***************************************************************************)
(* tally_of as the contract runs it: an outer loop over positions and an   *)
(* inner loop that counts, over an attestation list that grows by one hash *)
(* at a time as attest() appends to it.                                    *)
(***************************************************************************)
EXTENDS Tally

CONSTANTS Hash,      \* rebuilt hashes an attestation may carry
          MaxAtts    \* bound on the attestations of the one claim

ASSUME TallyLoopAssumption == Hash # {} /\ MaxAtts \in Nat

VARIABLE atts        \* rebuilt hashes in the order attested

\* The inner loop over 0..total: `count` and `first_seen` for position i.
InnerCount(i) ==
    LET scan[j \in 0 .. Len(atts)] ==
          IF j = 0 THEN [count |-> 0, first_seen |-> TRUE]
          ELSE IF atts[j] = atts[i]
               THEN [count |-> scan[j-1].count + 1,
                     first_seen |-> scan[j-1].first_seen /\ ~(j < i)]
               ELSE scan[j-1]
    IN  scan[Len(atts)]

\* Mutant: a tie replaces the earlier hash.
OuterStepOnTie(acc, i) ==
    LET inner == InnerCount(i)
        seen  == [acc EXCEPT !.distinct = IF inner.first_seen THEN @ + 1 ELSE @]
    IN  IF inner.count >= acc.top_count
        THEN [seen EXCEPT !.top_count = inner.count, !.top = atts[i]]
        ELSE seen

\* One pass of the outer loop body on the accumulated (top, top_count, distinct).
OuterStep(acc, i) ==
    LET inner == InnerCount(i)
        seen  == [acc EXCEPT !.distinct = IF inner.first_seen THEN @ + 1 ELSE @]
    IN  IF inner.count > acc.top_count
        THEN [seen EXCEPT !.top_count = inner.count, !.top = atts[i]]
        ELSE seen

\* The all-zero hash `top` starts from.
ZeroHash == "zero"

tally_of ==
    LET loop[i \in 0 .. Len(atts)] ==
          IF i = 0 THEN [top |-> ZeroHash, top_count |-> 0, distinct |-> 0]
          ELSE OuterStep(loop[i-1], i)
    IN  loop[Len(atts)]

TallyInit == atts = <<>>

Push(h) == Len(atts) < MaxAtts /\ atts' = Append(atts, h)

TallyNext == \E h \in Hash : Push(h)

-----------------------------------------------------------------------------
(* The loops of tally_of compute the declarative tally: the counts, and the *)
(* earliest of the most common hashes.  Guards the off-by-one and the       *)
(* strict comparison in the loop (lib.rs, tally_of).                        *)
LoopMatchesTally ==
    /\ tally_of.top_count = TopCount(atts)
    /\ tally_of.distinct = Distinct(atts)
    /\ atts # <<>> => tally_of.top = TopHash(atts)
=============================================================================
