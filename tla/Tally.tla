------------------------------- MODULE Tally -------------------------------
(***************************************************************************)
(* The counting the registry decides on (contracts/registry/src/lib.rs,    *)
(* tally_of): given the rebuilt hashes of a claim's attestations in the    *)
(* order they arrived, the most common hash and the counts around it.      *)
(* This is the declarative reading, which the proofs use; TallyLoop has    *)
(* the two nested loops of the source and checks that they agree.          *)
(***************************************************************************)
EXTENDS Integers, Sequences, FiniteSets

\* Attestations that carry h: the inner loop's `count`.
CountOf(hashes, h) == Cardinality({i \in DOMAIN hashes : hashes[i] = h})

Total(hashes) == Len(hashes)

\* Number of first-seen hashes.
Distinct(hashes) == Cardinality({hashes[i] : i \in DOMAIN hashes})

\* The position whose hash ends up in `top`: the count is highest, and it is
\* the earliest such position because `top` is replaced only on count > top_count.
IsTopPosition(hashes, i) ==
    /\ i \in DOMAIN hashes
    /\ \A j \in DOMAIN hashes : CountOf(hashes, hashes[j]) <= CountOf(hashes, hashes[i])
    /\ \A j \in DOMAIN hashes : j < i => CountOf(hashes, hashes[j]) < CountOf(hashes, hashes[i])

\* Meaningful only for a non-empty sequence: callers read it once a claim exists.
TopHash(hashes) == hashes[CHOOSE i \in DOMAIN hashes : IsTopPosition(hashes, i)]

TopCount(hashes) == IF hashes = <<>> THEN 0 ELSE CountOf(hashes, TopHash(hashes))

\* What `slash` asks of the count: 2 * top_count > total.
HasStrictMajority(hashes) == 2 * TopCount(hashes) > Total(hashes)
=============================================================================
