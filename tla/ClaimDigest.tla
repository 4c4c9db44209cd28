----------------------------- MODULE ClaimDigest -----------------------------
(***************************************************************************)
(* What is hashed into a claim's input_digest: by the service              *)
(* (crates/api/src/claim.rs) and by the contract's reference               *)
(* (contracts/registry/src/claim.rs).  sha256 is left out, so two digests  *)
(* are equal when the bytes under it are.  A u32 length is one symbol,     *)
(* taken from the alphabet the options use, so a length can look like a    *)
(* byte of an option and the reverse.                                      *)
(***************************************************************************)
EXTENDS Naturals, Sequences, SequencesExt

CONSTANTS
    Byte,       \* symbols of an option
    MaxOpts,    \* bound: options of a build
    MaxLen      \* bound: symbols of an option

ASSUME ClaimAssumption == Byte \subseteq Nat /\ MaxOpts \in Nat /\ MaxLen \in Nat

VARIABLES bldopt, other   \* the build options of two jobs

claimVars == <<bldopt, other>>

\* A report's source digest and image digest: 32 bytes each, one symbol here.
Inputs == [source : {"s1", "s2"}, image : {"i1", "i2"}]

\* Mutant: the options are written without their lengths.
InputDigestUnprefixed(in, opts) ==
    <<"sorofy-claim-v1", in.source, in.image, Len(opts)>> \o FlattenSeq(opts)

\* input_digest: domain, source, image, count, and each option after its length.
input_digest(in, opts) ==
    <<"sorofy-claim-v1", in.source, in.image, Len(opts)>>
        \o FlattenSeq([i \in DOMAIN opts |-> <<Len(opts[i])>> \o opts[i]])

\* claim_input_digest: the buffer the contract appends to, option by option.
claim_input_digest(in, opts) ==
    FoldLeft(LAMBDA buf, opt : (buf \o <<Len(opt)>>) \o opt,
             <<"sorofy-claim-v1">> \o <<in.source>> \o <<in.image>> \o <<Len(opts)>>,
             opts)

ClaimInit == bldopt = <<>> /\ other = <<>>

\* One more symbol on the last option, or one more option.
Grown(opts) ==
    {Append(opts, <<>>) : x \in {y \in {1} : Len(opts) < MaxOpts}}
    \cup {ReplaceAt(opts, Len(opts), Append(Last(opts), b)) :
            b \in {c \in Byte : opts # <<>> /\ Len(Last(opts)) < MaxLen}}

ClaimNext ==
    \/ bldopt' \in Grown(bldopt) /\ UNCHANGED other
    \/ other' \in Grown(other) /\ UNCHANGED bldopt

\* Two jobs land on the same claim exactly when they ask the same question: the same
\* source, image and options in the same order, wherever the options are cut; and the
\* service and the contract lay the question out alike (input_digest,
\* claim_input_digest).
DigestNamesTheQuestion ==
    \A a, b \in Inputs :
        /\ input_digest(a, bldopt) = claim_input_digest(a, bldopt)
        /\ input_digest(a, bldopt) = input_digest(b, other) => (a = b /\ bldopt = other)
=============================================================================
