------------------------------- MODULE Staging -------------------------------
(***************************************************************************)
(* From a fetched source tar to the tree that is staged for the build      *)
(* (single_top_dir, normalize_for_staging and restage_path in              *)
(* crates/verifier-core/src/source.rs): an archive with one top-level      *)
(* directory is re-rooted onto STAGED_TOP_DIR, entry by entry, links       *)
(* included.  A path is the sequence of its components.                    *)
(***************************************************************************)
EXTENDS Naturals, Sequences, SequencesExt, FiniteSets

CONSTANTS
    Path,         \* stored paths, ".." and the root marker "/" among the components
    SymTarget,    \* relative symlink targets
    MaxEntries    \* bound: entries of an archive

ASSUME StagingAssumption ==
    (\A p \in Path \cup SymTarget : p \in Seq(STRING) /\ p # <<>>) /\ MaxEntries \in Nat

VARIABLE archive   \* the entries of the tar, in order

STAGED_TOP_DIR == "source"

Entry ==
    [kind : {"file"}, path : Path, link : {<<>>}]
    \cup [kind : {"hard"}, path : Path, link : Path]
    \cup [kind : {"symlink"}, path : Path, link : SymTarget]
    \cup {[kind |-> "pax", path |-> <<"pax_global_header">>, link |-> <<>>]}

\* Where the entries are that is_pax_meta does not have every walk skip.
RealEntries(tar) == {i \in DOMAIN tar : tar[i].kind # "pax"}

\* Exactly one first component, and no entry that climbs or is absolute.
single_top_dir(tar) ==
    LET paths == {tar[i].path : i \in RealEntries(tar)}
    IN  /\ \A p \in paths : ToSet(p) \cap {"..", "/"} = {}
        /\ Cardinality({Head(p) : p \in paths}) = 1

restage_path(p) == <<STAGED_TOP_DIR>> \o Tail(p)

\* Mutant: no link is re-rooted.
RestageVerbatim(e) == [e EXCEPT !.path = restage_path(@)]

\* A hard link's target is a path of the archive, a symlink's is relative to the link.
Restage(e) ==
    [e EXCEPT !.path = restage_path(@),
              !.link = IF e.kind = "hard" THEN restage_path(@) ELSE @]

\* The real entries in their order, each re-rooted.
normalize_for_staging(tar) == [i \in RealEntries(tar) |-> Restage(tar[i])]

StagingInit == archive = <<>>

StagingNext == Len(archive) < MaxEntries /\ \E e \in Entry : archive' = Append(archive, e)
-----------------------------------------------------------------------------
\* Where a symlink at p with target t leads; <<>> once it has left the top directory.
Follow(p, t) ==
    FoldLeft(LAMBDA at, c : IF at = <<>> THEN <<>>
                            ELSE IF c # ".." THEN Append(at, c)
                            ELSE IF Len(at) = 1 THEN <<>> ELSE Front(at),
             Front(p), t)

Leads(e) == IF e.kind = "hard" THEN e.link ELSE Follow(e.path, e.link)

\* An accepted archive is staged as the same tree under the constant directory: no two
\* of its files fall together, nothing lies outside it, and a hard link or a symlink
\* that stays inside leads to the same file as before (restage_path,
\* normalize_for_staging).
StagedTreeIsTheSource ==
    single_top_dir(archive) =>
        LET real   == RealEntries(archive)
            staged == normalize_for_staging(archive)
        IN  \A i, j \in real :
              /\ Head(staged[i].path) = STAGED_TOP_DIR
              /\ staged[i].path = staged[j].path <=> archive[i].path = archive[j].path
              /\ (archive[j].kind \in {"hard", "symlink"} /\ Leads(archive[j]) = archive[i].path)
                   => Leads(staged[j]) = staged[i].path
=============================================================================
