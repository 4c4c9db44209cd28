------------------------------ MODULE Artifact ------------------------------
(***************************************************************************)
(* Which .wasm of a finished build is hashed (select_wasm_from_tar in      *)
(* crates/verifier-core/src/reproduce.rs).  The release directory of a     *)
(* build of some contracts comes out of the container as a tar, its files  *)
(* in any order.                                                           *)
(***************************************************************************)
EXTENDS Naturals, Sequences, FiniteSets, SequencesExt

CONSTANTS Crate   \* the contract crates a workspace may have

VARIABLES
    workspace,   \* the contracts built, and whether with --optimize
    tar          \* the files read so far, in order

artifactVars == <<workspace, tar>>

File == [contract : Crate, kind : {"wasm", "optimized", "d"}, depth : {2, 3}]

\* What cargo and stellar-cli write: the artifact at the root and under deps/, a
\* dependency file beside it, and the optimized copy beside the artifact.
Output(w) ==
    {[contract |-> c, kind |-> "wasm", depth |-> d] : c \in w.contracts, d \in {2, 3}}
    \cup {[contract |-> c, kind |-> "d", depth |-> 2] : c \in w.contracts}
    \cup {[contract |-> c, kind |-> "optimized", depth |-> 2] :
            c \in IF w.optimize THEN w.contracts ELSE {}}

\* Mutant: files at any depth are candidates.
CandidatesAnyDepth == {i \in DOMAIN tar : tar[i].kind \in {"wasm", "optimized"}}

\* found: where the .wasm files of two components are, release/<name>.wasm.
Candidates == {i \in DOMAIN tar : tar[i].kind \in {"wasm", "optimized"} /\ tar[i].depth = 2}

NoWasmProduced == [error |-> "NoWasmProduced"]
AmbiguousWasm  == [error |-> "AmbiguousWasm"]

\* The one file at these positions.
Only(positions) == tar[CHOOSE i \in positions : TRUE]

select_wasm_from_tar ==
    LET found == Candidates
        optimized == {i \in found : tar[i].kind = "optimized"}
    IN  CASE Cardinality(found) = 0 -> NoWasmProduced
          [] Cardinality(found) = 1 -> Only(found)
          [] Cardinality(found) = 2 /\ Cardinality(optimized) = 1 -> Only(optimized)
          [] OTHER -> AmbiguousWasm

ArtifactInit == workspace = [contracts |-> {}, optimize |-> FALSE] /\ tar = <<>>

Build ==
    /\ workspace.contracts = {}
    /\ \E cs \in SUBSET Crate \ {{}}, o \in BOOLEAN :
        workspace' = [contracts |-> cs, optimize |-> o]
    /\ UNCHANGED tar

Read ==
    /\ \E f \in Output(workspace) \ ToSet(tar) : tar' = Append(tar, f)
    /\ UNCHANGED workspace

ArtifactNext == Build \/ Read

\* The contract whose hash is on chain is the one taken: of one contract, the
\* optimized copy if there is one; of several contracts, none; whatever the order of
\* the files and the intermediates among them.
TheDeployedIsSelected ==
    ToSet(tar) = Output(workspace) =>
        CASE workspace.contracts = {} -> select_wasm_from_tar = NoWasmProduced
          [] \E c \in Crate : workspace.contracts = {c} ->
                select_wasm_from_tar =
                    [contract |-> CHOOSE c \in workspace.contracts : TRUE,
                     kind |-> IF workspace.optimize THEN "optimized" ELSE "wasm", depth |-> 2]
          [] OTHER -> select_wasm_from_tar = AmbiguousWasm
=============================================================================
