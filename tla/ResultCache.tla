---------------------------- MODULE ResultCache ----------------------------
(***************************************************************************)
(* The cache of crates/api/src/db.rs: the verifications table as a         *)
(* sequence whose index is the row id (rows are never deleted, so SQLite's *)
(* row ids count up from 1), and the versioned schema.  Every operation    *)
(* runs under the connection's mutex, so each is one step of its caller.   *)
(* A row keeps which request it is for, and its status; report, error and  *)
(* the other columns only accompany the status.                            *)
(***************************************************************************)
EXTENDS Naturals, Sequences, SequencesExt

Terminal  == {"verified", "mismatch", "error"}
JobStatus == {"pending"} \cup Terminal

\* The table each migration creates; the prefix applied is PRAGMA user_version.
MIGRATIONS == <<"verifications", "attestations">>

\* A build with the first n migrations refuses a database that has seen more.
understands(n, applied) == applied <= n

insert_pending(rows, r) == Append(rows, [req |-> r, status |-> "pending"])

\* UPDATE .. SET status WHERE id: complete and fail.
complete(rows, id, status) == [rows EXCEPT ![id].status = status]
fail(rows, id)             == [rows EXCEPT ![id].status = "error"]

\* Mutant: the sweep has no WHERE status = 'pending'.
sweep_all(rows) == [i \in DOMAIN rows |-> [rows[i] EXCEPT !.status = "error"]]

fail_orphaned_pending(rows) ==
    [i \in DOMAIN rows |->
        IF rows[i].status = "pending" THEN [rows[i] EXCEPT !.status = "error"] ELSE rows[i]]
=============================================================================
