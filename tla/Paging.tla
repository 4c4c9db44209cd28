------------------------------- MODULE Paging -------------------------------
(***************************************************************************)
(* GET /verifications (list_verifications in crates/api/src/server.rs) and *)
(* the explorer page that walks it from the newest row                     *)
(* (crates/api/static/app.js), while jobs insert rows and finish them.     *)
(* The handler reads a page and then the total, in two queries.            *)
(***************************************************************************)
EXTENDS ResultCache

CONSTANTS
    MAX_PAGE,   \* hard ceiling on the rows of one page
    PAGE,       \* the page size the explorer asks for
    MaxRows     \* bound: rows ever inserted

ASSUME PagingAssumption ==
    PAGE \in Nat \ {0} /\ MAX_PAGE \in Nat \ {0} /\ PAGE <= MAX_PAGE /\ MaxRows \in Nat

VARIABLES
    rows,
    base,    \* history: how many rows there were when the walk began
    offset,  \* of the page asked for
    page,    \* the ids read, before the total is
    seen,    \* ids the client was shown
    over     \* no older page is offered

walkVars   == <<base, offset, page, seen, over>>
pagingVars == <<rows, walkVars>>

NoPage == <<0>>   \* no row has id 0

\* ORDER BY id DESC LIMIT limit OFFSET offset, as row ids.
recent(limit, from) ==
    LET newest == Reverse([i \in 1 .. Len(rows) |-> i])
        last   == from + (IF limit <= MAX_PAGE THEN limit ELSE MAX_PAGE)
    IN  SubSeq(newest, from + 1, IF last <= Len(rows) THEN last ELSE Len(rows))

\* Mutant: only the finished rows are counted.
CountFinished == Len(SelectSeq(rows, LAMBDA row : row.status # "pending"))

count == Len(rows)

PagingInit ==
    /\ rows = <<>>
    /\ base = 0 /\ offset = 0 /\ page = NoPage /\ seen = {} /\ over = FALSE

Submit ==
    /\ Len(rows) < MaxRows
    /\ rows' = insert_pending(rows, Len(rows) + 1)
    /\ UNCHANGED walkVars

Finish(i) ==
    /\ rows[i].status = "pending"
    /\ rows' = complete(rows, i, "verified")
    /\ UNCHANGED walkVars

\* recent, the handler's first query; the first page begins the walk.
ReadPage ==
    /\ ~over /\ page = NoPage
    /\ page' = recent(PAGE, offset)
    /\ base' = IF offset = 0 THEN Len(rows) ELSE base
    /\ UNCHANGED <<rows, offset, seen, over>>

\* renderHome's Older link.
OffersOlder == page # <<>> /\ count > PAGE /\ offset + Len(page) < count

\* count, its second; the walk follows the link while there is one.
ReadTotal ==
    /\ page # NoPage
    /\ seen' = seen \cup ToSet(page)
    /\ over' = ~OffersOlder
    /\ offset' = offset + PAGE
    /\ page' = NoPage
    /\ UNCHANGED <<rows, base>>

PagingNext ==
    \/ Submit
    \/ \E i \in DOMAIN rows : Finish(i)
    \/ ReadPage \/ ReadTotal

\* Whoever pages from the newest row to the end was shown every row that was there
\* when it began, whatever was inserted or finished in between: newer rows push older
\* ones towards pages still to come, so a row can be shown twice, never missed.
WalkSeesEveryRow ==
    over => 1 .. base \subseteq seen
=============================================================================
