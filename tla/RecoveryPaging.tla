--------------------------- MODULE RecoveryPaging ---------------------------
(***************************************************************************)
(* The paged recovery of in-doubt transactions: a cron tick reads a shared *)
(* cursor, recovers a bounded number of bounded pages from there, and      *)
(* stores where the next tick goes on.                                     *)
(*                                                                         *)
(* A ledger row is reduced to whether it is in doubt; what recovering one  *)
(* row does to the ledger is module DurableDecision.  Transaction ids are  *)
(* 1..N in their sort order, and 0 is the empty cursor.  New rows may sort *)
(* anywhere, also behind the cursor.                                       *)
(***************************************************************************)
EXTENDS Naturals, FiniteSets

CONSTANTS N,         \* number of transaction ids
          Limit,     \* rows of a page
          MaxPages,  \* pages of a pass
          Stuck,     \* rows whose recovery fails every time
          MaxFaults  \* bound on crashed passes and lost cursors

ASSUME PagingAssumption == /\ N \in Nat /\ Limit \in Nat \ {0} /\ MaxPages \in Nat \ {0}
                           /\ Stuck \subseteq 1..N /\ MaxFaults \in Nat

VARIABLES
    state,    \* state[i]: none, doubt or closed
    cursor,   \* the cursor in Redis
    faults,   \* crashes and losses so far
    pc,       \* the next step of the pass
    at,       \* the pass's own cursor
    pages,    \* pages it has begun
    todo,     \* rows of the page it has not come to
    next,     \* next_after of the page
    more,     \* has_more of the page
    failures, \* rows of the page that failed
    due       \* (history) rows in doubt when the scan last started over, not tried since

pass == <<pc, at, pages, todo, next, more, failures>>
pagingVars == <<state, cursor, faults, pc, at, pages, todo, next, more, failures, due>>

Ids == 1..N
InDoubt == {i \in Ids : state[i] = "doubt"}

\* ORDER BY transaction_id LIMIT, of the rows after the cursor.
Page(rows) == {i \in rows : Cardinality({j \in rows : j < i}) < Limit}
Last(rows) == IF rows = {} THEN 0 ELSE CHOOSE i \in rows : \A j \in rows : j <= i

PagingInit == /\ state \in [Ids -> {"none", "doubt"}]
              /\ cursor = 0 /\ faults = 0
              /\ pc = "idle" /\ at = 0 /\ pages = 0 /\ todo = {} /\ next = 0 /\ more = FALSE /\ failures = {}
              /\ due = InDoubt

\* A request begins a transaction, or closes one itself.
Insert(i) == /\ state[i] = "none"
             /\ state' = [state EXCEPT ![i] = "doubt"]
             /\ UNCHANGED <<cursor, faults, pass, due>>
Close(i) == /\ state[i] = "doubt"
            /\ state' = [state EXCEPT ![i] = "closed"]
            /\ UNCHANGED <<cursor, faults, pass, due>>

\* Redis loses the cursor.
LoseCursor == /\ cursor # 0 /\ faults < MaxFaults
              /\ cursor' = 0 /\ faults' = faults + 1
              /\ UNCHANGED <<state, pass, due>>
----------------------------------------------------------------------------
\* The cron tick reads the cursor; an unreadable one restarts the scan.
Tick == /\ pc = "idle"
        /\ \/ at' = cursor /\ UNCHANGED faults
           \/ at' = 0 /\ faults < MaxFaults /\ faults' = faults + 1
        /\ pc' = "list" /\ pages' = 0
        /\ UNCHANGED <<state, cursor, todo, next, more, failures, due>>

\* Mutant: the row fetched only to learn of more rows becomes the next cursor.
ListPageSkips ==
    LET rows == {i \in InDoubt : i > at}  beyond == rows \ Page(rows) IN
    /\ pc = "list"
    /\ todo' = Page(rows) /\ more' = (beyond # {})
    /\ next' = Last(IF beyond = {} THEN Page(rows) ELSE Page(beyond))
    /\ pages' = pages + 1 /\ pc' = "rows" /\ failures' = {}
    /\ UNCHANGED <<state, cursor, faults, at, due>>

\* list_in_doubt_page and the cursor recover_page computes from it.
ListPage ==
    LET rows == {i \in InDoubt : i > at} IN
    /\ pc = "list"
    /\ todo' = Page(rows) /\ more' = (rows # Page(rows))
    /\ next' = Last(Page(rows))
    /\ pages' = pages + 1 /\ pc' = "rows" /\ failures' = {}
    /\ UNCHANGED <<state, cursor, faults, at, due>>

\* _recover_rows on the next row of the page: it is closed, left because it has
\* not expired, or fails; the pass goes on in any case.
RecoverRow(i) ==
    /\ pc = "rows" /\ i \in todo /\ \A j \in todo : i <= j
    /\ todo' = todo \ {i}
    /\ due' = due \ {i}
    /\ \/ /\ i \notin Stuck
          /\ state' = [state EXCEPT ![i] = "closed"] /\ UNCHANGED failures
       \/ UNCHANGED <<state, failures>>
       \/ failures' = failures \cup {i} /\ UNCHANGED state
    /\ UNCHANGED <<cursor, faults, pc, at, pages, next, more>>

\* The successful alternative of RecoverRow, for the fairness of a retried row.
RecoverRowCloses(i) == RecoverRow(i) /\ state'[i] = "closed"

\* Mutant: a failed row ends the pass.
PageDoneStops ==
    /\ pc = "rows" /\ todo = {}
    /\ at' = IF failures # {} THEN at ELSE IF more THEN next ELSE 0
    /\ pc' = IF failures = {} /\ more /\ pages < MaxPages THEN "list" ELSE "save"
    /\ UNCHANGED <<state, cursor, faults, pages, todo, next, more, failures, due>>

\* recover_card_transactions after a page, failed rows or not: past the page, or
\* back to the start after the last one; at most MaxPages pages.
PageDone ==
    /\ pc = "rows" /\ todo = {}
    /\ at' = IF more THEN next ELSE 0
    /\ pc' = IF more /\ pages < MaxPages THEN "list" ELSE "save"
    /\ UNCHANGED <<state, cursor, faults, pages, todo, next, more, failures, due>>

\* The tick stores the pass's cursor.
Save == /\ pc = "save"
        /\ cursor' = at
        /\ due' = IF at = 0 THEN InDoubt ELSE due
        /\ pc' = "idle"
        /\ UNCHANGED <<state, faults, at, pages, todo, next, more, failures>>

\* The pass dies, or its cursor cannot be stored: the old cursor stands.
Crash == /\ pc # "idle" /\ faults < MaxFaults /\ faults' = faults + 1
         /\ pc' = "idle" /\ todo' = {} /\ failures' = {}
         /\ UNCHANGED <<state, cursor, at, pages, next, more, due>>

PagingNext == \/ \E i \in Ids : Insert(i) \/ Close(i) \/ RecoverRow(i)
              \/ LoseCursor \/ Tick \/ ListPage \/ PageDone \/ Save \/ Crash

PagingSpec == PagingInit /\ [][PagingNext]_pagingVars

\* The cron ticks for ever and its passes go on; a row that is not stuck is
\* recovered by some attempt of many.
PassStep == Tick \/ ListPage \/ PageDone \/ Save \/ \E i \in Ids : RecoverRow(i)
FairSpec == PagingSpec /\ WF_pagingVars(PassStep) /\ \A i \in Ids : SF_pagingVars(RecoverRowCloses(i))
----------------------------------------------------------------------------
PagingTypeOK == /\ state \in [Ids -> {"none", "doubt", "closed"}]
                /\ cursor \in 0..N /\ at \in 0..N /\ next \in 0..N
                /\ faults \in 0..MaxFaults
                /\ pc \in {"idle", "list", "rows", "save"}
                /\ pages \in 0..MaxPages
                /\ todo \subseteq Ids /\ Cardinality(todo) <= Limit
                /\ failures \subseteq Ids
                /\ more \in BOOLEAN
                /\ due \subseteq Ids

\* Paging never skips: a row in doubt since the scan last started over and not
\* tried since lies ahead of the stored cursor, of the pass and of its page,
\* whatever was inserted, closed, failed or lost in between.
NothingSkipped == \A i \in due : state[i] = "doubt" =>
    /\ i > cursor
    /\ pc = "list" => i > at
    /\ pc = "save" => at # 0 /\ i > at
    /\ pc = "rows" => i \in todo \/ (more /\ i > next)

\* A row that can be recovered is closed in the end: rows that fail for good
\* never keep recovery from the ones behind them, and a row that appears behind
\* the cursor has its turn (recover_card_transactions, "so every row is revisited").
OthersAreRecovered == \A i \in Ids \ Stuck : state[i] = "doubt" ~> state[i] = "closed"
=============================================================================
