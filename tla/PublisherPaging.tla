--------------------------- MODULE PublisherPaging ---------------------------
(***************************************************************************)
(* Reading the publisher list page by page.  A client asks for (start,     *)
(* limit); PublisherInfoDatabase::Find answers with LIMIT and OFFSET, a    *)
(* new thread runs OnPublisherInfoListLoaded, which hands the page and a   *)
(* next_record to the client, and the client asks again from next_record   *)
(* until it is 0.  Meanwhile other threads save publishers.                *)
(*                                                                         *)
(* Rows are numbered in the order of the query, 1 .. rows.  New rows come  *)
(* last, as they do in a query without order_by; no code path deletes a    *)
(* row.  The client is external.                                           *)
(***************************************************************************)
EXTENDS Integers, FiniteSets

CONSTANTS
  MaxRows,   \* bound: rows in the table
  Limits     \* page sizes; 0 means "no LIMIT" to Find

ASSUME PagingAssumption == MaxRows \in Nat /\ Limits \subseteq Nat

VARIABLES
  rows,          \* rows the query matches now
  limit, start,  \* of the request in progress
  page,          \* the rows Find returned, as bound into the task
  state,         \* "query", "loaded" (the task has not run) or "done"
  seen           \* rows the client has been given

vars == <<rows, limit, start, page, state, seen>>

Init ==
  /\ rows \in 0 .. MaxRows
  /\ limit \in Limits
  /\ start \in {0, 1}
  /\ page = {} /\ state = "query" /\ seen = {}

\* Mutated form of Offset: OFFSET start - limit.
OffsetBehind == IF limit > 0 /\ start > limit THEN start - limit ELSE 0

\* Find: OFFSET only beyond 1, and only with a LIMIT.
Offset == IF limit > 0 /\ start > 1 THEN start ELSE 0

Rows == IF limit > 0 THEN {r \in 1 .. rows : Offset < r /\ r <= Offset + limit}
        ELSE 1 .. rows

\* LoadCurrentPublisherInfoList: the query, then RunTask.
LoadCurrentPublisherInfoList ==
  /\ state = "query"
  /\ page' = Rows
  /\ state' = "loaded"
  /\ UNCHANGED <<rows, limit, start, seen>>

\* Mutated forms of NextRecord: a page is skipped; the same page again; back.
NextRecordFar == IF Cardinality(page) = limit THEN start + 2 * limit ELSE 0
NextRecordStuck == IF Cardinality(page) = limit THEN start ELSE 0
NextRecordBack == IF Cardinality(page) = limit THEN start - limit - 1 ELSE 0

\* 0 says that there is no further record.
NextRecord == IF Cardinality(page) = limit THEN start + limit + 1 ELSE 0

\* OnPublisherInfoListLoaded and the client's reaction.
OnPublisherInfoListLoaded ==
  /\ state = "loaded"
  /\ seen' = seen \cup page
  /\ IF NextRecord = 0
     THEN state' = "done" /\ UNCHANGED start
     ELSE state' = "query" /\ start' = NextRecord
  /\ UNCHANGED <<rows, limit, page>>

\* Another thread's save adds an activity row.
SaveRow ==
  /\ rows < MaxRows
  /\ rows' = rows + 1
  /\ UNCHANGED <<limit, start, page, state, seen>>

Next == LoadCurrentPublisherInfoList \/ OnPublisherInfoListLoaded \/ SaveRow

Fairness == WF_vars(LoadCurrentPublisherInfoList \/ OnPublisherInfoListLoaded)
Spec == Init /\ [][Next]_vars /\ Fairness
-----------------------------------------------------------------------------
TypeOK ==
  /\ rows \in 0 .. MaxRows /\ limit \in Limits /\ start \in Nat
  /\ page \subseteq 1 .. MaxRows /\ seen \subseteq 1 .. MaxRows
  /\ state \in {"query", "loaded", "done"}

\* The client is never given a row twice, although rows are added between
\* its requests (Find, OnPublisherInfoListLoaded).
RowOnce == [][state = "loaded" /\ seen' # seen => page \cap seen = {}]_vars

\* next_record is start + limit + 1 while OFFSET counts the rows before the
\* page, so a row is passed over at each page boundary (two at the first, if
\* the client began with start = 1).  Never more than that: each
\* boundary follows a full page of rows given.
MissedBefore(r) == {q \in 1 .. r : q \notin seen}
MissesAreBounded ==
  \A r \in seen :
    Cardinality(MissedBefore(r)) <= 1 + Cardinality(seen) \div limit

\* With a LIMIT the client reaches the end of the table.
PagingEnds == <>(state = "done")
=============================================================================
