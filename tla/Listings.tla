------------------------------ MODULE Listings ------------------------------
(***************************************************************************)
(* The lists of the dashboard, read page by page while rows are inserted   *)
(* and change: claims and policies by page number (StandardPagination), the *)
(* audit log by cursor (CursorPaginationByDate).                           *)
(*                                                                         *)
(* A list shows the newest rows first.  A row gets its timestamp before it *)
(* is committed (auto_now_add when the object is saved, occurred_at even   *)
(* in another service), so rows become visible in another order than that  *)
(* of the list.  Timestamps are numbered in their order and no two are     *)
(* equal.  A row may leave the filter of a list, when its status changes,  *)
(* and enter it (an audited event does neither; its list is filtered on    *)
(* the first page alone, where that makes no difference).  Rows are never  *)
(* deleted.                                                                *)
(*                                                                         *)
(* A page by number is two statements: the count, that says whether there  *)
(* is a next page, and the rows.  A page by cursor is one.                 *)
(*                                                                         *)
(* The links of a page repeat its number or cursor and not its filter: a   *)
(* list opened with a filter goes on without it.  The links to newer       *)
(* entries of the audit log are left out.                                  *)
(***************************************************************************)
EXTENDS Integers, FiniteSets

CONSTANTS
    Writers,        \* transactions that insert a row
    Readers,        \* windows that show a list
    CursorReaders,  \* those of them that show the audit log
    PageSize,
    MaxStamps       \* bound of the model: rows

ASSUME PageSizeAssumption == PageSize \in Nat \ {0}
ASSUME CursorReadersAssumption == CursorReaders \subseteq Readers
ASSUME MaxStampsAssumption == MaxStamps \in Nat \ {0}

VARIABLES
    stamps,     \* how many timestamps were given
    pending,    \* pending[w]: the timestamp of the row w inserts, 0 for none
    rows,       \* the committed rows
    matching,   \* those of them that have what the filter asks for
    query,      \* query[r]: the page asked for, once it was counted
    list        \* list[r]: what the window knows of its list

listVars == <<stamps, pending, rows, matching, query, list>>

----------------------------------------------------------------------------
NoQuery == [page |-> 0, opens |-> FALSE, filtered |-> FALSE, next |-> FALSE, counted |-> {}]

(* Of the model only: the rows shown so far, those the list had when it was *)
(* opened, and how many came between the two statements of its page.        *)
NoList == [page |-> 0, cursor |-> 0, filtered |-> FALSE, next |-> FALSE,
           seen |-> {}, wanted |-> {}, late |-> 0]

ListInit ==
    /\ stamps = 0
    /\ pending = [w \in Writers |-> 0]
    /\ rows = {}
    /\ matching = {}
    /\ query = [r \in Readers |-> NoQuery]
    /\ list = [r \in Readers |-> NoList]

(* auto_now_add, or the time of an event at its producer.                   *)
Save(w) ==
    /\ pending[w] = 0
    /\ stamps < MaxStamps
    /\ stamps' = stamps + 1
    /\ pending' = [pending EXCEPT ![w] = stamps + 1]
    /\ UNCHANGED <<rows, matching, query, list>>

CommitRow(w) ==
    /\ pending[w] # 0
    /\ rows' = rows \cup {pending[w]}
    /\ matching' \in {matching, matching \cup {pending[w]}}
    /\ pending' = [pending EXCEPT ![w] = 0]
    /\ UNCHANGED <<stamps, query, list>>

(* Another transaction changes the status of a row.                         *)
ChangeStatus(n) ==
    /\ n \in rows
    /\ matching' = IF n \in matching THEN matching \ {n} ELSE matching \cup {n}
    /\ UNCHANGED <<stamps, pending, rows, query, list>>

----------------------------------------------------------------------------
(* The queries.                                                            *)

Before(n, S) == Cardinality({m \in S : m > n})

(* The k-th page of the rows S, and whether there is one after it.          *)
PageOf(S, k) == {n \in S : (k - 1) * PageSize <= Before(n, S) /\ Before(n, S) < k * PageSize}
HasNext(S, k) == Cardinality(S) > k * PageSize

(* The PageSize newest of the rows older than the cursor.                   *)
Older(S, c) == {n \in S : n < c}
Oldest(S) == CHOOSE n \in S : \A m \in S : n <= m

Queried(filtered) == IF filtered THEN matching ELSE rows

(* Mutated form: the link repeats the filter.                               *)
FilterKept(r) == list[r].filtered

(* `?page=${page + 1}`, `?cursor=...`: the filter is not part of the link.   *)
FilterOfLink(r) == FALSE

(* A list opened on rows S.                                                 *)
Opened(filtered, S) == [NoList EXCEPT !.filtered = filtered, !.wanted = S]

----------------------------------------------------------------------------
(* Pages by number.                                                        *)

Count(r, k, opens, filtered) ==
    LET S == Queried(filtered) IN
    /\ query[r] = NoQuery
    /\ query' = [query EXCEPT ![r] =
          [page |-> k, opens |-> opens, filtered |-> filtered, next |-> HasNext(S, k), counted |-> S]]
    /\ UNCHANGED <<stamps, pending, rows, matching, list>>

(* A list is opened at its first page, with a filter (?status=...) or       *)
(* without; its links lead from page to page.                               *)
OpenList(r, filtered) == Count(r, 1, TRUE, filtered)

TurnPage(r) ==
    \/ list[r].next /\ Count(r, list[r].page + 1, FALSE, FilterOfLink(r))
    \/ list[r].page > 1 /\ Count(r, list[r].page - 1, FALSE, FilterOfLink(r))

ShowPage(r) ==
    LET q == query[r]
        S == Queried(q.filtered)
        l == IF q.opens THEN Opened(q.filtered, S) ELSE list[r]
    IN  /\ q # NoQuery
        /\ list' = [list EXCEPT ![r] =
              [l EXCEPT !.page = q.page, !.next = q.next, !.seen = @ \cup PageOf(S, q.page),
                        !.late = Cardinality(S \ q.counted)]]
        /\ query' = [query EXCEPT ![r] = NoQuery]
        /\ UNCHANGED <<stamps, pending, rows, matching>>

(* The user goes elsewhere before the page is there, or it fails.           *)
DropQuery(r) ==
    /\ query[r] # NoQuery
    /\ query' = [query EXCEPT ![r] = NoQuery]
    /\ UNCHANGED <<stamps, pending, rows, matching, list>>

----------------------------------------------------------------------------
(* Pages by cursor: one row more than a page tells whether there is another. *)

ShowEvents(r, l, S) ==
    LET P == PageOf(S, 1) IN
    /\ list' = [list EXCEPT ![r] =
          [l EXCEPT !.next = HasNext(S, 1), !.seen = @ \cup P,
                    !.cursor = IF P = {} THEN @ ELSE Oldest(P)]]
    /\ UNCHANGED <<stamps, pending, rows, matching, query>>

OpenLog(r, filtered) == ShowEvents(r, Opened(filtered, Queried(filtered)), Queried(filtered))

OlderEvents(r) ==
    /\ list[r].next
    /\ ShowEvents(r, list[r], Older(Queried(FilterOfLink(r)), list[r].cursor))

----------------------------------------------------------------------------
ReadList(r) ==
    \/ \E filtered \in BOOLEAN : OpenList(r, filtered)
    \/ TurnPage(r) \/ ShowPage(r) \/ DropQuery(r)

ReadLog(r) ==
    \/ \E filtered \in BOOLEAN : OpenLog(r, filtered)
    \/ OlderEvents(r)

ListNext ==
    \/ \E w \in Writers : Save(w) \/ CommitRow(w)
    \/ \E n \in 1..MaxStamps : ChangeStatus(n)
    \/ \E r \in Readers \ CursorReaders : ReadList(r)
    \/ \E r \in CursorReaders : ReadLog(r)

ListSpec == ListInit /\ [][ListNext]_listVars

----------------------------------------------------------------------------
(* Properties.                                                             *)

ListTypeOK ==
    /\ stamps \in 0..MaxStamps
    /\ pending \in [Writers -> 0..stamps]
    /\ rows \in SUBSET (1..stamps) /\ matching \in SUBSET rows
    /\ query \in [Readers ->
          [page : 0..MaxStamps, opens : BOOLEAN, filtered : BOOLEAN, next : BOOLEAN,
           counted : SUBSET rows]]
    /\ list \in [Readers ->
          [page : 0..MaxStamps, cursor : 0..stamps, filtered : BOOLEAN, next : BOOLEAN,
           seen : SUBSET rows, wanted : SUBSET rows, late : 0..MaxStamps]]

(* The rows a reader can still come to by following the links.              *)
Ahead(r) == IF r \in CursorReaders THEN Older(rows, list[r].cursor)
            ELSE {n \in rows : Before(n, rows) >= list[r].page * PageSize}

(* A reader that follows the links loses none of the rows the list had when *)
(* it was opened: each was shown or is still ahead, and while one is ahead  *)
(* there is a link, but for as many rows as came between the count of the   *)
(* page and its rows; and the link leads to a page that is there (the API   *)
(* answers 404 for one that is not).  Insertions push rows back and can     *)
(* only repeat them; a row that leaves the filter would pull others forward *)
(* over the edge of a page, or empty the last one, but for the filter that  *)
(* the links forget.                                                        *)
NothingIsSkipped ==
    \A r \in Readers :
        /\ list[r].wanted \subseteq list[r].seen \cup Ahead(r)
        /\ ~list[r].next => Cardinality(list[r].wanted \ list[r].seen) <= list[r].late
        /\ list[r].next => Ahead(r) # {}
=============================================================================
