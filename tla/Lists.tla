------------------------------- MODULE Lists -------------------------------
(***************************************************************************)
(* How the lists of the API are made: findAll() of every service filters   *)
(* with a chain of where() calls, orders, skips and takes, and says in     *)
(* meta how many pages there are.  A page is a set of ids here; the order  *)
(* of its rows is that of their ids.                                       *)
(*                                                                         *)
(* Definitions marked "Fault" are bugs the code does not have.             *)
(***************************************************************************)
EXTENDS Integers, FiniteSets

CONSTANT Undefined    \* a missing parameter, NaN, null

\* ParseIntWithDefaultPipe: what cannot be parsed counts as not given.
Parsed(value, default) == IF value = Undefined THEN default ELSE value

\* A sort that names no property of a fresh entity is replaced by "-id".
SortBy(sort) == IF sort \in {"id", "-id"} THEN sort ELSE "-id"

Before(sort, a, b) == IF sort = "id" THEN a < b ELSE a > b

\* where() replaces what where() said before: of the filters that are given,
\* in the order of the calls, only the last one counts.
Where(all, filters) ==
    LET given == {i \in DOMAIN filters : filters[i] # Undefined} IN
    IF given = {} THEN all
    ELSE LET last == CHOOSE i \in given : \A j \in given : j <= i IN
         all \cap filters[last]

Rank(rows, sort, x) == Cardinality({y \in rows : Before(sort, y, x)})

\* Fault: skip() counts pages from 0.
PageFromZero(rows, sort, cur, per) ==
    {x \in rows : /\ cur * per <= Rank(rows, sort, x)
                  /\ per # 0 => Rank(rows, sort, x) < (cur + 1) * per}

\* skip((curPage - 1) * perPage).take(perPage); take(0) takes all.
PageOf(rows, sort, cur, per) ==
    {x \in rows : /\ (cur - 1) * per <= Rank(rows, sort, x)
                  /\ per # 0 => Rank(rows, sort, x) < cur * per}

\* A negative OFFSET or LIMIT is an error of the database.
PageFails(cur, per) == per < 0 \/ (cur - 1) * per < 0

\* meta.totalPages; a division by zero is null in JSON.
TotalPages(total, per) ==
    IF per > total THEN 1
    ELSE IF per = 0 THEN Undefined
    ELSE (total + per - 1) \div per

\* Pages 1..totalPages divide the rows of a list: each row is on one page, no
\* page is empty unless there is nothing to show, none comes after the last.
Divided(rows, sort, per) ==
    LET last == TotalPages(Cardinality(rows), per)
        page(cur) == PageOf(rows, sort, cur, per)
    IN  /\ \A x \in rows : \E cur \in 1..last :
              /\ x \in page(cur)
              /\ \A other \in (1..last) \ {cur} : x \notin page(other)
        /\ rows # {} => \A cur \in 1..last : page(cur) # {}
        /\ page(last + 1) = {}
=============================================================================
