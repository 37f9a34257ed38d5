------------------------------- MODULE Pages -------------------------------
(***************************************************************************)
(* One page of GET /jobs: the newest rows below a cursor, and the cursor   *)
(* of the next page.  Job ids are numbers, which gives them the order      *)
(* Postgres gives UUIDs; a time is a whole number of microseconds, as in   *)
(* timestamptz, and a cursor has only the milliseconds of one, as          *)
(* Date.toISOString() writes it.                                           *)
(***************************************************************************)
EXTENDS Naturals, FiniteSets, Sequences, SequencesExt

CONSTANTS
  Jobs,        \* the ids of all rows there will ever be, numbers from 1
  Created,     \* created_at of each, in microseconds from some instant
  PerMs,       \* how many microseconds this clock has in a millisecond
  Limit,       \* rows to a page: the dashboard's PAGE_SIZE
  Filter       \* the statuses the list asks for

ASSUME RowsAssumption ==
  /\ Jobs \subseteq Nat \ {0}
  /\ IsFiniteSet(Jobs)
  /\ Created \in [Jobs -> Nat]
  /\ PerMs \in Nat \ {0}
  /\ Limit \in Nat \ {0}

\* "none" is no row yet, "live" stands for queued, running, retrying, succeeded.
Statuses == {"none", "live", "dead"}

ASSUME FilterAssumption == Filter \subseteq {"live", "dead"}

\* ORDER BY created_at DESC, id DESC, and (created_at, id) < (cursor.t, cursor.id).
After(t, i, u, k) == t > u \/ (t = u /\ i > k)
Newer(i, k) == After(Created[i], i, Created[k], k)
Millisecond(i) == Created[i] \div PerMs

\* No cursor at all, and the null that says there is no next page: no row has this id.
Start == [t |-> 1, id |-> 0]
End   == [t |-> 0, id |-> 0]

RoundedUp(i) == [t |-> (Millisecond(i) + 1) * PerMs, id |-> i]   \* a mutant

\* encodeCursor of a row: the date has lost its microseconds.
CursorAt(i) == [t |-> Millisecond(i) * PerMs, id |-> i]

Matching(table) == {i \in Jobs : table[i] \in Filter}
Below(rows, cursor) ==
  IF cursor = Start THEN rows ELSE {i \in rows : After(cursor.t, cursor.id, Created[i], i)}

\* How many of the rows come before i.
Rank(i, rows) == Cardinality({k \in rows : Newer(k, i)})

\* LIMIT n of a set of rows, newest first.
Newest(rows, n) ==
  [a \in 1 .. Min({n, Cardinality(rows)}) |-> CHOOSE i \in rows : Rank(i, rows) = a - 1]

CursorOfExtraRow(table, cursor) ==                               \* a mutant
  LET rows == Newest(Below(Matching(table), cursor), Limit + 1)
  IN  [jobs |-> SubSeq(rows, 1, Min({Limit, Len(rows)})),
       next |-> IF Len(rows) > Limit THEN CursorAt(rows[Limit + 1]) ELSE End]

\* One row more than a page is read, only to learn whether there is another page.
Page(table, cursor) ==
  LET rows == Newest(Below(Matching(table), cursor), Limit + 1)
  IN  [jobs |-> SubSeq(rows, 1, Min({Limit, Len(rows)})),
       next |-> IF Len(rows) > Limit THEN CursorAt(rows[Limit]) ELSE End]
=============================================================================
