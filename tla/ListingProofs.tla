---------------------------- MODULE ListingProofs ----------------------------
(***************************************************************************)
(* What a list of pages promises while the table changes under it, for     *)
(* any rows, any times, any length of a page and any filter: it is in      *)
(* order, it lacks no row that was there all the time but for those in the *)
(* millisecond of a page's last row, and it does not take back a replay    *)
(* that was acknowledged.                                                  *)
(*                                                                         *)
(* The first part is about one page, for any table and any cursor.  The    *)
(* second is about a list of pages, each read below the cursor of the one  *)
(* before, from a table that has changed since.                            *)
(***************************************************************************)
EXTENDS Listing, FiniteSetTheorems, SequenceTheorems, TLAPS

-----------------------------------------------------------------------------
(* One page.                                                               *)

\* What the rows are, in the terms the provers know.
LEMMA RowFacts ==
  ASSUME NEW i \in Jobs
  PROVE  i \in Nat /\ i > 0 /\ Created[i] \in Nat
  BY RowsAssumption

\* ORDER BY created_at DESC, id DESC puts any two rows in an order.
LEMMA NewerIsAnOrder ==
  ASSUME NEW i \in Jobs, NEW j \in Jobs, NEW k \in Jobs
  PROVE  /\ ~Newer(i, i)
         /\ Newer(i, j) => ~Newer(j, i)
         /\ Newer(i, j) /\ Newer(j, k) => Newer(i, k)
         /\ i = j \/ Newer(i, j) \/ Newer(j, i)
  BY RowFacts DEF Newer, After

\* A cut to milliseconds goes down, by less than one.
LEMMA CutToMilliseconds ==
  ASSUME NEW t \in Nat
  PROVE  /\ t \div PerMs \in Nat
         /\ (t \div PerMs) * PerMs =< t
         /\ t < (t \div PerMs + 1) * PerMs
  BY RowsAssumption

\* A product grows with its first factor.
LEMMA ProductGrows ==
  ASSUME NEW a \in Nat, NEW b \in Nat, a =< b
  PROVE  a * PerMs =< b * PerMs
  BY RowsAssumption

\* The cursor of a row is a cursor, not the end and not the start, and not newer than
\* the row.  Of two rows the older one is below the cursor of the other, unless both
\* are of one millisecond (toISOString).
LEMMA CursorOfRow ==
  ASSUME NEW i \in Jobs
  PROVE  /\ CursorAt(i) \in [t : Nat, id : Nat]
         /\ CursorAt(i) # End
         /\ CursorAt(i) # Start
         /\ CursorAt(i).id = i
         /\ CursorAt(i).t =< Created[i]
         /\ \A k \in Jobs :
              Newer(i, k) /\ Millisecond(i) # Millisecond(k) => Created[k] < CursorAt(i).t
<1> DEFINE q(k) == Created[k] \div PerMs
<1>1. \A k \in Jobs : /\ q(k) \in Nat
                      /\ q(k) * PerMs =< Created[k]
                      /\ Created[k] < (q(k) + 1) * PerMs
  BY RowFacts, CutToMilliseconds
<1>2. q(i) * PerMs \in Nat
  BY <1>1, RowsAssumption
<1>3. ASSUME NEW k \in Jobs, Newer(i, k), q(i) # q(k)
      PROVE  Created[k] < q(i) * PerMs
  <2>1. Created[k] =< Created[i] /\ Created[k] \in Nat /\ Created[i] \in Nat
    BY <1>3, RowFacts DEF Newer, After
  <2>2. q(i) \in Nat /\ q(k) \in Nat /\ PerMs \in Nat
    BY <1>1, RowsAssumption
  <2>3. CASE q(k) < q(i)
    <3>1. (q(k) + 1) * PerMs =< q(i) * PerMs
      <4>1. q(k) + 1 \in Nat /\ q(k) + 1 =< q(i)
        BY <2>2, <2>3
      <4> HIDE DEF q
      <4> QED  BY <2>2, <4>1, ProductGrows
    <3>2. Created[k] < (q(k) + 1) * PerMs
      BY <1>1
    <3>3. (q(k) + 1) * PerMs \in Nat
      BY <2>2
    <3> HIDE DEF q
    <3> QED  BY <1>2, <2>1, <3>1, <3>2, <3>3
  <2>4. CASE q(i) < q(k)
    <3>1. (q(i) + 1) * PerMs =< q(k) * PerMs
      <4>1. q(i) + 1 \in Nat /\ q(i) + 1 =< q(k)
        BY <2>2, <2>4
      <4> HIDE DEF q
      <4> QED  BY <2>2, <4>1, ProductGrows
    <3>2. Created[i] < (q(i) + 1) * PerMs /\ q(k) * PerMs =< Created[k]
      BY <1>1
    <3>3. (q(i) + 1) * PerMs \in Nat /\ q(k) * PerMs \in Nat
      BY <2>2
    <3> HIDE DEF q
    <3> QED  BY <2>1, <3>1, <3>2, <3>3
  <2> HIDE DEF q
  <2> QED  BY <1>3, <2>2, <2>3, <2>4
<1>4. CursorAt(i) = [t |-> q(i) * PerMs, id |-> i]
  BY DEF CursorAt, Millisecond
<1>5. \A k \in Jobs : Newer(i, k) /\ Millisecond(i) # Millisecond(k)
                        => Created[k] < CursorAt(i).t
  BY <1>3, <1>4 DEF Millisecond
<1> HIDE DEF q
<1>6. CursorAt(i).id = i /\ CursorAt(i).t = q(i) * PerMs
  BY <1>4
<1>7. CursorAt(i) # End /\ CursorAt(i) # Start
  BY <1>6, RowFacts DEF End, Start
<1> QED  BY <1>1, <1>2, <1>4, <1>5, <1>6, <1>7, RowFacts

\* Nothing is below the end.
LEMMA NothingBelowEnd ==
  ASSUME NEW rows \in SUBSET Jobs
  PROVE  Below(rows, End) = {}
<1>1. End # Start
  BY DEF End, Start
<1>2. \A i \in Jobs : ~After(0, 0, Created[i], i)
  BY RowFacts DEF After
<1> QED  BY <1>1, <1>2 DEF Below, End

\* Whatever is below the cursor of a row is older than the row.
LEMMA BelowIsOlder ==
  ASSUME NEW i \in Jobs, NEW k \in Jobs
  PROVE  k \in Below(Jobs, CursorAt(i)) => Newer(i, k)
<1>1. CursorAt(i) # Start /\ CursorAt(i).id = i /\ CursorAt(i).t =< Created[i]
      /\ CursorAt(i).t \in Nat
  BY CursorOfRow
<1>2. k \in Below(Jobs, CursorAt(i)) => After(CursorAt(i).t, i, Created[k], k)
  BY <1>1 DEF Below
<1> QED  BY <1>1, <1>2, RowFacts DEF Newer, After

\* Whatever is older than a row below a cursor is below the cursor too.
LEMMA OlderIsBelow ==
  ASSUME NEW c \in [t : Nat, id : Nat], NEW i \in Below(Jobs, c), NEW k \in Jobs, Newer(i, k)
  PROVE  k \in Below(Jobs, c)
<1>1. CASE c = Start
  BY <1>1 DEF Below
<1>2. CASE c # Start
  <2>1. i \in Jobs /\ After(c.t, c.id, Created[i], i)
    BY <1>2 DEF Below
  <2>2. After(c.t, c.id, Created[k], k)
    BY <2>1, RowFacts DEF After, Newer
  <2> QED  BY <1>2, <2>2 DEF Below
<1> QED  BY <1>1, <1>2

\* The rank of a row says where ORDER BY puts it: the newer row has the lower one.
LEMMA Ranks ==
  ASSUME NEW rows \in SUBSET Jobs
  PROVE  /\ IsFiniteSet(rows) /\ Cardinality(rows) \in Nat
         /\ \A i \in rows : Rank(i, rows) \in 0 .. Cardinality(rows) - 1
         /\ \A i, j \in rows : Newer(i, j) <=> Rank(i, rows) < Rank(j, rows)
<1> DEFINE ahead(i) == {k \in rows : Newer(k, i)}
<1>1. IsFiniteSet(rows) /\ Cardinality(rows) \in Nat
  BY RowsAssumption, FS_Subset, FS_CardinalityType
<1>2. \A i \in rows : IsFiniteSet(ahead(i)) /\ Rank(i, rows) \in Nat
  BY <1>1, FS_Subset, FS_CardinalityType DEF Rank
<1>3. ASSUME NEW i \in rows
      PROVE  Rank(i, rows) \in 0 .. Cardinality(rows) - 1
  <2>1. ahead(i) \in SUBSET (rows \ {i})
    BY NewerIsAnOrder
  <2>2. IsFiniteSet(rows \ {i}) /\ Cardinality(rows \ {i}) = Cardinality(rows) - 1
    BY <1>1, FS_RemoveElement
  <2>3. Rank(i, rows) =< Cardinality(rows \ {i})
    BY <2>1, <2>2, FS_Subset DEF Rank
  <2>4. Rank(i, rows) \in Nat
    BY <1>2
  <2> HIDE DEF ahead
  <2> QED  BY <1>1, <2>2, <2>3, <2>4
<1>4. ASSUME NEW i \in rows, NEW j \in rows, Newer(i, j)
      PROVE  Rank(i, rows) < Rank(j, rows)
  <2>1. i \notin ahead(i) /\ ahead(i) \cup {i} \in SUBSET ahead(j)
    BY <1>4, NewerIsAnOrder
  <2>2. Cardinality(ahead(i) \cup {i}) = Rank(i, rows) + 1
    BY <1>2, <2>1, FS_AddElement DEF Rank
  <2>3. Cardinality(ahead(i) \cup {i}) =< Rank(j, rows)
    BY <1>2, <2>1, FS_Subset DEF Rank
  <2>4. Rank(i, rows) \in Nat /\ Rank(j, rows) \in Nat
    BY <1>2
  <2> HIDE DEF ahead
  <2> QED  BY <2>2, <2>3, <2>4
<1>5. ASSUME NEW i \in rows, NEW j \in rows, Rank(i, rows) < Rank(j, rows)
      PROVE  Newer(i, j)
  <2>1. i # j /\ ~Newer(j, i)
    <3>1. Rank(i, rows) \in Nat /\ Rank(j, rows) \in Nat
      BY <1>2
    <3>2. Newer(j, i) => Rank(j, rows) < Rank(i, rows)
      BY <1>4
    <3> HIDE DEF ahead
    <3> QED  BY <1>5, <3>1, <3>2
  <2> QED  BY <2>1, NewerIsAnOrder
<1> QED  BY <1>1, <1>3, <1>4, <1>5

\* Every number below the number of rows is the rank of one: were one missing, two of
\* the rows would share another.
LEMMA EveryRank ==
  ASSUME NEW rows \in SUBSET Jobs, NEW a \in 0 .. Cardinality(rows) - 1
  PROVE  \E i \in rows : Rank(i, rows) = a
<1> SUFFICES ASSUME \A i \in rows : Rank(i, rows) # a PROVE FALSE
  OBVIOUS
<1> DEFINE N == Cardinality(rows)
           others == (0 .. N - 1) \ {a}
           f == [i \in rows |-> Rank(i, rows)]
<1>1. N \in Nat /\ IsFiniteSet(rows)
  BY Ranks
<1>2. IsFiniteSet(others) /\ Cardinality(others) < Cardinality(rows)
  <2>1. IsFiniteSet(0 .. N - 1) /\ Cardinality(0 .. N - 1) = N
    BY <1>1, FS_Interval
  <2>2. IsFiniteSet(others) /\ Cardinality(others) = N - 1
    BY <2>1, FS_RemoveElement
  <2> QED  BY <1>1, <2>2
<1>3. f \in [rows -> others]
  BY Ranks
<1>4. PICK i \in rows, j \in rows : i # j /\ f[i] = f[j]
  <2> HIDE DEF f, others
  <2> QED  BY <1>1, <1>2, <1>3, FS_PigeonHole
<1>5. Rank(i, rows) = Rank(j, rows)
  BY <1>4
<1>6. ~Newer(i, j) /\ ~Newer(j, i)
  BY <1>5, Ranks
<1> QED  BY <1>4, <1>6, NewerIsAnOrder

\* ORDER BY ... LIMIT: the row of rank a - 1 is the a-th, as far as the limit and the
\* rows go.
LEMMA NewestRows ==
  ASSUME NEW rows \in SUBSET Jobs, NEW n \in Nat
  PROVE  /\ Newest(rows, n) \in Seq(rows)
         /\ Len(Newest(rows, n)) = IF n < Cardinality(rows) THEN n ELSE Cardinality(rows)
         /\ \A a \in 1 .. Len(Newest(rows, n)) :
              Newest(rows, n)[a] \in rows /\ Rank(Newest(rows, n)[a], rows) = a - 1
<1> DEFINE N == Cardinality(rows)
           len == IF n < N THEN n ELSE N
           row(a) == CHOOSE i \in rows : Rank(i, rows) = a - 1
<1>1. N \in Nat
  BY Ranks
<1>2. Min({n, N}) = len
  BY <1>1 DEF Min
<1>3. ASSUME NEW a \in 1 .. len
      PROVE  row(a) \in rows /\ Rank(row(a), rows) = a - 1
  <2>1. a - 1 \in 0 .. N - 1
    BY <1>1
  <2> QED  BY <2>1, EveryRank
<1>4. Newest(rows, n) = [a \in 1 .. len |-> row(a)]
  BY <1>2 DEF Newest
<1>5. len \in Nat
  BY <1>1
<1> HIDE DEF row, len
<1>6. Newest(rows, n) \in [1 .. len -> rows]
  BY <1>3, <1>4
<1>7. Newest(rows, n) \in Seq(rows) /\ Len(Newest(rows, n)) = len
  BY <1>5, <1>6
<1> QED  BY <1>3, <1>4, <1>7 DEF len

-----------------------------------------------------------------------------
(* What a page is, without how it is read.                                 *)

Listed == [jobs : Seq(Jobs), next : [t : Nat, id : Nat]]

WellMade(p) ==
  /\ \A a, b \in DOMAIN p.jobs : a < b => Newer(p.jobs[a], p.jobs[b])
  /\ p.next # End => p.jobs # <<>> /\ p.next = CursorAt(Last(p.jobs))

\* GET /jobs answers with rows that match and are below the cursor, in order; it leaves
\* out only rows that are older than the last, and says so in the next cursor.
LEMMA PageOfRows ==
  ASSUME NEW statuses, NEW cursor,
         NEW rows, rows = Below(Matching(statuses), cursor),
         NEW p, p = Page(statuses, cursor)
  PROVE  /\ p \in Listed
         /\ ToSet(p.jobs) \subseteq rows
         /\ WellMade(p)
         /\ \A i \in rows : \/ i \in ToSet(p.jobs)
                            \/ p.next # End /\ Newer(Last(p.jobs), i)
<1> DEFINE s == Newest(rows, Limit + 1)
<1>1. rows \in SUBSET Jobs /\ Limit \in Nat \ {0}
  BY RowsAssumption DEF Below, Matching
<1>2. /\ s \in Seq(rows)
      /\ Len(s) = IF Limit + 1 < Cardinality(rows) THEN Limit + 1 ELSE Cardinality(rows)
      /\ \A a \in 1 .. Len(s) : s[a] \in rows /\ Rank(s[a], rows) = a - 1
  <2>1. Limit + 1 \in Nat
    BY <1>1
  <2> QED  BY <1>1, <2>1, NewestRows, Zenon
<1>3. /\ Cardinality(rows) \in Nat /\ Len(s) \in Nat
      /\ \A i \in rows : Rank(i, rows) \in 0 .. Cardinality(rows) - 1
      /\ \A i, j \in rows : Newer(i, j) <=> Rank(i, rows) < Rank(j, rows)
  BY <1>1, <1>2, Ranks
<1>4. p = [jobs |-> SubSeq(s, 1, Min({Limit, Len(s)})),
           next |-> IF Len(s) > Limit THEN CursorAt(s[Limit]) ELSE End]
  BY DEF Page
<1> HIDE DEF s
<1> DEFINE m == IF Limit < Len(s) THEN Limit ELSE Len(s)
<1>5. Min({Limit, Len(s)}) = m /\ m \in Nat /\ m =< Len(s)
  BY <1>1, <1>3 DEF Min
<1>6. /\ p.jobs = SubSeq(s, 1, m)
      /\ p.next = IF Len(s) > Limit THEN CursorAt(s[Limit]) ELSE End
  <2> DEFINE nextCursor == IF Len(s) > Limit THEN CursorAt(s[Limit]) ELSE End
             page == SubSeq(s, 1, m)
  <2>1. p = [jobs |-> page, next |-> nextCursor]
    BY <1>4, <1>5, Zenon
  <2>2. p.jobs = page /\ p.next = nextCursor
    <3> HIDE DEF nextCursor, page
    <3> QED  BY <2>1
  <2> QED  BY <2>2
<1> HIDE DEF m
<1>7. /\ p.jobs \in Seq(rows) /\ Len(p.jobs) = m
      /\ \A a \in 1 .. m : p.jobs[a] = s[a]
  <2>1. \A a \in 1 .. m : s[a] \in rows
    BY <1>2, <1>3, <1>5
  <2>2. /\ SubSeq(s, 1, m) \in Seq(rows)
        /\ Len(SubSeq(s, 1, m)) = IF 1 =< m THEN m - 1 + 1 ELSE 0
        /\ \A a \in 1 .. m - 1 + 1 : SubSeq(s, 1, m)[a] = s[1 + a - 1]
    BY <1>5, <2>1, SubSeqProperties
  <2> QED  BY <1>5, <1>6, <2>2
<1>8. DOMAIN p.jobs = 1 .. m
  BY <1>7
<1>9. \A a \in 1 .. m : p.jobs[a] \in rows /\ Rank(p.jobs[a], rows) = a - 1
  BY <1>2, <1>3, <1>5, <1>7
<1>10. ASSUME NEW a \in 1 .. m, NEW b \in 1 .. m, a < b
       PROVE  Newer(p.jobs[a], p.jobs[b])
  BY <1>3, <1>5, <1>9, <1>10
<1>11. ASSUME p.next # End
       PROVE  /\ m = Limit /\ Limit < Len(s)
              /\ p.jobs # <<>> /\ p.next = CursorAt(Last(p.jobs))
  <2>1. Len(s) > Limit
    BY <1>6, <1>11
  <2>2. m = Limit
    BY <1>1, <1>3, <2>1 DEF m
  <2>3. Last(p.jobs) = s[Limit] /\ Len(p.jobs) # 0
    BY <1>1, <1>7, <2>2 DEF Last
  <2> QED  BY <1>6, <2>1, <2>2, <2>3
<1>12. p \in Listed
  <2>1. p.jobs \in Seq(Jobs)
    BY <1>1, <1>7
  <2>2. p.next \in [t : Nat, id : Nat]
    <3>1. CASE p.next = End
      BY <3>1 DEF End
    <3>2. CASE p.next # End
      <4>1. Last(p.jobs) \in Jobs
        BY <1>1, <1>7, <1>11, <3>2 DEF Last
      <4> QED  BY <1>11, <3>2, <4>1, CursorOfRow
    <3> QED  BY <3>1, <3>2
  <2> QED  BY <1>4, <2>1, <2>2 DEF Listed
<1>13. ASSUME NEW i \in rows, i \notin ToSet(p.jobs)
       PROVE  p.next # End /\ Newer(Last(p.jobs), i)
  <2>1. \A a \in 1 .. m : Rank(i, rows) # a - 1
    <3>1. ASSUME NEW a \in 1 .. m, Rank(i, rows) = a - 1
          PROVE  i = p.jobs[a]
      <4>1. p.jobs[a] \in rows /\ Rank(p.jobs[a], rows) = Rank(i, rows)
        BY <1>9, <3>1
      <4>2. ~Newer(i, p.jobs[a]) /\ ~Newer(p.jobs[a], i)
        BY <1>3, <4>1
      <4> QED  BY <1>1, <4>1, <4>2, NewerIsAnOrder
    <3> QED  BY <1>8, <1>13, <3>1 DEF ToSet
  <2>2. Rank(i, rows) \in Nat /\ Rank(i, rows) < Cardinality(rows)
    BY <1>3
  <2>3. Rank(i, rows) >= m
    <3>1. Rank(i, rows) < m => Rank(i, rows) + 1 \in 1 .. m
      BY <1>5, <2>2
    <3>2. Rank(i, rows) + 1 - 1 = Rank(i, rows)
      BY <2>2
    <3> QED  BY <1>5, <2>1, <2>2, <3>1, <3>2
  <2>4. Len(s) > Limit /\ m = Limit
    <3>1. m < Cardinality(rows)
      BY <1>3, <1>5, <2>2, <2>3
    <3> QED  BY <1>1, <1>2, <1>3, <3>1 DEF m
  <2>5. Last(p.jobs) = p.jobs[m] /\ m \in 1 .. m
    BY <1>1, <1>7, <2>4 DEF Last
  <2>6. Rank(Last(p.jobs), rows) = m - 1 /\ Last(p.jobs) \in rows
    BY <1>9, <2>5
  <2>7. Newer(Last(p.jobs), i)
    BY <1>3, <1>5, <2>2, <2>3, <2>6
  <2>8. p.next = CursorAt(Last(p.jobs))
    BY <1>6, <1>7, <2>4, <2>5
  <2>9. p.next # End
    BY <1>1, <2>6, <2>8, CursorOfRow
  <2> QED  BY <2>7, <2>9
<1>14. WellMade(p)
  BY <1>8, <1>10, <1>11 DEF WellMade
<1>15. ToSet(p.jobs) \subseteq rows
  BY <1>8, <1>9 DEF ToSet
<1> QED  BY <1>12, <1>13, <1>14, <1>15

-----------------------------------------------------------------------------
(* A list of pages.                                                        *)

\* Every page but the last has another below it, and every row of a later one is below
\* its cursor.
Linked(P) ==
  \A m, n \in DOMAIN P : m < n =>
    /\ P[m].next # End
    /\ ToSet(P[n].jobs) \subseteq Below(Jobs, P[m].next)

Chain(P) ==
  /\ P \in Seq(Listed)
  /\ \A n \in DOMAIN P : WellMade(P[n])
  /\ Linked(P)

\* A row is listed, or shares the millisecond of a page's last row, or is still to come.
InSight(P, i) ==
  \/ \E n \in DOMAIN P : i \in ToSet(P[n].jobs)
  \/ \E n \in Boundaries(P) : Millisecond(i) = Millisecond(Last(P[n].jobs))
  \/ NextParam(P) # End /\ i \in Below(Jobs, NextParam(P))

Covers(P, rows) == P # <<>> => \A i \in rows : InSight(P, i)

\* What a page list has for its cursor when it goes on (getNextPageParam).
Continues(P, cursor) ==
  \/ P = <<>> /\ cursor = Start
  \/ P # <<>> /\ NextParam(P) # End /\ cursor = NextParam(P)

\* The last page of a list, and the last row of a page that has another below it.
LEMMA LastOfChain ==
  ASSUME NEW P, Chain(P), NEW n \in DOMAIN P
  PROVE  /\ DOMAIN P = 1 .. Len(P) /\ Len(P) \in Nat
         /\ P[n] \in Listed
         /\ WellMade(P[n])
         /\ DOMAIN P[n].jobs = 1 .. Len(P[n].jobs) /\ Len(P[n].jobs) \in Nat
         /\ \A a \in DOMAIN P[n].jobs : P[n].jobs[a] \in Jobs
         /\ P[n].next # End =>
              /\ Last(P[n].jobs) \in ToSet(P[n].jobs)
              /\ Last(P[n].jobs) \in Jobs
              /\ Len(P[n].jobs) \in DOMAIN P[n].jobs
              /\ P[n].next = CursorAt(Last(P[n].jobs))
              /\ n \in Boundaries(P)
<1>1. P \in Seq(Listed) /\ WellMade(P[n])
  BY DEF Chain
<1>2. DOMAIN P = 1 .. Len(P) /\ Len(P) \in Nat /\ P[n] \in Listed
  BY <1>1
<1> DEFINE jobs == P[n].jobs
<1>3. jobs \in Seq(Jobs)
  BY <1>2 DEF Listed
<1>4. WellMade(P[n]) => (P[n].next # End => jobs # <<>> /\ P[n].next = CursorAt(Last(jobs)))
  BY DEF WellMade
<1> HIDE DEF jobs
<1>5. DOMAIN jobs = 1 .. Len(jobs) /\ Len(jobs) \in Nat /\ \A a \in DOMAIN jobs : jobs[a] \in Jobs
  BY <1>3
<1>6. ASSUME P[n].next # End
      PROVE  /\ Last(jobs) \in ToSet(jobs) /\ Last(jobs) \in Jobs
             /\ Len(jobs) \in DOMAIN jobs
             /\ P[n].next = CursorAt(Last(jobs))
             /\ jobs # <<>>
  <2>1. jobs # <<>> /\ P[n].next = CursorAt(Last(jobs))
    BY <1>1, <1>4, <1>6
  <2>2. Len(jobs) \in DOMAIN jobs
    BY <1>3, <1>5, <2>1
  <2> QED  BY <1>5, <2>1, <2>2 DEF Last, ToSet
<1>7. P[n].next # End => n \in Boundaries(P)
  BY <1>6 DEF Boundaries, jobs
<1> QED  BY <1>1, <1>2, <1>5, <1>6, <1>7 DEF jobs

\* A page that is read from the cursor of the list continues it, whatever the table
\* has become since the pages before were read.
LEMMA PageContinues ==
  ASSUME NEW P, Chain(P), NEW statuses, NEW cursor, Continues(P, cursor),
         NEW p, p = Page(statuses, cursor)
  PROVE  Chain(Append(P, p))
<1> DEFINE Q == Append(P, p)
           len == Len(P)
<1>1. P \in Seq(Listed) /\ Linked(P) /\ \A n \in DOMAIN P : WellMade(P[n])
  BY DEF Chain
<1>2. p \in Listed /\ WellMade(p) /\ ToSet(p.jobs) \subseteq Below(Matching(statuses), cursor)
  BY PageOfRows
<1>3. /\ Q \in Seq(Listed) /\ DOMAIN Q = 1 .. len + 1 /\ DOMAIN P = 1 .. len /\ len \in Nat
      /\ Q[len + 1] = p /\ \A n \in 1 .. len : Q[n] = P[n]
  BY <1>1, <1>2
<1> HIDE DEF Q, len
<1>4. ToSet(p.jobs) \subseteq Below(Jobs, cursor)
  BY <1>2 DEF Below, Matching
<1>5. ASSUME NEW m \in 1 .. len
      PROVE  P[m].next # End /\ ToSet(p.jobs) \subseteq Below(Jobs, P[m].next)
  <2>1. P # <<>> /\ P[len].next # End /\ cursor = P[len].next
    BY <1>1, <1>3, <1>5 DEF Continues, NextParam, Last, len
  <2>2. CASE m = len
    BY <1>4, <2>1, <2>2
  <2>3. CASE m < len
    <3>1. len \in DOMAIN P /\ m \in DOMAIN P
      BY <1>3, <2>3
    <3>2. P[m].next # End /\ ToSet(P[len].jobs) \subseteq Below(Jobs, P[m].next)
      BY <1>1, <2>3, <3>1 DEF Linked
    <3>3. /\ Last(P[len].jobs) \in ToSet(P[len].jobs) /\ Last(P[len].jobs) \in Jobs
          /\ P[len].next = CursorAt(Last(P[len].jobs))
      BY <2>1, <3>1, LastOfChain
    <3>4. P[m].next \in [t : Nat, id : Nat]
      <4>1. P[m] \in Listed
        BY <3>1, LastOfChain
      <4> QED  BY <4>1 DEF Listed
    <3>5. ASSUME NEW i \in ToSet(p.jobs)
          PROVE  i \in Below(Jobs, P[m].next)
      <4>1. i \in Jobs /\ i \in Below(Jobs, CursorAt(Last(P[len].jobs)))
        <5>1. i \in Below(Jobs, cursor)
          BY <1>4
        <5>2. Below(Jobs, cursor) \subseteq Jobs
          BY DEF Below
        <5> QED  BY <2>1, <3>3, <5>1, <5>2
      <4>2. Newer(Last(P[len].jobs), i)
        BY <3>3, <4>1, BelowIsOlder
      <4> QED  BY <3>2, <3>3, <3>4, <4>1, <4>2, OlderIsBelow
    <3> QED  BY <3>2, <3>5
  <2> QED  BY <1>3, <2>2, <2>3
<1>6. Linked(Q)
  <2>1. ASSUME NEW m \in DOMAIN Q, NEW n \in DOMAIN Q, m < n
        PROVE  Q[m].next # End /\ ToSet(Q[n].jobs) \subseteq Below(Jobs, Q[m].next)
    <3>1. m \in 1 .. len /\ Q[m] = P[m]
      BY <1>3, <2>1
    <3>2. CASE n = len + 1
      BY <1>3, <1>5, <3>1, <3>2
    <3>3. CASE n \in 1 .. len
      <4>1. Q[n] = P[n] /\ n \in DOMAIN P /\ m \in DOMAIN P
        BY <1>3, <3>1, <3>3
      <4> QED  BY <1>1, <2>1, <3>1, <4>1 DEF Linked
    <3> QED  BY <1>3, <3>2, <3>3
  <2> QED  BY <2>1 DEF Linked
<1>7. \A n \in DOMAIN Q : WellMade(Q[n])
  BY <1>1, <1>2, <1>3
<1> QED  BY <1>3, <1>6, <1>7 DEF Chain, Q

\* And it loses sight of no row that matches: one below the cursor is on the page, or
\* below the next cursor, or in the millisecond of the page's last row.
LEMMA PageKeepsSight ==
  ASSUME NEW P, Chain(P), NEW statuses, NEW cursor, Continues(P, cursor),
         NEW p, p = Page(statuses, cursor),
         NEW rows \in SUBSET Matching(statuses), Covers(P, rows)
  PROVE  Covers(Append(P, p), rows)
<1> DEFINE Q == Append(P, p)
           len == Len(P)
<1>1. p \in Listed /\ P \in Seq(Listed)
  BY PageOfRows DEF Chain
<1>2. /\ Q \in Seq(Listed) /\ DOMAIN Q = 1 .. len + 1 /\ DOMAIN P = 1 .. len /\ len \in Nat
      /\ Q[len + 1] = p /\ \A n \in 1 .. len : Q[n] = P[n]
      /\ Len(Q) = len + 1
  BY <1>1
<1>3. Chain(Q)
  BY PageContinues
<1> HIDE DEF Q, len
<1>4. NextParam(Q) = p.next
  BY <1>2 DEF NextParam, Last
<1>5. ASSUME NEW i \in rows
      PROVE  InSight(Q, i)
  <2>0. i \in Jobs
    BY DEF Matching
  <2>1. CASE \E n \in DOMAIN P : i \in ToSet(P[n].jobs)
    BY <1>2, <2>1 DEF InSight
  <2>2. CASE \E n \in Boundaries(P) : Millisecond(i) = Millisecond(Last(P[n].jobs))
    <3>1. PICK n \in DOMAIN P : /\ P[n].jobs # <<>> /\ P[n].next # End
                                /\ Millisecond(i) = Millisecond(Last(P[n].jobs))
      BY <2>2 DEF Boundaries
    <3>2. n \in Boundaries(Q) /\ Q[n] = P[n]
      BY <1>2, <3>1 DEF Boundaries
    <3> QED  BY <3>1, <3>2 DEF InSight
  <2>3. CASE i \in Below(Jobs, cursor)
    <3>1. i \in Below(Matching(statuses), cursor)
      BY <2>3 DEF Below
    <3>2. \/ i \in ToSet(p.jobs)
          \/ p.next # End /\ Newer(Last(p.jobs), i)
      BY <3>1, PageOfRows
    <3>3. CASE i \in ToSet(p.jobs)
      BY <1>2, <3>3 DEF InSight
    <3>4. CASE p.next # End /\ Newer(Last(p.jobs), i)
      <4>1. len + 1 \in DOMAIN Q
        BY <1>2
      <4>2. /\ Last(p.jobs) \in Jobs /\ p.next = CursorAt(Last(p.jobs))
            /\ len + 1 \in Boundaries(Q)
        BY <1>2, <1>3, <3>4, <4>1, LastOfChain
      <4>3. CASE Millisecond(Last(p.jobs)) = Millisecond(i)
        BY <1>2, <4>2, <4>3 DEF InSight
      <4>4. CASE Millisecond(Last(p.jobs)) # Millisecond(i)
        <5>1. /\ Created[i] < CursorAt(Last(p.jobs)).t /\ p.next # Start
              /\ CursorAt(Last(p.jobs)).t \in Nat
          BY <2>0, <3>4, <4>2, <4>4, CursorOfRow
        <5>2. i \in Below(Jobs, p.next)
          BY <2>0, <4>2, <5>1, RowFacts DEF Below, After
        <5> QED  BY <1>4, <3>4, <5>2 DEF InSight
      <4> QED  BY <4>3, <4>4
    <3> QED  BY <3>2, <3>3, <3>4
  <2>4. CASE P = <<>>
    <3>1. Below(Jobs, cursor) = Jobs
      BY <2>4 DEF Continues, Below
    <3> QED  BY <2>0, <2>3, <3>1
  <2>5. CASE P # <<>>
    <3>1. InSight(P, i) /\ cursor = NextParam(P)
      BY <2>5 DEF Covers, Continues
    <3> QED  BY <2>1, <2>2, <2>3, <3>1 DEF InSight
  <2> QED  BY <2>4, <2>5
<1> QED  BY <1>5 DEF Covers, Q

\* A chain is in order, from its first row to its last.
LEMMA ChainIsInOrder ==
  ASSUME NEW P, Chain(P), NEW m \in DOMAIN P, NEW n \in DOMAIN P,
         NEW a \in DOMAIN P[m].jobs, NEW b \in DOMAIN P[n].jobs,
         m < n \/ (m = n /\ a < b)
  PROVE  Newer(P[m].jobs[a], P[n].jobs[b])
<1>1. CASE m = n /\ a < b
  BY <1>1, LastOfChain DEF WellMade
<1>2. CASE m < n
  <2>1. P[m].next # End /\ P[n].jobs[b] \in Below(Jobs, P[m].next)
    BY <1>2 DEF Chain, Linked, ToSet
  <2> DEFINE last == Last(P[m].jobs)
  <2>2. /\ last \in Jobs /\ P[m].next = CursorAt(last)
        /\ Len(P[m].jobs) \in DOMAIN P[m].jobs /\ DOMAIN P[m].jobs = 1 .. Len(P[m].jobs)
        /\ P[m].jobs[a] \in Jobs /\ P[n].jobs[b] \in Jobs /\ WellMade(P[m])
    BY <2>1, LastOfChain
  <2>3. Newer(last, P[n].jobs[b])
    BY <2>1, <2>2, BelowIsOlder
  <2>4. a = Len(P[m].jobs) \/ a < Len(P[m].jobs)
    BY <2>2
  <2>5. P[m].jobs[a] = last \/ Newer(P[m].jobs[a], last)
    BY <2>2, <2>4 DEF WellMade, Last
  <2> QED  BY <2>2, <2>3, <2>5, NewerIsAnOrder
<1> QED  BY <1>1, <1>2

\* No page yet is a chain too.
LEMMA EmptyChain ==
  /\ Chain(<<>>)
  /\ \A rows : Covers(<<>>, rows)
<1>1. <<>> \in Seq(Listed) /\ DOMAIN <<>> = {}
  OBVIOUS
<1> QED  BY <1>1 DEF Chain, Linked, Covers

\* Fewer rows are in sight where more are.
LEMMA CoversFewer ==
  ASSUME NEW P, NEW rows, Covers(P, rows), NEW some \in SUBSET rows
  PROVE  Covers(P, some)
  BY DEF Covers

-----------------------------------------------------------------------------
(* The inductive invariant.                                                *)

TypeInv ==
  /\ table \in [Jobs -> Statuses]
  /\ cache \in [pages : Seq(Listed), steady : SUBSET Jobs]
  /\ fetch \in [kind : {"none", "all", "next"}, pages : Seq(Listed), want : Nat,
                retried : BOOLEAN, steady : SUBSET Jobs]
  /\ detail \in [id : Jobs \cup {0}, seen : Statuses, asked : Statuses \cup {"no", "yes"}]
  /\ screen \in {"list", "detail"}
  /\ replay \in [id : Jobs \cup {0}, at : {"idle", "sent", "accepted", "refused"}]
  /\ told \in [list : SUBSET Jobs, detail : SUBSET Jobs]
  /\ replay.at # "idle" => replay.id \in Jobs
  /\ screen = "detail" \/ detail.asked # "no" => detail.id \in Jobs

\* The pages on screen.
CacheInv ==
  /\ Chain(cache.pages)
  /\ cache.steady \subseteq Matching(table)
  /\ Covers(cache.pages, cache.steady)

\* The pages that are not shown yet, and the one that will be put below those shown.
FetchInv ==
  /\ fetch.kind = "none" => fetch.pages = <<>>
  /\ fetch.kind = "all" =>
       /\ Chain(fetch.pages)
       /\ fetch.steady \subseteq Matching(table)
       /\ Covers(fetch.pages, fetch.steady)
  /\ fetch.kind = "next" =>
       /\ cache.pages # <<>> /\ NextParam(cache.pages) # End
       /\ fetch.want = 1
       /\ \/ fetch.pages = <<>>
          \/ \E p \in Listed : /\ fetch.pages = <<p>>
                               /\ Chain(Append(cache.pages, p))
                               /\ Covers(Append(cache.pages, p), cache.steady)

\* A job whose replay was acknowledged is not dead, and nothing that is on its way to
\* the screen says it is.
ToldInv ==
  /\ \A i \in told.list \cup told.detail : table[i] # "dead"
  /\ AcknowledgedStaysReplayed

IInv == TypeInv /\ CacheInv /\ FetchInv /\ ToldInv

\* At first there is nothing on screen.
LEMMA InitInvariant == Init => IInv
<1> SUFFICES ASSUME Init PROVE IInv
  OBVIOUS
<1>1. <<>> \in Seq(Listed)
  OBVIOUS
<1>2. TypeInv
  BY <1>1, DashboardAssumption DEF Init, TypeInv, Idle, NoDetail, NoReplay, Statuses
<1>3. CacheInv
  BY EmptyChain DEF Init, CacheInv
<1>4. FetchInv
  BY DEF Init, FetchInv, Idle
<1>5. ToldInv
  BY DEF Init, ToldInv, AcknowledgedStaysReplayed, Idle, NoDetail
<1> QED  BY <1>2, <1>3, <1>4, <1>5 DEF IInv

-----------------------------------------------------------------------------
(* A row changes.                                                          *)

\* A row that is steady still matches, and one that dies is not told to be replayed
\* any more.
LEMMA RowChanges ==
  ASSUME IInv, NEW i \in Jobs, NEW s \in {"live", "dead"}, ChangeRow(i, s),
         detail' = detail, screen' = screen,
         replay' \in [id : Jobs \cup {0}, at : {"idle", "sent", "accepted", "refused"}],
         replay'.at # "idle" => replay'.id \in Jobs
  PROVE  IInv'
<1>1. TypeInv /\ CacheInv /\ FetchInv /\ ToldInv
  BY DEF IInv
<1>2. /\ table' = [table EXCEPT ![i] = s]
      /\ cache' = [cache EXCEPT !.steady = Disturbed(i, s, cache.steady)]
      /\ fetch' = [fetch EXCEPT !.steady = Disturbed(i, s, fetch.steady)]
      /\ told' = IF s = "dead" THEN [list |-> told.list \ {i}, detail |-> told.detail \ {i}]
                 ELSE told
  BY DEF ChangeRow
<1>3. \A rows \in SUBSET Jobs : Disturbed(i, s, rows) \in SUBSET rows
  BY DEF Disturbed
<1>4. ASSUME NEW rows \in SUBSET Jobs, rows \subseteq Matching(table)
      PROVE  Disturbed(i, s, rows) \subseteq Matching(table)'
  <2>1. ASSUME NEW k \in Disturbed(i, s, rows)
        PROVE  k \in Matching(table)'
    <3>1. k \in rows /\ k \in Jobs /\ table[k] \in Filter
      BY <1>3, <1>4 DEF Matching
    <3>2. CASE k = i
      <4>1. s \in Filter
        BY <2>1, <3>2 DEF Disturbed
      <4>2. table'[k] = s
        BY <1>1, <1>2, <3>2 DEF TypeInv
      <4> QED  BY <3>1, <4>1, <4>2 DEF Matching
    <3>3. CASE k # i
      BY <1>1, <1>2, <3>1, <3>3 DEF TypeInv, Matching
    <3> QED  BY <3>2, <3>3
  <2> QED  BY <2>1
<1>5. /\ cache'.pages = cache.pages /\ cache'.steady = Disturbed(i, s, cache.steady)
      /\ fetch'.kind = fetch.kind /\ fetch'.pages = fetch.pages /\ fetch'.want = fetch.want
      /\ fetch'.steady = Disturbed(i, s, fetch.steady)
      /\ cache.steady \in SUBSET Jobs /\ fetch.steady \in SUBSET Jobs
  BY <1>1, <1>2 DEF TypeInv
<1>6. TypeInv'
  <2>1. table' \in [Jobs -> Statuses]
    BY <1>1, <1>2 DEF TypeInv, Statuses
  <2>2. cache' \in [pages : Seq(Listed), steady : SUBSET Jobs]
    BY <1>1, <1>2, <1>3, <1>5 DEF TypeInv
  <2>3. fetch' \in [kind : {"none", "all", "next"}, pages : Seq(Listed), want : Nat,
                    retried : BOOLEAN, steady : SUBSET Jobs]
    BY <1>1, <1>2, <1>3, <1>5 DEF TypeInv
  <2>4. told' \in [list : SUBSET Jobs, detail : SUBSET Jobs]
    BY <1>1, <1>2 DEF TypeInv
  <2> QED  BY <1>1, <2>1, <2>2, <2>3, <2>4 DEF TypeInv
<1>7. CacheInv'
  BY <1>1, <1>3, <1>4, <1>5, CoversFewer DEF CacheInv
<1>8. FetchInv'
  <2>1. CASE fetch.kind = "all"
    BY <1>1, <1>3, <1>4, <1>5, <2>1, CoversFewer DEF FetchInv
  <2>2. CASE fetch.kind = "next"
    <3>1. \A p \in Listed : Covers(Append(cache.pages, p), cache.steady)
                              => Covers(Append(cache.pages, p), cache'.steady)
      BY <1>3, <1>5, CoversFewer
    <3> QED  BY <1>1, <1>5, <2>2, <3>1 DEF FetchInv
  <2>3. CASE fetch.kind = "none"
    BY <1>1, <1>5, <2>3 DEF FetchInv
  <2> QED  BY <1>1, <2>1, <2>2, <2>3 DEF TypeInv
<1>9. ToldInv'
  <2>1. told'.list \subseteq told.list /\ told'.detail \subseteq told.detail
    BY <1>1, <1>2 DEF TypeInv
  <2>2. s = "dead" => i \notin told'.list /\ i \notin told'.detail
    BY <1>2
  <2>3. ASSUME NEW k \in told'.list \cup told'.detail
        PROVE  table'[k] # "dead"
    <3>1. k \in Jobs /\ table[k] # "dead"
      BY <1>1, <2>1 DEF TypeInv, ToldInv
    <3>2. CASE k = i
      BY <1>1, <1>2, <2>2, <3>1, <3>2 DEF TypeInv
    <3>3. CASE k # i
      BY <1>1, <1>2, <3>1, <3>3 DEF TypeInv
    <3> QED  BY <3>2, <3>3
  <2>4. AcknowledgedStaysReplayed'
    BY <1>1, <1>5, <2>1 DEF ToldInv, AcknowledgedStaysReplayed
  <2> QED  BY <2>3, <2>4 DEF ToldInv
<1> QED  BY <1>6, <1>7, <1>8, <1>9 DEF IInv

-----------------------------------------------------------------------------
(* The requests of the list.                                               *)

\* A request starts, or is cancelled for another one or for none.
LEMMA RequestStarts ==
  ASSUME IInv, UNCHANGED <<table, cache, detail, screen, replay, told>>,
         \/ fetch' = Idle
         \/ fetch' = Reload
         \/ /\ HasNextPage
            /\ fetch' = [Idle EXCEPT !.kind = "next", !.want = 1, !.steady = cache.steady]
  PROVE  IInv'
<1>1. TypeInv /\ CacheInv /\ FetchInv /\ ToldInv
  BY DEF IInv
<1>2. <<>> \in Seq(Listed) /\ Len(cache.pages) \in Nat /\ cache.steady \in SUBSET Jobs
  BY <1>1 DEF TypeInv
<1>3. /\ fetch' \in [kind : {"none", "all", "next"}, pages : Seq(Listed), want : Nat,
                     retried : BOOLEAN, steady : SUBSET Jobs]
      /\ fetch'.pages = <<>>
      /\ fetch'.kind = "all" => fetch'.steady = {}
      /\ fetch'.kind = "next" => HasNextPage /\ fetch'.want = 1
  <2>1. CASE fetch' = Idle
    BY <1>2, <2>1 DEF Idle
  <2>2. CASE fetch' = Reload
    BY <1>2, <2>2 DEF Idle, Reload
  <2>3. CASE /\ HasNextPage
             /\ fetch' = [Idle EXCEPT !.kind = "next", !.want = 1, !.steady = cache.steady]
    BY <1>2, <2>3 DEF Idle
  <2> QED  BY <2>1, <2>2, <2>3
<1>4. TypeInv'
  BY <1>1, <1>3 DEF TypeInv
<1>5. CacheInv'
  BY <1>1 DEF CacheInv, Matching
<1>6. FetchInv'
  BY <1>3, EmptyChain DEF FetchInv, HasNextPage, Loaded
<1>7. ToldInv'
  BY <1>1, <1>3 DEF ToldInv, AcknowledgedStaysReplayed
<1> QED  BY <1>4, <1>5, <1>6, <1>7 DEF IInv

\* A page arrives: it continues the pages of this request, or those on screen.
LEMMA PageArrives ==
  ASSUME IInv, ReadPage
  PROVE  IInv'
<1> DEFINE p == Page(table, PageParam)
           steady == IF fetch.kind = "all" /\ fetch.pages = <<>> THEN Matching(table)
                     ELSE fetch.steady
<1>1. TypeInv /\ CacheInv /\ FetchInv /\ ToldInv
  BY DEF IInv
<1>2. fetch' = [fetch EXCEPT !.pages = Append(fetch.pages, p), !.steady = steady]
  BY DEF ReadPage
<1>3. UNCHANGED <<table, cache, detail, screen, replay, told>> /\ fetch.kind # "none" /\ ~Complete
  BY DEF ReadPage
<1>4. p \in Listed /\ ToSet(p.jobs) \subseteq Matching(table)
  <2>1. p \in Listed /\ ToSet(p.jobs) \subseteq Below(Matching(table), PageParam)
    BY PageOfRows
  <2> QED  BY <2>1 DEF Below
<1>5. steady \in SUBSET Jobs
  BY <1>1 DEF TypeInv, Matching
<1> HIDE DEF p, steady
<1>6. /\ fetch'.kind = fetch.kind /\ fetch'.want = fetch.want /\ fetch'.steady = steady
      /\ fetch'.pages = Append(fetch.pages, p) /\ fetch.pages \in Seq(Listed)
  BY <1>1, <1>2 DEF TypeInv
<1>7. Append(fetch.pages, p) \in Seq(Listed)
  BY <1>4, <1>6
<1>8. TypeInv'
  BY <1>1, <1>2, <1>3, <1>5, <1>7 DEF TypeInv
<1>9. CacheInv'
  BY <1>1, <1>3 DEF CacheInv, Matching
<1>10. FetchInv'
  <2>1. CASE fetch.kind = "all"
    <3>1. Chain(fetch.pages) /\ Continues(fetch.pages, PageParam)
      BY <1>1, <1>3, <2>1 DEF FetchInv, Continues, PageParam, Complete
    <3>2. Chain(Append(fetch.pages, p))
      BY <3>1, PageContinues DEF p
    <3>3. steady \in SUBSET Matching(table) /\ Covers(fetch.pages, steady)
      BY <1>1, <2>1, EmptyChain DEF steady, FetchInv
    <3>4. Covers(Append(fetch.pages, p), steady)
      BY <3>1, <3>3, PageKeepsSight DEF p
    <3>5. steady \subseteq Matching(table)'
      BY <1>3, <3>3 DEF Matching
    <3> QED  BY <1>6, <2>1, <3>2, <3>4, <3>5 DEF FetchInv
  <2>2. CASE fetch.kind = "next"
    <3>1. /\ cache.pages # <<>> /\ NextParam(cache.pages) # End /\ fetch.want = 1
          /\ Chain(cache.pages)
          /\ cache.steady \in SUBSET Matching(table) /\ Covers(cache.pages, cache.steady)
      BY <1>1, <2>2 DEF FetchInv, CacheInv
    <3>2. fetch.pages = <<>>
      BY <1>1, <1>3, <2>2, <3>1 DEF FetchInv, Complete
    <3>3. Continues(cache.pages, PageParam)
      BY <2>2, <3>1 DEF Continues, PageParam
    <3>4. Chain(Append(cache.pages, p)) /\ Covers(Append(cache.pages, p), cache.steady)
      BY <3>1, <3>3, PageContinues, PageKeepsSight DEF p
    <3>5. fetch'.pages = <<p>>
      BY <1>6, <3>2
    <3> QED  BY <1>3, <1>4, <1>6, <2>2, <3>1, <3>4, <3>5 DEF FetchInv
  <2> QED  BY <1>1, <1>3, <2>1, <2>2 DEF TypeInv
<1>11. ToldInv'
  <2>1. ASSUME Filter = {"dead"}, NEW n \in DOMAIN fetch'.pages
        PROVE  ToSet(fetch'.pages[n].jobs) \cap told.list = {}
    <3>1. \/ n \in DOMAIN fetch.pages /\ fetch'.pages[n] = fetch.pages[n]
          \/ fetch'.pages[n] = p
      BY <1>4, <1>6
    <3>2. ToSet(p.jobs) \cap told.list = {}
      BY <1>1, <1>4, <2>1 DEF Matching, ToldInv
    <3> QED  BY <1>1, <2>1, <3>1, <3>2 DEF ToldInv, AcknowledgedStaysReplayed
  <2>2. AcknowledgedStaysReplayed'
    BY <1>1, <1>3, <2>1 DEF ToldInv, AcknowledgedStaysReplayed
  <2> QED  BY <1>1, <1>3, <2>2 DEF ToldInv
<1> QED  BY <1>8, <1>9, <1>10, <1>11 DEF IInv

\* The pages are shown.
LEMMA PagesAreShown ==
  ASSUME IInv, ShowPages
  PROVE  IInv'
<1>1. TypeInv /\ CacheInv /\ FetchInv /\ ToldInv
  BY DEF IInv
<1>2. /\ UNCHANGED <<table, detail, screen, replay, told>>
      /\ fetch' = Idle /\ fetch.kind \in {"all", "next"} /\ fetch.pages # <<>>
  BY <1>1 DEF ShowPages, Complete, TypeInv
<1>3. /\ cache'.pages \in Seq(Listed) /\ cache'.steady \in SUBSET Jobs
      /\ cache' \in [pages : Seq(Listed), steady : SUBSET Jobs]
      /\ CacheInv'
  <2>1. CASE fetch.kind = "all"
    <3>1. cache' = [pages |-> fetch.pages, steady |-> fetch.steady]
      BY <2>1 DEF ShowPages
    <3> QED  BY <1>1, <1>2, <2>1, <3>1 DEF TypeInv, FetchInv, CacheInv, Matching
  <2>2. CASE fetch.kind = "next"
    <3>1. PICK p \in Listed : /\ fetch.pages = <<p>>
                              /\ Chain(Append(cache.pages, p))
                              /\ Covers(Append(cache.pages, p), cache.steady)
      BY <1>1, <1>2, <2>2 DEF FetchInv
    <3>2. cache.pages \o <<p>> = Append(cache.pages, p)
      BY <1>1 DEF TypeInv
    <3>3. cache' = [pages |-> Append(cache.pages, p), steady |-> cache.steady]
      BY <2>2, <3>1, <3>2 DEF ShowPages
    <3> QED  BY <1>1, <1>2, <3>1, <3>3 DEF TypeInv, CacheInv, Chain, Matching
  <2> QED  BY <1>2, <2>1, <2>2
<1>4. TypeInv'
  BY <1>1, <1>2, <1>3 DEF TypeInv, Idle
<1>5. FetchInv'
  BY <1>2 DEF FetchInv, Idle
<1>6. ToldInv'
  BY <1>1, <1>2 DEF ToldInv, AcknowledgedStaysReplayed, Idle
<1> QED  BY <1>3, <1>4, <1>5, <1>6 DEF IInv

\* A request fails once: nothing changes but that it has.
LEMMA RequestRetried ==
  ASSUME IInv, UNCHANGED <<table, cache, detail, screen, replay, told>>,
         fetch' = [fetch EXCEPT !.retried = TRUE]
  PROVE  IInv'
<1>1. TypeInv /\ CacheInv /\ FetchInv /\ ToldInv
  BY DEF IInv
<1>2. /\ fetch'.kind = fetch.kind /\ fetch'.pages = fetch.pages /\ fetch'.want = fetch.want
      /\ fetch'.steady = fetch.steady
  BY <1>1 DEF TypeInv
<1>3. TypeInv'
  BY <1>1 DEF TypeInv
<1> QED  BY <1>1, <1>2, <1>3 DEF IInv, CacheInv, FetchInv, ToldInv, AcknowledgedStaysReplayed,
         Matching

-----------------------------------------------------------------------------
(* The page of a job, and the replay.                                      *)

\* What leaves the list and the table alone only has to keep the page of the job right.
LEMMA ListUntouched ==
  ASSUME IInv, UNCHANGED <<table, cache, fetch, told>>, TypeInv',
         detail'.asked = "dead" /\ detail'.id \in told.detail => detail'.seen = "none"
  PROVE  IInv'
  BY DEF IInv, CacheInv, FetchInv, ToldInv, AcknowledgedStaysReplayed, Matching

\* Opening it, leaving it and its polling: an answer says "dead" only of a job that is.
LEMMA DetailKeeps ==
  ASSUME IInv,
         \/ \E i \in Jobs : OpenDetail(i)
         \/ BackToList \/ AskDetail \/ ReadDetail \/ ShowDetail
  PROVE  IInv'
<1>1. TypeInv /\ ToldInv
  BY DEF IInv
<1>2. ASSUME NEW i \in Jobs, OpenDetail(i)
      PROVE  IInv'
  <2>1. TypeInv'
    BY <1>1, <1>2 DEF OpenDetail, TypeInv, NoDetail, Statuses
  <2>2. detail'.asked = "dead" /\ detail'.id \in told.detail => detail'.seen = "none"
    BY <1>1, <1>2 DEF OpenDetail, NoDetail, ToldInv, AcknowledgedStaysReplayed
  <2> QED  BY <1>2, <2>1, <2>2, ListUntouched DEF OpenDetail
<1>3. CASE BackToList
  <2>1. TypeInv'
    BY <1>1, <1>3 DEF BackToList, TypeInv
  <2> QED  BY <1>1, <1>3, <2>1, ListUntouched DEF BackToList, ToldInv,
              AcknowledgedStaysReplayed
<1>4. CASE AskDetail
  <2>1. TypeInv' /\ detail'.asked = "yes"
    BY <1>1, <1>4 DEF AskDetail, TypeInv
  <2> QED  BY <1>4, <2>1, ListUntouched DEF AskDetail
<1>5. CASE ReadDetail
  <2>1. TypeInv' /\ detail'.asked = table[detail.id] /\ detail'.id = detail.id
    BY <1>1, <1>5 DEF ReadDetail, TypeInv
  <2>2. table[detail.id] = "dead" => detail.id \notin told.detail
    BY <1>1 DEF ToldInv
  <2> QED  BY <1>5, <2>1, <2>2, ListUntouched DEF ReadDetail
<1>6. CASE ShowDetail
  <2>1. TypeInv' /\ detail'.asked = "no"
    BY <1>1, <1>6 DEF ShowDetail, TypeInv
  <2> QED  BY <1>6, <2>1, ListUntouched DEF ShowDetail
<1> QED  BY <1>2, <1>3, <1>4, <1>5, <1>6

\* The request that replays a job, but for its answer.
LEMMA ReplayKeeps ==
  ASSUME IInv,
         \/ \E i \in Jobs : ClickReplay(i)
         \/ ServeReplay \/ ReplayFails
  PROVE  IInv'
<1>1. TypeInv /\ ToldInv
  BY DEF IInv
<1>2. ASSUME TypeInv', UNCHANGED <<table, cache, fetch, detail, screen, told>>
      PROVE  IInv'
  BY <1>1, <1>2, ListUntouched DEF ToldInv, AcknowledgedStaysReplayed
<1>3. ASSUME NEW i \in Jobs, ClickReplay(i)
      PROVE  IInv'
  <2>1. TypeInv'
    BY <1>1, <1>3 DEF ClickReplay, TypeInv
  <2> QED  BY <1>2, <1>3, <2>1 DEF ClickReplay
<1>4. CASE ServeReplay
  <2>1. replay.id \in Jobs /\ replay.at = "sent"
    BY <1>1, <1>4 DEF ServeReplay, TypeInv
  <2>2. CASE table[replay.id] = "dead"
    <3>1. /\ ChangeRow(replay.id, "live") /\ UNCHANGED <<detail, screen>>
          /\ replay' = [replay EXCEPT !.at = "accepted"]
      BY <1>4, <2>2 DEF ServeReplay
    <3>2. /\ replay' \in [id : Jobs \cup {0}, at : {"idle", "sent", "accepted", "refused"}]
          /\ replay'.id \in Jobs
      BY <1>1, <2>1, <3>1 DEF TypeInv
    <3> QED  BY <2>1, <3>1, <3>2, RowChanges
  <2>3. CASE table[replay.id] # "dead"
    <3>1. /\ UNCHANGED <<table, cache, fetch, detail, screen, told>>
          /\ replay' = [replay EXCEPT !.at = "refused"]
      BY <1>4, <2>3 DEF ServeReplay
    <3>2. TypeInv'
      BY <1>1, <2>1, <3>1 DEF TypeInv
    <3> QED  BY <1>2, <3>1, <3>2
  <2> QED  BY <2>2, <2>3
<1>5. CASE ReplayFails
  <2>1. TypeInv'
    BY <1>1, <1>5 DEF ReplayFails, TypeInv, NoReplay
  <2> QED  BY <1>2, <1>5, <2>1 DEF ReplayFails
<1> QED  BY <1>3, <1>4, <1>5

\* The answer: what is in flight on the screen is given up for a request made now, so
\* nothing read before can be shown after it, but for the answer that a page with nothing
\* to show goes on waiting for.
LEMMA AnswerKeeps ==
  ASSUME IInv, ReplayAccepted
  PROVE  IInv'
<1>1. TypeInv /\ CacheInv /\ FetchInv /\ ToldInv
  BY DEF IInv
<1>2. /\ replay.id \in Jobs /\ replay' = NoReplay
      /\ UNCHANGED <<table, cache, screen>>
  BY <1>1 DEF ReplayAccepted, TypeInv
<1>3. <<>> \in Seq(Listed) /\ Len(cache.pages) \in Nat
  BY <1>1 DEF TypeInv
<1>4. /\ Reload \in [kind : {"none", "all", "next"}, pages : Seq(Listed), want : Nat,
                     retried : BOOLEAN, steady : SUBSET Jobs]
      /\ Reload.pages = <<>> /\ Reload.kind = "all" /\ Reload.steady = {}
  BY <1>3 DEF Idle, Reload
<1>5. fetch' = IF screen = "list" THEN Reload ELSE fetch
  BY DEF ReplayAccepted, Invalidated
<1>6. detail' = IF screen = "detail" /\ detail.id = replay.id
                THEN [detail EXCEPT !.asked = AskedAnew] ELSE detail
  BY DEF ReplayAccepted
<1>7. \/ told' = told
      \/ /\ table[replay.id] # "dead" /\ screen = "list"
         /\ told' = [told EXCEPT !.list = told.list \cup {replay.id}]
      \/ /\ table[replay.id] # "dead" /\ screen = "detail"
         /\ told' = [told EXCEPT !.detail = told.detail \cup ({replay.id} \cap {detail.id})]
  BY <1>1 DEF ReplayAccepted, TypeInv
<1>8. /\ told' \in [list : SUBSET Jobs, detail : SUBSET Jobs]
      /\ told'.list # told.list => screen = "list"
      /\ told'.detail # told.detail => screen = "detail" /\ detail.id = replay.id
      /\ \A i \in told'.list \cup told'.detail :
           i \in told.list \cup told.detail \/ (i = replay.id /\ table[replay.id] # "dead")
  BY <1>1, <1>2, <1>7 DEF TypeInv
<1>9. TypeInv'
  <2>1. fetch' \in [kind : {"none", "all", "next"}, pages : Seq(Listed), want : Nat,
                    retried : BOOLEAN, steady : SUBSET Jobs]
    BY <1>1, <1>4, <1>5 DEF TypeInv
  <2>2. /\ detail' \in [id : Jobs \cup {0}, seen : Statuses,
                        asked : Statuses \cup {"no", "yes"}]
        /\ screen' = "detail" \/ detail'.asked # "no" => detail'.id \in Jobs
    BY <1>1, <1>2, <1>6 DEF TypeInv, AskedAnew
  <2> QED  BY <1>1, <1>2, <1>8, <2>1, <2>2 DEF TypeInv, NoReplay
<1>10. CacheInv'
  BY <1>1, <1>2 DEF CacheInv, Matching
<1>11. FetchInv'
  <2>1. CASE screen = "list"
    BY <1>4, <1>5, <2>1, EmptyChain DEF FetchInv
  <2>2. CASE screen # "list"
    BY <1>1, <1>2, <1>5, <2>2 DEF FetchInv, Matching
  <2> QED  BY <2>1, <2>2
<1>12. AcknowledgedStaysReplayed'
  <2>1. CASE screen = "list"
    <3>1. fetch'.pages = <<>> /\ detail' = detail /\ told'.detail = told.detail
      BY <1>4, <1>5, <1>6, <1>8, <2>1
    <3> QED  BY <1>1, <3>1 DEF ToldInv, AcknowledgedStaysReplayed
  <2>2. CASE screen # "list"
    <3>1. fetch' = fetch /\ told'.list = told.list
      BY <1>5, <1>8, <2>2
    <3>2. \/ detail' = detail /\ told'.detail = told.detail
          \/ detail'.asked = "yes"
          \/ detail'.seen = "none"
      BY <1>1, <1>6, <1>8 DEF TypeInv, AskedAnew
    <3> QED  BY <1>1, <3>1, <3>2 DEF ToldInv, AcknowledgedStaysReplayed
  <2> QED  BY <2>1, <2>2
<1>13. ToldInv'
  BY <1>1, <1>2, <1>8, <1>12 DEF ToldInv
<1> QED  BY <1>9, <1>10, <1>11, <1>13 DEF IInv

-----------------------------------------------------------------------------
(* All steps together.                                                     *)

\* No step leaves the invariant.
LEMMA NextInvariant == IInv /\ [Next]_vars => IInv'
<1> SUFFICES ASSUME IInv, [Next]_vars PROVE IInv'
  OBVIOUS
<1>1. CASE UNCHANGED vars
  BY <1>1 DEF vars, IInv, TypeInv, CacheInv, FetchInv, ToldInv, AcknowledgedStaysReplayed,
     Matching
<1>2. ASSUME NEW i \in Jobs, NEW s \in {"live", "dead"}, Change(i, s)
      PROVE  IInv'
  <2>1. TypeInv
    BY DEF IInv
  <2> QED  BY <1>2, <2>1, RowChanges DEF Change, TypeInv
<1>3. CASE Refresh
  BY <1>3, RequestStarts DEF Refresh
<1>4. CASE LoadMore
  BY <1>4, RequestStarts DEF LoadMore
<1>5. CASE PageFails
  BY <1>5, RequestStarts, RequestRetried DEF PageFails
<1>6. CASE ReadPage
  BY <1>6, PageArrives
<1>7. CASE ShowPages
  BY <1>7, PagesAreShown
<1>8. CASE \/ \E i \in Jobs : OpenDetail(i)
           \/ BackToList \/ AskDetail \/ ReadDetail \/ ShowDetail
  BY <1>8, DetailKeeps
<1>9. CASE (\E i \in Jobs : ClickReplay(i)) \/ ServeReplay \/ ReplayFails
  BY <1>9, ReplayKeeps
<1>10. CASE ReplayAccepted
  BY <1>10, AnswerKeeps
<1> QED  BY <1>1, <1>2, <1>3, <1>4, <1>5, <1>6, <1>7, <1>8, <1>9, <1>10 DEF Next, Dashboard

\* So it holds always.
LEMMA AlwaysInvariant == Spec => []IInv
<1> QED  BY InitInvariant, NextInvariant, PTL DEF Spec

\* The list is in order and no job is in it twice, whatever was inserted, removed or
\* changed between its pages and whenever it was read again: GET /jobs pages by the
\* pair (created_at, id), not by an offset.
THEOREM TheListIsInOrder == Spec => []InOrder
<1>1. IInv => InOrder
  BY ChainIsInOrder DEF IInv, CacheInv, InOrder
<1> QED  BY AlwaysInvariant, <1>1, PTL

\* A row that matched all through the reading of the pages is in the list, down to the
\* last row shown, unless it shares the millisecond of the last row of a page: what the
\* cursor loses with its microseconds is all that it loses.
THEOREM NoRowIsSkippedOtherwise == Spec => []SkippedOnlyWithinAMillisecond
<1>1. ASSUME IInv, Loaded, NEW i \in Expected \ AtBoundary
      PROVE  i \in Shown
  <2>1. i \in Jobs /\ i \in cache.steady /\ InSight(cache.pages, i) /\ Chain(cache.pages)
    BY <1>1 DEF IInv, TypeInv, CacheInv, Covers, Expected, Loaded
  <2>2. \A n \in Boundaries(cache.pages) :
          Millisecond(i) # Millisecond(Last(cache.pages[n].jobs))
    BY <1>1, <2>1 DEF AtBoundary
  <2>3. ASSUME NextParam(cache.pages) # End, i \in Below(Jobs, NextParam(cache.pages))
        PROVE  FALSE
    <3>1. Len(cache.pages) \in DOMAIN cache.pages
      BY <1>1, <2>1 DEF Loaded, Chain
    <3>2. LastShown \in Jobs /\ NextParam(cache.pages) = CursorAt(LastShown)
      BY <2>1, <2>3, <3>1, LastOfChain DEF NextParam, LastShown, Last
    <3>3. Newer(LastShown, i)
      BY <2>1, <2>3, <3>2, BelowIsOlder
    <3>4. i = LastShown \/ Newer(i, LastShown)
      BY <1>1, <2>3 DEF Expected, HasNextPage
    <3> QED  BY <2>1, <3>2, <3>3, <3>4, NewerIsAnOrder
  <2>4. \E n \in DOMAIN cache.pages : i \in ToSet(cache.pages[n].jobs)
    BY <2>1, <2>2, <2>3 DEF InSight
  <2> QED  BY <2>4 DEF Shown
<1>2. IInv => SkippedOnlyWithinAMillisecond
  BY <1>1 DEF SkippedOnlyWithinAMillisecond
<1> QED  BY AlwaysInvariant, <1>2, PTL

\* A replay that was acknowledged is not taken back by an answer that is older: the
\* invalidation in ReplayButton's onSuccess cancels what the screen has in flight, and
\* waits only for the first answer of a page of a job that has nothing to show yet.
THEOREM AcknowledgedReplaysStay == Spec => []AcknowledgedStaysReplayed
<1>1. IInv => AcknowledgedStaysReplayed
  BY DEF IInv, ToldInv
<1> QED  BY AlwaysInvariant, <1>1, PTL
=============================================================================
