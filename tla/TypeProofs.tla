----------------------------- MODULE TypeProofs ------------------------------
(***************************************************************************)
(* Type correctness of QueueFlow, for every value of its constants.        *)
(*                                                                         *)
(* TypeOK is not inductive: it lets a slot that is past its BLMOVE, or a   *)
(* scheduler past its ZREM or LINDEX, hold no id, and the next LPUSH would *)
(* push "no id".  TypeInv adds that such a process does hold one.          *)
(***************************************************************************)
EXTENDS QueueFlow, TLAPS, SequenceTheorems, WellFoundedInduction

-----------------------------------------------------------------------------
(* Lemmas about the operators of module Stores: the Redis commands map     *)
(* lists of ids to lists of ids.                                           *)

\* Every non-empty set of natural numbers has a least element, which is what
\* Min chooses: the index that LREM key 1 removes (worker/index.ts:391).
LEMMA LeastIndex ==
  ASSUME NEW I \in SUBSET Nat, I # {}
  PROVE  Min(I) \in I /\ \A y \in I : Min(I) =< y
<1>1. \A x, y \in Nat : <<y, x>> \in OpToRel(<, Nat) <=> y < x
  BY DEF OpToRel
<1>2. PICK x \in I : \A y \in I : ~(<<y, x>> \in OpToRel(<, Nat))
  BY NatLessThanWellFounded, WFMin
<1>3. ASSUME NEW y \in I
      PROVE  x =< y
  <2>1. x \in Nat /\ y \in Nat
    OBVIOUS
  <2>2. ~(y < x)
    BY <1>1, <1>2, <2>1
  <2> QED
    BY <2>1, <2>2
<1> QED
  BY <1>3 DEF Min

\* Likewise the greatest index of a bounded set, which is what Max chooses:
\* the index that LREM key -1 removes (reaper.ts:70).
LEMMA GreatestIndex ==
  ASSUME NEW n \in Nat, NEW I \in SUBSET (1..n), I # {}
  PROVE  Max(I) \in I /\ \A y \in I : Max(I) >= y
<1> DEFINE K == {n - i : i \in I}
<1>1. K \in SUBSET Nat /\ K # {}
  <2>1. \A i \in I : n - i \in Nat
    OBVIOUS
  <2>2. PICK i \in I : TRUE
    OBVIOUS
  <2>3. n - i \in K
    OBVIOUS
  <2> QED
    BY <2>1, <2>3
<1>2. \A y \in K : Min(K) =< y
  <2> HIDE DEF K
  <2> QED
    BY <1>1, LeastIndex
<1>3. Min(K) \in K
  <2> HIDE DEF K
  <2> QED
    BY <1>1, LeastIndex
<1>4. PICK i \in I : Min(K) = n - i
  BY <1>3
<1>5. ASSUME NEW y \in I
      PROVE  i >= y
  <2>1. n - i =< n - y
    BY <1>2, <1>4
  <2> QED
    BY <2>1
<1> QED
  BY <1>5 DEF Max

\* Removing an element of a list leaves a list, one shorter.
LEMMA RemoveAtType ==
  ASSUME NEW S, NEW q \in Seq(S), NEW i \in 1..Len(q)
  PROVE  RemoveAt(q, i) \in Seq(S)
<1>1. \A k \in 1..Len(q) : q[k] \in S
  BY ElementOfSeq
<1>2. SubSeq(q, 1, i-1) \in Seq(S)
  <2>1. 1 \in Int /\ i-1 \in Int /\ \A k \in 1..(i-1) : q[k] \in S
    BY <1>1, LenProperties
  <2> QED
    BY <2>1, SubSeqProperties
<1>3. SubSeq(q, i+1, Len(q)) \in Seq(S)
  <2>1. i+1 \in Int /\ Len(q) \in Int /\ \A k \in (i+1)..Len(q) : q[k] \in S
    BY <1>1, LenProperties
  <2> QED
    BY <2>1, SubSeqProperties
<1> QED
  BY <1>2, <1>3, ConcatProperties DEF RemoveAt

\* Both LREMs leave a list of ids.
LEMMA DropFromHeadType ==
  ASSUME NEW S, NEW q \in Seq(S), NEW id
  PROVE  DropFromHead(q, id) \in Seq(S)
<1> DEFINE I == {i \in 1..Len(q) : q[i] = id}
<1>1. CASE \E i \in 1..Len(q) : q[i] = id
  <2>1. Len(q) \in Nat
    BY LenProperties
  <2>2. I \in SUBSET Nat /\ I # {}
    BY <1>1, <2>1
  <2>3. Min(I) \in I
    <3> HIDE DEF I
    <3> QED
      BY <2>2, LeastIndex
  <2>4. DropFromHead(q, id) = RemoveAt(q, Min(I))
    BY <1>1, <2>2 DEF DropFromHead, RemoveFirst, SelectInSeq
  <2> QED
    BY <2>3, <2>4, RemoveAtType
<1>2. CASE ~ \E i \in 1..Len(q) : q[i] = id
  BY <1>2 DEF DropFromHead, RemoveFirst
<1> QED
  BY <1>1, <1>2

\* LREM -1 takes nothing in that was not there.
LEMMA DropFromTailType ==
  ASSUME NEW S, NEW q \in Seq(S), NEW id
  PROVE  DropFromTail(q, id) \in Seq(S)
<1> DEFINE I == {i \in 1..Len(q) : q[i] = id}
<1>1. CASE id \in ToSet(q)
  <2>1. Len(q) \in Nat /\ DOMAIN q = 1..Len(q)
    BY LenProperties
  <2>2. I \in SUBSET (1..Len(q)) /\ I # {}
    BY <1>1, <2>1 DEF ToSet
  <2>3. Max(I) \in I
    <3> HIDE DEF I
    <3> QED
      BY <2>1, <2>2, GreatestIndex
  <2>4. DropFromTail(q, id) = RemoveAt(q, Max(I))
    BY <1>1, <2>2 DEF DropFromTail, SelectLastInSeq
  <2> QED
    BY <2>3, <2>4, RemoveAtType
<1>2. CASE id \notin ToSet(q)
  BY <1>2 DEF DropFromTail
<1> QED
  BY <1>1, <1>2

\* What BLMOVE and LMOVE take from a list: its last id, leaving the others.
LEMMA TailOfList ==
  ASSUME NEW S, NEW q \in Seq(S), q # <<>>
  PROVE  Last(q) \in S /\ Front(q) \in Seq(S)
<1>1. Len(q) \in Nat \ {0} /\ \A k \in 1..Len(q) : q[k] \in S
  BY EmptySeq, ElementOfSeq
<1>2. Last(q) \in S
  BY <1>1 DEF Last
<1>3. Front(q) \in Seq(S)
  <2>1. 1 \in Int /\ Len(q)-1 \in Int /\ \A k \in 1..(Len(q)-1) : q[k] \in S
    BY <1>1
  <2> QED
    BY <2>1, SubSeqProperties DEF Front
<1> QED
  BY <1>2, <1>3

\* LPUSH: an id in front of a list.
LEMMA PushType ==
  ASSUME NEW S, NEW q \in Seq(S), NEW id \in S
  PROVE  <<id>> \o q \in Seq(S)
<1>1. <<id>> \in Seq(S)
  OBVIOUS
<1> QED
  BY <1>1, ConcatProperties

-----------------------------------------------------------------------------
(* Lists without repetition.  On such a list the Redis commands are the    *)
(* operations on sets that the code means them to be.                      *)

\* The ids of a list of ids, and the list that holds none.
LEMMA ListedIds ==
  ASSUME NEW S, NEW q \in Seq(S)
  PROVE  /\ ToSet(q) \subseteq S
         /\ ToSet(q) = {q[i] : i \in 1..Len(q)}
         /\ q = <<>> <=> ToSet(q) = {}
         /\ IsInjective(q) <=> \A i, k \in 1..Len(q) : q[i] = q[k] => i = k
<1>1. DOMAIN q = 1..Len(q) /\ Len(q) \in Nat /\ \A i \in 1..Len(q) : q[i] \in S
  BY LenProperties, ElementOfSeq
<1>2. ToSet(q) = {q[i] : i \in 1..Len(q)}
  BY <1>1 DEF ToSet
<1>3. q = <<>> <=> ToSet(q) = {}
  <2>1. q = <<>> <=> Len(q) = 0
    BY EmptySeq
  <2>2. Len(q) # 0 => 1 \in 1..Len(q)
    BY <1>1
  <2>3. Len(q) = 0 => 1..Len(q) = {}
    BY <1>1
  <2> QED
    BY <1>2, <2>1, <2>2, <2>3
<1>4. IsInjective(q) <=> \A i, k \in 1..Len(q) : q[i] = q[k] => i = k
  BY <1>1 DEF IsInjective
<1> QED
  BY <1>1, <1>2, <1>3, <1>4

\* LPUSH of an id that is not in the list.
LEMMA PushNew ==
  ASSUME NEW S, NEW q \in Seq(S), NEW id \in S
  PROVE  /\ ToSet(<<id>> \o q) = ToSet(q) \cup {id}
         /\ IsInjective(q) /\ id \notin ToSet(q) => IsInjective(<<id>> \o q)
<1> DEFINE p == <<id>> \o q
<1>1. /\ p \in Seq(S) /\ Len(p) = 1 + Len(q)
      /\ \A i \in 1..Len(p) : p[i] = IF i = 1 THEN id ELSE q[i-1]
  <2>1. <<id>> \in Seq(S) /\ Len(<<id>>) = 1 /\ <<id>>[1] = id
    OBVIOUS
  <2> QED
    BY <2>1, ConcatProperties
<1>2. Len(q) \in Nat /\ \A i \in 1..Len(q) : i + 1 \in 1..Len(p) /\ p[i+1] = q[i]
  BY <1>1, LenProperties
<1>3. 1 \in 1..Len(p) /\ p[1] = id
  BY <1>1, <1>2
<1>4. \A i \in 1..Len(p) : i # 1 => i - 1 \in 1..Len(q) /\ p[i] = q[i-1]
  BY <1>1, <1>2
<1> HIDE DEF p
<1>5. ToSet(p) = ToSet(q) \cup {id}
  <2>1. ToSet(p) \subseteq ToSet(q) \cup {id}
    BY <1>1, <1>3, <1>4, ListedIds
  <2>2. \A i \in 1..Len(q) : q[i] \in ToSet(p)
    BY <1>1, <1>2, ListedIds
  <2>3. ToSet(q) \cup {id} \subseteq ToSet(p)
    BY <1>1, <1>3, <2>2, ListedIds
  <2> QED
    BY <2>1, <2>3
<1>6. ASSUME IsInjective(q), id \notin ToSet(q)
      PROVE  IsInjective(p)
  <2>1. ASSUME NEW i \in 1..Len(p), NEW k \in 1..Len(p), p[i] = p[k]
        PROVE  i = k
    <3>1. i # 1 => p[i] \in ToSet(q)
      BY <1>4, ListedIds
    <3>2. k # 1 => p[k] \in ToSet(q)
      BY <1>4, ListedIds
    <3>3. CASE i # 1 /\ k # 1
      <4>1. i - 1 = k - 1
        BY <1>4, <1>6, <2>1, <3>3, ListedIds
      <4> QED
        BY <4>1
    <3> QED
      BY <1>3, <1>6, <2>1, <3>1, <3>2, <3>3
  <2> QED
    BY <1>1, <2>1, ListedIds
<1> QED
  BY <1>5, <1>6 DEF p

\* RPUSH of an id that is not in the list.
LEMMA AppendNew ==
  ASSUME NEW S, NEW q \in Seq(S), NEW id \in S
  PROVE  /\ ToSet(Append(q, id)) = ToSet(q) \cup {id}
         /\ IsInjective(q) /\ id \notin ToSet(q) => IsInjective(Append(q, id))
<1> DEFINE p == Append(q, id)
<1>1. /\ p \in Seq(S) /\ Len(p) = Len(q) + 1 /\ p[Len(q) + 1] = id
      /\ \A i \in 1..Len(q) : p[i] = q[i]
  BY AppendProperties
<1>2. Len(q) \in Nat
  BY LenProperties
<1> HIDE DEF p
<1>3. \A i \in 1..Len(p) : i \in 1..Len(q) \/ i = Len(q) + 1
  BY <1>1, <1>2
<1>4. Len(q) + 1 \in 1..Len(p) /\ \A i \in 1..Len(q) : i \in 1..Len(p)
  BY <1>1, <1>2
<1>5. ToSet(p) = ToSet(q) \cup {id}
  <2>1. ToSet(p) \subseteq ToSet(q) \cup {id}
    BY <1>1, <1>3, ListedIds
  <2>2. ToSet(q) \cup {id} \subseteq ToSet(p)
    BY <1>1, <1>4, ListedIds
  <2> QED
    BY <2>1, <2>2
<1>6. ASSUME IsInjective(q), id \notin ToSet(q)
      PROVE  IsInjective(p)
  <2>1. \A i \in 1..Len(q) : q[i] # id
    BY <1>6, ListedIds
  <2>2. \A i, k \in 1..Len(p) : p[i] = p[k] => i = k
    BY <1>1, <1>3, <1>6, <2>1, ListedIds
  <2> QED
    BY <1>1, <2>2, ListedIds
<1> QED
  BY <1>5, <1>6 DEF p

\* What is left of a list when one element is removed: those before it where
\* they were, those behind it one place on.
LEMMA RemovedList ==
  ASSUME NEW S, NEW q \in Seq(S), NEW n \in 1..Len(q)
  PROVE  /\ RemoveAt(q, n) \in Seq(S) /\ Len(RemoveAt(q, n)) = Len(q) - 1
         /\ \A i \in 1..Len(RemoveAt(q, n)) :
              RemoveAt(q, n)[i] = IF i < n THEN q[i] ELSE q[i+1]
<1> DEFINE p == RemoveAt(q, n)
           a == SubSeq(q, 1, n-1)
           b == SubSeq(q, n+1, Len(q))
<1>1. Len(q) \in Nat /\ \A i \in 1..Len(q) : q[i] \in S
  BY LenProperties, ElementOfSeq
<1>2. a \in Seq(S) /\ Len(a) = n - 1 /\ \A i \in 1..(n-1) : a[i] = q[i]
  <2>1. 1 \in Int /\ n-1 \in Int /\ \A k \in 1..(n-1) : q[k] \in S
    BY <1>1
  <2> QED
    BY <2>1, SubSeqProperties
<1>3. /\ b \in Seq(S) /\ Len(b) = Len(q) - n
      /\ \A i \in 1..(Len(q)-n) : b[i] = q[n+i]
  <2>1. n+1 \in Int /\ Len(q) \in Int /\ \A k \in (n+1)..Len(q) : q[k] \in S
    BY <1>1
  <2>2. /\ b \in Seq(S)
        /\ Len(b) = IF n+1 =< Len(q) THEN Len(q)-(n+1)+1 ELSE 0
        /\ \A i \in 1..(Len(q)-(n+1)+1) : b[i] = q[n+1+i-1]
    BY <2>1, SubSeqProperties
  <2> QED
    BY <1>1, <2>2
<1>4. /\ p \in Seq(S) /\ Len(p) = Len(q) - 1
      /\ \A i \in 1..Len(p) : p[i] = IF i < n THEN q[i] ELSE q[i+1]
  <2>1. /\ p \in Seq(S) /\ Len(p) = Len(a) + Len(b)
        /\ \A i \in 1..(Len(a)+Len(b)) : p[i] = IF i =< Len(a) THEN a[i] ELSE b[i-Len(a)]
    <3> HIDE DEF a, b
    <3>1. p = a \o b
      BY DEF a, b, RemoveAt
    <3> HIDE DEF p
    <3> QED
      BY <1>2, <1>3, <3>1, ConcatProperties
  <2> HIDE DEF p, a, b
  <2>2. ASSUME NEW i \in 1..Len(p)
        PROVE  p[i] = IF i < n THEN q[i] ELSE q[i+1]
    <3>1. CASE i < n
      BY <1>1, <1>2, <1>3, <2>1, <3>1
    <3>2. CASE ~(i < n)
      <4>1. i - (n-1) \in 1..(Len(q)-n) /\ n + (i - (n-1)) = i + 1
        BY <1>1, <1>2, <1>3, <2>1, <3>2
      <4> QED
        BY <1>1, <1>2, <1>3, <2>1, <3>2, <4>1
    <3> QED
      BY <3>1, <3>2
  <2> QED
    BY <1>1, <1>2, <1>3, <2>1, <2>2
<1> QED
  BY <1>4 DEF p

\* Removing one element of a list without repetition removes its only copy.
LEMMA RemoveFromInjective ==
  ASSUME NEW S, NEW q \in Seq(S), IsInjective(q), NEW n \in 1..Len(q)
  PROVE  /\ IsInjective(RemoveAt(q, n))
         /\ ToSet(RemoveAt(q, n)) = ToSet(q) \ {q[n]}
<1> DEFINE p == RemoveAt(q, n)
<1>1. Len(q) \in Nat
  BY LenProperties
<1>2. /\ p \in Seq(S) /\ Len(p) = Len(q) - 1
      /\ \A i \in 1..Len(p) : p[i] = IF i < n THEN q[i] ELSE q[i+1]
  BY RemovedList
<1> HIDE DEF p
<1>3. \A i, k \in 1..Len(q) : q[i] = q[k] => i = k
  BY ListedIds
<1>4. IsInjective(p)
  <2>1. ASSUME NEW i \in 1..Len(p), NEW k \in 1..Len(p), p[i] = p[k]
        PROVE  i = k
    <3>1. /\ i \in 1..Len(q) /\ i+1 \in 1..Len(q)
          /\ k \in 1..Len(q) /\ k+1 \in 1..Len(q)
      BY <1>1, <1>2
    <3> QED
      BY <1>2, <1>3, <2>1, <3>1
  <2> QED
    BY <1>2, <2>1, ListedIds
<1>5. ToSet(p) \subseteq ToSet(q) \ {q[n]}
  <2>1. ASSUME NEW i \in 1..Len(p)
        PROVE  p[i] \in ToSet(q) \ {q[n]}
    <3>1. i \in 1..Len(q) /\ i+1 \in 1..Len(q)
      BY <1>1, <1>2
    <3>2. PICK k \in 1..Len(q) : k # n /\ p[i] = q[k]
      BY <1>2, <3>1
    <3> QED
      BY <1>3, <3>2, ListedIds
  <2> QED
    BY <1>2, <2>1, ListedIds
<1>6. ToSet(q) \ {q[n]} \subseteq ToSet(p)
  <2>1. ASSUME NEW k \in 1..Len(q), k # n
        PROVE  q[k] \in ToSet(p)
    <3>1. CASE k < n
      <4>1. k \in 1..Len(p) /\ p[k] = q[k]
        BY <1>1, <1>2, <3>1
      <4> QED
        BY <1>2, <4>1, ListedIds
    <3>2. CASE k > n
      <4>1. k-1 \in 1..Len(p) /\ ~(k-1 < n) /\ (k-1)+1 = k
        BY <1>1, <1>2, <3>2
      <4>2. p[k-1] = q[k]
        BY <1>2, <4>1
      <4> QED
        BY <1>2, <4>1, <4>2, ListedIds
    <3> QED
      BY <2>1, <3>1, <3>2
  <2> QED
    BY <2>1, ListedIds
<1> QED
  BY <1>4, <1>5, <1>6 DEF p

\* LREM, from whichever end: the id is gone and nothing else.
LEMMA DropFromInjective ==
  ASSUME NEW S, NEW q \in Seq(S), IsInjective(q), NEW id
  PROVE  /\ IsInjective(DropFromHead(q, id)) /\ ToSet(DropFromHead(q, id)) = ToSet(q) \ {id}
         /\ IsInjective(DropFromTail(q, id)) /\ ToSet(DropFromTail(q, id)) = ToSet(q) \ {id}
<1> DEFINE I == {i \in 1..Len(q) : q[i] = id}
<1>1. CASE id \in ToSet(q)
  <2>1. Len(q) \in Nat /\ DOMAIN q = 1..Len(q)
    BY LenProperties
  <2>2. I \in SUBSET Nat /\ I \in SUBSET (1..Len(q)) /\ I # {}
    BY <1>1, <2>1 DEF ToSet
  <2>3. Min(I) \in I /\ Max(I) \in I
    <3> HIDE DEF I
    <3> QED
      BY <2>1, <2>2, LeastIndex, GreatestIndex
  <2>4. DropFromHead(q, id) = RemoveAt(q, Min(I))
    BY <2>1, <2>2 DEF DropFromHead, RemoveFirst, SelectInSeq
  <2>5. DropFromTail(q, id) = RemoveAt(q, Max(I))
    BY <1>1, <2>2 DEF DropFromTail, SelectLastInSeq
  <2> QED
    BY <2>3, <2>4, <2>5, RemoveFromInjective
<1>2. CASE id \notin ToSet(q)
  <2>1. DropFromHead(q, id) = q
    BY <1>2, ListedIds DEF DropFromHead, RemoveFirst
  <2>2. DropFromTail(q, id) = q
    BY <1>2 DEF DropFromTail
  <2> QED
    BY <1>2, <2>1, <2>2
<1> QED
  BY <1>1, <1>2

\* What BLMOVE and LMOVE take is in the list before and not after.
LEMMA TailOfInjective ==
  ASSUME NEW S, NEW q \in Seq(S), q # <<>>, IsInjective(q)
  PROVE  /\ Last(q) \in ToSet(q)
         /\ IsInjective(Front(q)) /\ ToSet(Front(q)) = ToSet(q) \ {Last(q)}
<1>1. Len(q) \in 1..Len(q)
  BY EmptySeq, LenProperties
<1>2. Front(q) = RemoveAt(q, Len(q))
  <2>1. /\ SubSeq(q, 1, Len(q)-1) \in Seq(S)
        /\ SubSeq(q, Len(q)+1, Len(q)) = <<>>
    <3>1. \A k \in 1..Len(q) : q[k] \in S
      BY ElementOfSeq
    <3>2. SubSeq(q, 1, Len(q)-1) \in Seq(S)
      <4>1. 1 \in Int /\ Len(q)-1 \in Int /\ \A k \in 1..(Len(q)-1) : q[k] \in S
        BY <1>1, <3>1
      <4> QED
        BY <4>1, SubSeqProperties
    <3>3. /\ SubSeq(q, Len(q)+1, Len(q)) \in Seq(S)
          /\ Len(SubSeq(q, Len(q)+1, Len(q))) = 0
      <4>1. Len(q)+1 \in Int /\ Len(q) \in Int /\ \A k \in (Len(q)+1)..Len(q) : q[k] \in S
        BY <1>1
      <4>2. ~(Len(q)+1 =< Len(q))
        BY <1>1
      <4> QED
        BY <4>1, <4>2, SubSeqProperties
    <3> QED
      BY <3>2, <3>3, EmptySeq
  <2> QED
    BY <2>1, ConcatEmptySeq DEF Front, RemoveAt
<1> QED
  BY <1>1, <1>2, RemoveFromInjective, ListedIds DEF Last

-----------------------------------------------------------------------------
(* The inductive invariant.                                                *)

SlotAssigned(s) == exec[s].pc # "idle" => Job(s) \in Jobs

PassAssigned(d) ==
  /\ sched[d].pc \in {"update", "push", "inspect", "bury", "drop", "rescue", "move"}
       => sched[d].job \in Jobs
  /\ sched[d].pc \in {"peek", "inspect", "bury", "drop", "rescue", "move"}
       => sched[d].wid \in WorkerIds

Assigned == /\ \A s \in Slots : SlotAssigned(s)
            /\ \A d \in Schedulers : PassAssigned(d)

TypeInv == TypeOK /\ Assigned

-----------------------------------------------------------------------------
(* What the definitions the actions are built from preserve.               *)

\* Every SQL statement turns a row into a row.
LEMMA RowsKept ==
  /\ NoRow \in Rows /\ InsertedRow \in Rows
  /\ \A r \in Rows :
       /\ ClaimedRow(r) \in Rows /\ SucceededRow(r) \in Rows /\ BuriedRow(r) \in Rows
       /\ ParkedRow(r) \in Rows /\ PromotedRow(r) \in Rows /\ RescuedRow(r) \in Rows
       /\ ReplayedRow(r) \in Rows /\ [r EXCEPT !.old = TRUE] \in Rows
<1> USE DEF Rows, Statuses
<1>1. NoRow \in Rows /\ InsertedRow \in Rows
  BY DEF NoRow, InsertedRow
<1>2. ASSUME NEW r \in Rows
      PROVE  /\ SucceededRow(r) \in Rows
             /\ BuriedRow(r) \in Rows /\ ParkedRow(r) \in Rows
  BY DEF SucceededRow, BuriedRow, ParkedRow
<1>4. ASSUME NEW r \in Rows
      PROVE  ClaimedRow(r) \in Rows
  <2>1. r.attempts + 1 \in Nat /\ r.lease + 1 \in Nat
    OBVIOUS
  <2> QED
    BY <2>1 DEF ClaimedRow
<1>3. ASSUME NEW r \in Rows
      PROVE  /\ PromotedRow(r) \in Rows /\ RescuedRow(r) \in Rows
             /\ ReplayedRow(r) \in Rows /\ [r EXCEPT !.old = TRUE] \in Rows
  BY DEF PromotedRow, RescuedRow, ReplayedRow
<1> QED
  BY <1>1, <1>2, <1>3, <1>4

\* Spending a disturbance leaves a budget.
LEMMA SpendType ==
  ASSUME NEW k \in Disturbances, budget \in [Disturbances -> Nat], Spend(k)
  PROVE  budget' \in [Disturbances -> Nat]
BY DEF Spend

-----------------------------------------------------------------------------
(* One lemma per process, one step per action.                             *)

\* A fresh installation is typed.
LEMMA TypeInit == Init => TypeInv
<1> SUFFICES ASSUME Init PROVE TypeInv
  OBVIOUS
<1>1. StoresTypeOK
  BY BudgetAssumption, RowsKept, EmptySeq
  DEF Init, StoresInit, StoresTypeOK
<1>2. ApiTypeOK
  BY DEF Init, ApiInit, ApiTypeOK
<1>3. WorkerTypeOK /\ \A s \in Slots : SlotAssigned(s)
  BY DEF Init, WorkerInit, WorkerTypeOK, ProcStates, Execs, ExecStates, IdleExec, SlotAssigned
<1>4. SchedTypeOK /\ \A d \in Schedulers : PassAssigned(d)
  BY DEF Init, SchedInit, SchedTypeOK, Passes, SchedStates, IdlePass, PassAssigned
<1> QED
  BY <1>1, <1>2, <1>3, <1>4 DEF TypeInv, TypeOK, Assigned

\* Every step of the API (api/index.ts) keeps the types.
LEMMA ApiTypeStep ==
  ASSUME TypeInv, ApiStep
  PROVE  TypeInv'
<1> USE DEF TypeInv, TypeOK, StoresTypeOK, ApiTypeOK, postgres, redis, stores, workerVars
<1>0. WorkerTypeOK' /\ SchedTypeOK' /\ Assigned'
  BY DEF ApiStep, WorkerTypeOK, SchedTypeOK, Assigned, SlotAssigned, PassAssigned, Job
<1>1. ASSUME NEW r \in Requests, NEW j \in Jobs, Submit(r, j)
      PROVE  StoresTypeOK' /\ ApiTypeOK'
  BY <1>1, RowsKept DEF Submit
<1>2. ASSUME NEW r \in Requests, NEW j \in Jobs, Replay(r, j)
      PROVE  StoresTypeOK' /\ ApiTypeOK'
  BY <1>2, RowsKept, SpendType DEF Replay, Disturbances
<1>3. ASSUME NEW r \in Requests, Enqueue(r)
      PROVE  StoresTypeOK' /\ ApiTypeOK'
  BY <1>3, PushType DEF Enqueue
<1>4. ASSUME NEW r \in Requests, RequestDies(r)
      PROVE  StoresTypeOK' /\ ApiTypeOK'
  BY <1>4, SpendType DEF RequestDies, Disturbances
<1>5. ASSUME NEW j \in Jobs, GrowOld(j)
      PROVE  StoresTypeOK' /\ ApiTypeOK'
  BY <1>5, RowsKept, SpendType DEF GrowOld, Disturbances
<1> QED
  BY <1>0, <1>1, <1>2, <1>3, <1>4, <1>5 DEF ApiStep

\* A slot that is assigned an execution, or moved on, keeps its type.
LEMMA SlotUpdate ==
  ASSUME TypeInv, NEW s \in Slots, NEW e \in Execs,
         e.pc # "idle" => e.job \in Jobs,
         exec' = [exec EXCEPT ![s] = e]
  PROVE  exec' \in [Slots -> Execs] /\ \A t \in Slots : SlotAssigned(t)'
BY DEF TypeInv, TypeOK, WorkerTypeOK, Assigned, SlotAssigned, Job

\* So does one that moves on with the job it has.
LEMMA GotoType ==
  ASSUME TypeInv, NEW s \in Slots, NEW to \in ExecStates,
         exec[s].pc # "idle", Goto(s, to)
  PROVE  exec' \in [Slots -> Execs] /\ \A t \in Slots : SlotAssigned(t)'
<1> DEFINE e == [exec[s] EXCEPT !.pc = to]
<1>1. e \in Execs /\ e.job \in Jobs
  BY DEF TypeInv, TypeOK, WorkerTypeOK, Assigned, SlotAssigned, Job, Execs
<1>2. exec' = [exec EXCEPT ![s] = e]
  BY DEF Goto
<1> QED
  <2> HIDE DEF e
  <2> QED
    BY <1>1, <1>2, SlotUpdate

\* So does one that is freed.
LEMMA FreeSlotType ==
  ASSUME TypeInv, NEW s \in Slots, FreeSlot(s)
  PROVE  exec' \in [Slots -> Execs] /\ \A t \in Slots : SlotAssigned(t)'
<1>1. IdleExec \in Execs /\ IdleExec.pc = "idle"
  BY DEF IdleExec, Execs, ExecStates
<1> QED
  BY <1>1, SlotUpdate DEF FreeSlot

\* BLMOVE takes an id from the pending list to a processing list.
LEMMA TakeTailType ==
  ASSUME TypeInv, NEW w \in WorkerIds, TakeTail(w)
  PROVE  /\ pending' \in Seq(Jobs)
         /\ processing' \in [WorkerIds -> Seq(Jobs)]
         /\ Last(pending) \in Jobs
<1> USE DEF TypeInv, TypeOK, StoresTypeOK, TakeTail
<1>1. Last(pending) \in Jobs /\ Front(pending) \in Seq(Jobs)
  BY TailOfList
<1>2. <<Last(pending)>> \o processing[w] \in Seq(Jobs)
  BY <1>1, PushType
<1> QED
  BY <1>1, <1>2

\* LMOVE takes an id back.
LEMMA MoveTailType ==
  ASSUME TypeInv, NEW w \in WorkerIds, MoveTailToTail(w)
  PROVE  /\ pending' \in Seq(Jobs)
         /\ processing' \in [WorkerIds -> Seq(Jobs)]
<1> USE DEF TypeInv, TypeOK, StoresTypeOK, MoveTailToTail
<1>1. CASE processing[w] = <<>>
  BY <1>1
<1>2. CASE processing[w] # <<>>
  <2>1. Last(processing[w]) \in Jobs /\ Front(processing[w]) \in Seq(Jobs)
    BY <1>2, TailOfList
  <2>2. Append(pending, Last(processing[w])) \in Seq(Jobs)
    BY <2>1, AppendProperties
  <2> QED
    BY <1>2, <2>1, <2>2
<1> QED
  BY <1>1, <1>2

\* Every step of processOne() keeps the types (worker/index.ts:54-203).
LEMMA SlotTypeStep ==
  ASSUME TypeInv, NEW s \in Slots, SlotStep(s)
  PROVE  StoresTypeOK' /\ WorkerTypeOK' /\ \A t \in Slots : SlotAssigned(t)'
<1> USE DEF TypeInv, TypeOK, StoresTypeOK, WorkerTypeOK, postgres, redis, stores
<1> DEFINE TypesKept == StoresTypeOK' /\ WorkerTypeOK' /\ \A t \in Slots : SlotAssigned(t)'
<1>a. ProcOf[s] \in Procs /\ HolderOf(s) \in WorkerIds
  BY IdOfAssumption, ProcOfAssumption DEF HolderOf
<1>b. exec[s].pc # "idle" => Job(s) \in Jobs
  BY DEF Assigned, SlotAssigned
<1>c. /\ exec[s] \in Execs
      /\ exec[s].lease \in Nat
  BY DEF Execs
<1>1. CASE Take(s)
  <2>1. /\ pending' \in Seq(Jobs)
        /\ processing' \in [WorkerIds -> Seq(Jobs)]
        /\ Last(pending) \in Jobs
    BY <1>1, <1>a, TakeTailType DEF Take
  <2> DEFINE e == [IdleExec EXCEPT !.pc = "claim", !.job = Last(pending)]
  <2>2. e \in Execs /\ e.job \in Jobs
    BY <2>1 DEF IdleExec, Execs, ExecStates
  <2>3. exec' = [exec EXCEPT ![s] = e]
    BY <1>1 DEF Take
  <2>4. exec' \in [Slots -> Execs] /\ \A t \in Slots : SlotAssigned(t)'
    <3> HIDE DEF e
    <3> QED
      BY <2>2, <2>3, SlotUpdate
  <2> QED
    BY <1>1, <2>1, <2>4 DEF Take
<1>2. CASE Claim(s)
  <2> DEFINE j == Job(s)
  <2>1. j \in Jobs
    BY <1>2, <1>b DEF Claim
  <2>2. CASE Claimable(row[j])
    <3> DEFINE e == [pc |-> "run", job |-> j,
                     lease |-> row'[j].lease, attempts |-> row'[j].attempts]
    <3>1. row' \in [Jobs -> Rows]
      <4>1. row' = [row EXCEPT ![j] = ClaimedRow(row[j])]
        BY <1>2, <2>2 DEF Claim
      <4> QED
        BY <2>1, <4>1, RowsKept
    <3>2. e \in Execs /\ e.job \in Jobs
      <4>1. row'[j].lease \in Nat /\ row'[j].attempts \in Nat
        BY <2>1, <3>1 DEF Rows
      <4> QED
        BY <2>1, <4>1 DEF Execs, ExecStates
    <3>3. exec' = [exec EXCEPT ![s] = e]
      BY <1>2, <2>2 DEF Claim
    <3>4. exec' \in [Slots -> Execs] /\ \A t \in Slots : SlotAssigned(t)'
      <4> HIDE DEF e
      <4> QED
        BY <3>2, <3>3, SlotUpdate
    <3> QED
      BY <1>2, <3>1, <3>4 DEF Claim
  <2>3. CASE ~Claimable(row[j])
    <3>1. exec' \in [Slots -> Execs] /\ \A t \in Slots : SlotAssigned(t)'
      BY <1>2, <2>3, GotoType DEF Claim, ExecStates
    <3> QED
      BY <1>2, <2>3, <3>1 DEF Claim
  <2> QED
    BY <2>2, <2>3
<1>r. ASSUME RecordSuccess(s), exec[s].pc = "run"
      PROVE  row' \in [Jobs -> Rows] /\ effects' \in [Jobs -> Seq(Nat)]
  <2> DEFINE j == Job(s)
  <2>1. j \in Jobs /\ SucceededRow(row[j]) \in Rows
    BY <1>r, <1>b, RowsKept
  <2>2. Append(effects[j], exec[s].lease) \in Seq(Nat)
    BY <2>1, <1>c, AppendProperties
  <2>3. CASE Owns(row[j], exec[s].lease)
    BY <1>r, <2>1, <2>2, <2>3 DEF RecordSuccess
  <2>4. CASE ~Owns(row[j], exec[s].lease)
    BY <1>r, <2>4 DEF RecordSuccess
  <2> QED
    BY <2>3, <2>4
<1>3. CASE Succeed(s)
  <2>1. exec' \in [Slots -> Execs] /\ \A t \in Slots : SlotAssigned(t)'
    BY <1>3, GotoType DEF Succeed, ExecStates
  <2> QED
    BY <1>3, <1>r, <2>1 DEF Succeed
<1>4. CASE LoseCommitAnswer(s)
  <2>1. exec' \in [Slots -> Execs] /\ \A t \in Slots : SlotAssigned(t)'
    BY <1>4, GotoType DEF LoseCommitAnswer, ExecStates
  <2>2. budget' \in [Disturbances -> Nat]
    BY <1>4, SpendType DEF LoseCommitAnswer, Disturbances
  <2> QED
    BY <1>4, <1>r, <2>1, <2>2 DEF LoseCommitAnswer
<1>5. CASE FailToCommit(s)
  <2>1. exec' \in [Slots -> Execs] /\ \A t \in Slots : SlotAssigned(t)'
    BY <1>5, GotoType DEF FailToCommit, ExecStates
  <2>2. budget' \in [Disturbances -> Nat]
    BY <1>5, SpendType DEF FailToCommit, Disturbances
  <2> QED
    BY <1>5, <2>1, <2>2 DEF FailToCommit
<1>6. CASE Bury(s)
  <2>1. exec' \in [Slots -> Execs] /\ \A t \in Slots : SlotAssigned(t)'
    BY <1>6, GotoType DEF Bury, Failing, ExecStates
  <2>2. row' \in [Jobs -> Rows]
    BY <1>6, RowsKept DEF Bury
  <2> QED
    BY <1>6, <2>1, <2>2 DEF Bury
<1>7. CASE Park(s)
  <2>1. exec' \in [Slots -> Execs] /\ \A t \in Slots : SlotAssigned(t)'
    BY <1>7, GotoType DEF Park, Failing, ExecStates
  <2>2. row' \in [Jobs -> Rows]
    <3> DEFINE j == Job(s)
    <3>1. j \in Jobs /\ ParkedRow(row[j]) \in Rows
      BY <1>7, <1>b, RowsKept DEF Park, Failing
    <3>2. row' = row \/ row' = [row EXCEPT ![j] = ParkedRow(row[j])]
      BY <1>7 DEF Park
    <3> QED
      BY <3>1, <3>2
  <2> QED
    BY <1>7, <2>1, <2>2 DEF Park
<1>8. CASE Schedule(s)
  <2>1. exec' \in [Slots -> Execs] /\ \A t \in Slots : SlotAssigned(t)'
    BY <1>8, GotoType DEF Schedule, ExecStates
  <2> QED
    BY <1>8, <1>b, <2>1 DEF Schedule
<1>9. CASE Release(s)
  <2>1. exec' \in [Slots -> Execs] /\ \A t \in Slots : SlotAssigned(t)'
    BY <1>9, FreeSlotType DEF Release
  <2>2. processing' \in [WorkerIds -> Seq(Jobs)]
    BY <1>9, <1>a, DropFromHeadType DEF Release
  <2> QED
    BY <1>9, <2>1, <2>2 DEF Release
<1>10. CASE Abandon(s)
  <2>1. exec' \in [Slots -> Execs] /\ \A t \in Slots : SlotAssigned(t)'
    BY <1>10, FreeSlotType DEF Abandon
  <2>2. budget' \in [Disturbances -> Nat]
    BY <1>10, SpendType DEF Abandon, Disturbances
  <2> QED
    BY <1>10, <2>1, <2>2 DEF Abandon
<1> QED
  BY <1>1, <1>2, <1>3, <1>4, <1>5, <1>6, <1>7, <1>8, <1>9, <1>10 DEF SlotStep

\* A process that dies or exits leaves its slots idle.
LEMMA SlotsFreed ==
  ASSUME TypeInv, NEW p \in Procs,
         exec' = [s \in Slots |-> IF ProcOf[s] = p THEN IdleExec ELSE exec[s]]
  PROVE  exec' \in [Slots -> Execs] /\ \A t \in Slots : SlotAssigned(t)'
<1>1. IdleExec \in Execs /\ IdleExec.pc = "idle"
  BY DEF IdleExec, Execs, ExecStates
<1> QED
  BY <1>1 DEF TypeInv, TypeOK, WorkerTypeOK, Assigned, SlotAssigned, Job

\* Every step of main(), drain() and the heartbeat keeps the types.
LEMMA ProcTypeStep ==
  ASSUME TypeInv, NEW p \in Procs, ProcStep(p)
  PROVE  StoresTypeOK' /\ WorkerTypeOK' /\ \A t \in Slots : SlotAssigned(t)'
<1> USE DEF TypeInv, TypeOK, StoresTypeOK, WorkerTypeOK, ProcStates, Move,
            postgres, redis, stores, workerVars
<1>a. IdOf[p] \in WorkerIds
  BY IdOfAssumption
<1>b. exec' = exec => \A t \in Slots : SlotAssigned(t)'
  BY DEF Assigned, SlotAssigned, Job
<1>1. CASE Start(p)
  <2>1. budget' \in [Disturbances -> Nat]
    BY <1>1, SpendType DEF Start, Disturbances
  <2> QED
    BY <1>1, <1>b, <2>1 DEF Start
<1>2. CASE FindNoHeartbeat(p)
  BY <1>2, <1>b DEF FindNoHeartbeat
<1>3. CASE LeaveListAlone(p)
  BY <1>3, <1>b DEF LeaveListAlone
<1>4. CASE ReadOwnList(p)
  <2>1. ToSet(processing[IdOf[p]]) \subseteq Jobs
    BY <1>a, ElementOfSeq, LenProperties DEF ToSet
  <2> QED
    BY <1>4, <1>b, <2>1 DEF ReadOwnList
<1>5. CASE RequeueOwn(p)
  <2>1. row' \in [Jobs -> Rows]
    BY <1>5, RowsKept DEF RequeueOwn
  <2> QED
    BY <1>5, <1>b, <2>1 DEF RequeueOwn
<1>6. CASE MoveBackOwn(p)
  <2>1. pending' \in Seq(Jobs) /\ processing' \in [WorkerIds -> Seq(Jobs)]
    BY <1>6, <1>a, MoveTailType DEF MoveBackOwn
  <2> QED
    BY <1>6, <1>b, <2>1 DEF MoveBackOwn
<1>7. CASE StartBeating(p)
  BY <1>7, <1>b DEF StartBeating
<1>8. CASE TakeUnanswered(p)
  <2>1. pending' \in Seq(Jobs) /\ processing' \in [WorkerIds -> Seq(Jobs)]
    BY <1>8, <1>a, TakeTailType DEF TakeUnanswered
  <2>2. budget' \in [Disturbances -> Nat]
    BY <1>8, SpendType DEF TakeUnanswered, Disturbances
  <2> QED
    BY <1>8, <1>b, <2>1, <2>2 DEF TakeUnanswered
<1>9. CASE Beat(p)
  BY <1>9, <1>b DEF Beat
<1>10. CASE Stop(p)
  <2>1. budget' \in [Disturbances -> Nat]
    BY <1>10, SpendType DEF Stop, Disturbances
  <2> QED
    BY <1>10, <1>b, <2>1 DEF Stop
<1>11. CASE Drained(p)
  <2>1. exec' \in [Slots -> Execs] /\ \A t \in Slots : SlotAssigned(t)'
    BY <1>11, SlotsFreed DEF Drained
  <2> QED
    BY <1>11, <2>1 DEF Drained
<1>12. CASE Crash(p)
  <2>1. exec' \in [Slots -> Execs] /\ \A t \in Slots : SlotAssigned(t)'
    BY <1>12, SlotsFreed DEF Crash
  <2>2. budget' \in [Disturbances -> Nat]
    BY <1>12, SpendType DEF Crash, Disturbances
  <2> QED
    BY <1>12, <2>1, <2>2 DEF Crash
<1> QED
  BY <1>1, <1>2, <1>3, <1>4, <1>5, <1>6, <1>7, <1>8, <1>9, <1>10, <1>11, <1>12
  DEF ProcStep

\* Hence every step of the workers does.
LEMMA WorkerTypeStep ==
  ASSUME TypeInv, WorkerStep
  PROVE  TypeInv'
<1>1. ApiTypeOK' /\ SchedTypeOK' /\ \A d \in Schedulers : PassAssigned(d)'
  BY DEF WorkerStep, TypeInv, TypeOK, ApiTypeOK, SchedTypeOK, Assigned, PassAssigned
<1>2. ASSUME NEW w \in WorkerIds, Expire(w)
      PROVE  StoresTypeOK' /\ WorkerTypeOK' /\ \A t \in Slots : SlotAssigned(t)'
  <2>1. budget' \in [Disturbances -> Nat]
    BY <1>2, SpendType DEF Expire, Disturbances, TypeInv, TypeOK, StoresTypeOK
  <2>2. StoresTypeOK'
    BY <1>2, <2>1 DEF Expire, TypeInv, TypeOK, StoresTypeOK, postgres
  <2>3. WorkerTypeOK' /\ \A t \in Slots : SlotAssigned(t)'
    BY <1>2 DEF Expire, TypeInv, TypeOK, WorkerTypeOK, workerVars,
                Assigned, SlotAssigned, Job
  <2> QED
    BY <2>2, <2>3
<1>3. StoresTypeOK' /\ WorkerTypeOK' /\ \A t \in Slots : SlotAssigned(t)'
  BY <1>2, SlotTypeStep, ProcTypeStep DEF WorkerStep
<1> QED
  BY <1>1, <1>3 DEF TypeInv, TypeOK, Assigned

\* A scheduler that goes on keeps its type.
LEMMA BecomeType ==
  ASSUME TypeInv, NEW d \in Schedulers, NEW r \in Passes, Become(d, r),
         /\ r.pc \in {"update", "push", "inspect", "bury", "drop", "rescue", "move"}
              => r.job \in Jobs
         /\ r.pc \in {"peek", "inspect", "bury", "drop", "rescue", "move"}
              => r.wid \in WorkerIds
  PROVE  SchedTypeOK' /\ \A e \in Schedulers : PassAssigned(e)'
BY DEF Become, TypeInv, TypeOK, SchedTypeOK, Assigned, PassAssigned

\* So does one that is done.
LEMMA BecomeIdle ==
  ASSUME TypeInv, NEW d \in Schedulers, Become(d, IdlePass)
  PROVE  SchedTypeOK' /\ \A e \in Schedulers : PassAssigned(e)'
<1>1. IdlePass \in Passes /\ IdlePass.pc = "idle"
  BY DEF IdlePass, Passes, SchedStates
<1> QED
  <2> HIDE DEF IdlePass
  <2> QED
    BY <1>1, BecomeType

\* So does one that moves on with the id and the list it has.
LEMMA StepType ==
  ASSUME TypeInv, NEW d \in Schedulers, NEW to \in SchedStates, Step(d, to),
         to \in {"update", "push", "inspect", "bury", "drop", "rescue", "move"}
           => sched[d].job \in Jobs,
         to \in {"peek", "inspect", "bury", "drop", "rescue", "move"}
           => sched[d].wid \in WorkerIds
  PROVE  SchedTypeOK' /\ \A e \in Schedulers : PassAssigned(e)'
<1> DEFINE r == [sched[d] EXCEPT !.pc = to]
<1>1. /\ r \in Passes /\ r.pc = to
      /\ r.job = sched[d].job /\ r.wid = sched[d].wid
  BY DEF TypeInv, TypeOK, SchedTypeOK, Passes
<1>2. Become(d, r)
  BY DEF Step, Become
<1> QED
  <2> HIDE DEF r
  <2> QED
    BY <1>1, <1>2, BecomeType

\* Every step of promoteDue() keeps the types (scheduler/index.ts:35-68).
LEMMA PromoteTypeStep ==
  ASSUME TypeInv, NEW d \in Schedulers,
         (\E j \in Jobs : ClaimDue(d, j)) \/ RequeueDue(d) \/ PushDue(d)
  PROVE  StoresTypeOK' /\ SchedTypeOK' /\ \A e \in Schedulers : PassAssigned(e)'
<1> USE DEF TypeInv, TypeOK, StoresTypeOK, postgres, redis, stores
<1>1. ASSUME NEW j \in Jobs, ClaimDue(d, j)
      PROVE  StoresTypeOK' /\ SchedTypeOK' /\ \A e \in Schedulers : PassAssigned(e)'
  <2> DEFINE r == [IdlePass EXCEPT !.pc = "update", !.job = j]
  <2>1. r \in Passes /\ r.pc = "update" /\ r.job = j
    BY DEF IdlePass, Passes, SchedStates
  <2>2. SchedTypeOK' /\ \A e \in Schedulers : PassAssigned(e)'
    <3>1. Become(d, r)
      BY <1>1 DEF ClaimDue
    <3> HIDE DEF r
    <3> QED
      BY <2>1, <3>1, BecomeType
  <2> QED
    BY <1>1, <2>2 DEF ClaimDue
<1>2. CASE RequeueDue(d)
  <2>1. sched[d].job \in Jobs
    BY <1>2 DEF RequeueDue, At, Assigned, PassAssigned
  <2>2. SchedTypeOK' /\ \A e \in Schedulers : PassAssigned(e)'
    BY <1>2, <2>1, StepType DEF RequeueDue, SchedStates
  <2>3. row' \in [Jobs -> Rows]
    BY <1>2, <2>1, RowsKept DEF RequeueDue
  <2> QED
    BY <1>2, <2>2, <2>3 DEF RequeueDue
<1>3. CASE PushDue(d)
  <2>1. sched[d].job \in Jobs
    BY <1>3 DEF PushDue, At, Assigned, PassAssigned
  <2>2. SchedTypeOK' /\ \A e \in Schedulers : PassAssigned(e)'
    BY <1>3, BecomeIdle DEF PushDue
  <2>3. pending' \in Seq(Jobs)
    BY <1>3, <2>1, PushType DEF PushDue
  <2> QED
    BY <1>3, <2>2, <2>3 DEF PushDue
<1> QED
  BY <1>1, <1>2, <1>3

\* Every step of reapDead() keeps the types (scheduler/reaper.ts:33-119).
LEMMA ReapTypeStep ==
  ASSUME TypeInv, NEW d \in Schedulers,
         \/ BeginPass(d) \/ \E w \in WorkerIds : VisitList(d, w)
         \/ Peek(d) \/ Inspect(d) \/ Drop(d) \/ BuryLost(d) \/ Rescue(d)
         \/ MoveBack(d) \/ EndReap(d)
  PROVE  StoresTypeOK' /\ SchedTypeOK' /\ \A e \in Schedulers : PassAssigned(e)'
<1> USE DEF TypeInv, TypeOK, StoresTypeOK, postgres, redis, stores
<1>a. sched[d] \in Passes
  BY DEF SchedTypeOK
<1>b. At(d, "inspect") \/ At(d, "bury") \/ At(d, "drop") \/ At(d, "rescue") \/ At(d, "move")
      => sched[d].job \in Jobs /\ sched[d].wid \in WorkerIds
  BY DEF At, Assigned, PassAssigned
<1>1. CASE BeginPass(d)
  <2> DEFINE r == [IdlePass EXCEPT !.pc = "lists", !.lists = ProcessingKeys]
  <2>1. r \in Passes /\ r.pc = "lists"
    BY DEF IdlePass, Passes, SchedStates, ProcessingKeys
  <2>2. SchedTypeOK' /\ \A e \in Schedulers : PassAssigned(e)'
    <3>1. Become(d, r)
      BY <1>1 DEF BeginPass
    <3> HIDE DEF r
    <3> QED
      BY <2>1, <3>1, BecomeType
  <2> QED
    BY <1>1, <2>2 DEF BeginPass
<1>2. ASSUME NEW w \in WorkerIds, VisitList(d, w)
      PROVE  StoresTypeOK' /\ SchedTypeOK' /\ \A e \in Schedulers : PassAssigned(e)'
  <2> DEFINE rest == [sched[d] EXCEPT !.lists = @ \ {w}]
             reap == [rest EXCEPT !.pc = "peek", !.wid = w]
  <2>1. /\ rest \in Passes /\ rest.pc = "lists"
        /\ reap \in Passes /\ reap.pc = "peek" /\ reap.wid = w
    BY <1>2, <1>a DEF VisitList, At, Passes, SchedStates
  <2>2. Become(d, rest) \/ Become(d, reap)
    BY <1>2 DEF VisitList
  <2>3. SchedTypeOK' /\ \A e \in Schedulers : PassAssigned(e)'
    <3> HIDE DEF rest, reap
    <3> QED
      BY <2>1, <2>2, BecomeType
  <2> QED
    BY <1>2, <2>3 DEF VisitList
<1>3. CASE Peek(d)
  <2> DEFINE q    == processing[sched[d].wid]
             done == [sched[d] EXCEPT !.pc = "lists", !.wid = NoWorker]
             next == [sched[d] EXCEPT !.pc = "inspect", !.job = Last(q)]
  <2>1. sched[d].wid \in WorkerIds
    BY <1>3 DEF Peek, At, Assigned, PassAssigned
  <2>2. CASE q = <<>>
    <3>1. done \in Passes /\ done.pc = "lists"
      BY <1>a DEF Passes, SchedStates
    <3>2. Become(d, done)
      BY <1>3, <2>2 DEF Peek
    <3>3. SchedTypeOK' /\ \A e \in Schedulers : PassAssigned(e)'
      <4> HIDE DEF done
      <4> QED
        BY <3>1, <3>2, BecomeType
    <3> QED
      BY <1>3, <3>3 DEF Peek
  <2>3. CASE q # <<>>
    <3>1. Last(q) \in Jobs
      BY <2>1, <2>3, TailOfList
    <3>2. /\ next \in Passes /\ next.pc = "inspect"
          /\ next.job \in Jobs /\ next.wid \in WorkerIds
      BY <1>a, <2>1, <3>1 DEF Passes, SchedStates
    <3>3. Become(d, next)
      BY <1>3, <2>3 DEF Peek
    <3>4. SchedTypeOK' /\ \A e \in Schedulers : PassAssigned(e)'
      <4> HIDE DEF next
      <4> QED
        BY <3>2, <3>3, BecomeType
    <3> QED
      BY <1>3, <3>4 DEF Peek
  <2> QED
    BY <2>2, <2>3
<1>4. CASE Inspect(d)
  <2>1. Step(d, "drop") \/ Step(d, "bury") \/ Step(d, "rescue")
    BY <1>4 DEF Inspect
  <2>2. SchedTypeOK' /\ \A e \in Schedulers : PassAssigned(e)'
    BY <1>4, <1>b, <2>1, StepType DEF Inspect, SchedStates
  <2> QED
    BY <1>4, <2>2 DEF Inspect
<1>5. CASE Drop(d)
  <2> DEFINE r == [sched[d] EXCEPT !.pc = "peek", !.job = NoJob]
  <2>1. r \in Passes /\ r.pc = "peek" /\ r.wid \in WorkerIds
    BY <1>5, <1>a, <1>b DEF Drop, Passes, SchedStates
  <2>2. SchedTypeOK' /\ \A e \in Schedulers : PassAssigned(e)'
    <3>1. Become(d, r)
      BY <1>5 DEF Drop
    <3> HIDE DEF r
    <3> QED
      BY <2>1, <3>1, BecomeType
  <2>3. processing' \in [WorkerIds -> Seq(Jobs)]
    BY <1>5, <1>b, DropFromTailType DEF Drop
  <2> QED
    BY <1>5, <2>2, <2>3 DEF Drop
<1>6. CASE BuryLost(d)
  <2>1. SchedTypeOK' /\ \A e \in Schedulers : PassAssigned(e)'
    BY <1>6, <1>b, StepType DEF BuryLost, SchedStates
  <2>2. row' \in [Jobs -> Rows]
    BY <1>6, <1>b, RowsKept DEF BuryLost
  <2> QED
    BY <1>6, <2>1, <2>2 DEF BuryLost
<1>7. CASE Rescue(d)
  <2>1. SchedTypeOK' /\ \A e \in Schedulers : PassAssigned(e)'
    BY <1>7, <1>b, StepType DEF Rescue, SchedStates
  <2>2. row' \in [Jobs -> Rows]
    BY <1>7, <1>b, RowsKept DEF Rescue
  <2> QED
    BY <1>7, <2>1, <2>2 DEF Rescue
<1>8. CASE MoveBack(d)
  <2> DEFINE r == [sched[d] EXCEPT !.pc = "peek", !.job = NoJob]
  <2>1. r \in Passes /\ r.pc = "peek" /\ r.wid \in WorkerIds
    BY <1>8, <1>a, <1>b DEF MoveBack, Passes, SchedStates
  <2>2. SchedTypeOK' /\ \A e \in Schedulers : PassAssigned(e)'
    <3>1. Become(d, r)
      BY <1>8 DEF MoveBack
    <3> HIDE DEF r
    <3> QED
      BY <2>1, <3>1, BecomeType
  <2>3. pending' \in Seq(Jobs) /\ processing' \in [WorkerIds -> Seq(Jobs)]
    BY <1>8, <1>b, MoveTailType DEF MoveBack
  <2> QED
    BY <1>8, <2>2, <2>3 DEF MoveBack
<1>9. CASE EndReap(d)
  <2>1. SchedTypeOK' /\ \A e \in Schedulers : PassAssigned(e)'
    BY <1>9, StepType DEF EndReap, SchedStates
  <2> QED
    BY <1>9, <2>1 DEF EndReap
<1> QED
  BY <1>1, <1>2, <1>3, <1>4, <1>5, <1>6, <1>7, <1>8, <1>9

\* Every step of sweepOrphans() (scheduler/reaper.ts:123-170), and giving a
\* pass up, keep the types.
LEMMA SweepTypeStep ==
  ASSUME TypeInv, NEW d \in Schedulers,
         \/ Query(d) \/ ReadPending(d) \/ ScanLists(d)
         \/ \E w \in WorkerIds : ReadList(d, w)
         \/ \E j \in Jobs : PushOrphan(d, j)
         \/ EndSweep(d) \/ Interrupt(d)
  PROVE  StoresTypeOK' /\ SchedTypeOK' /\ \A e \in Schedulers : PassAssigned(e)'
<1> USE DEF TypeInv, TypeOK, StoresTypeOK, postgres, redis, stores
<1>a. sched[d] \in Passes
  BY DEF SchedTypeOK
<1>1. CASE Query(d)
  <2> DEFINE old == {j \in Jobs : Orphanable(row[j])}
             r   == [sched[d] EXCEPT !.pc = "pending", !.cand = old]
  <2>1. r \in Passes /\ r.pc = "pending"
    BY <1>a DEF Passes, SchedStates
  <2>2. SchedTypeOK' /\ \A e \in Schedulers : PassAssigned(e)'
    <3>1. Become(d, r) \/ Become(d, IdlePass)
      BY <1>1 DEF Query
    <3> HIDE DEF r
    <3> QED
      BY <2>1, <3>1, BecomeType, BecomeIdle
  <2> QED
    BY <1>1, <2>2 DEF Query
<1>2. CASE ReadPending(d)
  <2> DEFINE r == [sched[d] EXCEPT !.pc = "scan", !.held = SeenPending]
  <2>1. SeenPending \subseteq Jobs
    BY ElementOfSeq, LenProperties DEF SeenPending, ToSet
  <2>2. r \in Passes /\ r.pc = "scan"
    BY <1>a, <2>1 DEF Passes, SchedStates
  <2>3. SchedTypeOK' /\ \A e \in Schedulers : PassAssigned(e)'
    <3>1. Become(d, r)
      BY <1>2 DEF ReadPending
    <3> HIDE DEF r
    <3> QED
      BY <2>2, <3>1, BecomeType
  <2> QED
    BY <1>2, <2>3 DEF ReadPending
<1>3. CASE ScanLists(d)
  <2> DEFINE r == [sched[d] EXCEPT !.pc = "hold", !.lists = ProcessingKeys]
  <2>1. r \in Passes /\ r.pc = "hold"
    BY <1>a DEF Passes, SchedStates, ProcessingKeys
  <2>2. SchedTypeOK' /\ \A e \in Schedulers : PassAssigned(e)'
    <3>1. Become(d, r)
      BY <1>3 DEF ScanLists
    <3> HIDE DEF r
    <3> QED
      BY <2>1, <3>1, BecomeType
  <2> QED
    BY <1>3, <2>2 DEF ScanLists
<1>4. ASSUME NEW w \in WorkerIds, ReadList(d, w)
      PROVE  StoresTypeOK' /\ SchedTypeOK' /\ \A e \in Schedulers : PassAssigned(e)'
  <2> DEFINE r == [sched[d] EXCEPT !.lists = @ \ {w},
                                   !.held = @ \cup ToSet(processing[w])]
  <2>1. ToSet(processing[w]) \subseteq Jobs
    BY ElementOfSeq, LenProperties DEF ToSet
  <2>2. r \in Passes /\ r.pc = "hold"
    BY <1>4, <1>a, <2>1 DEF ReadList, At, Passes
  <2>3. SchedTypeOK' /\ \A e \in Schedulers : PassAssigned(e)'
    <3>1. Become(d, r)
      BY <1>4 DEF ReadList
    <3> HIDE DEF r
    <3> QED
      BY <2>2, <3>1, BecomeType
  <2> QED
    BY <1>4, <2>3 DEF ReadList
<1>5. ASSUME NEW j \in Jobs, PushOrphan(d, j)
      PROVE  StoresTypeOK' /\ SchedTypeOK' /\ \A e \in Schedulers : PassAssigned(e)'
  <2> DEFINE r == [sched[d] EXCEPT !.cand = @ \ {j}]
  <2>1. r \in Passes /\ r.pc = "hold"
    BY <1>5, <1>a DEF PushOrphan, At, Passes
  <2>2. SchedTypeOK' /\ \A e \in Schedulers : PassAssigned(e)'
    <3>1. Become(d, r)
      BY <1>5 DEF PushOrphan
    <3> HIDE DEF r
    <3> QED
      BY <2>1, <3>1, BecomeType
  <2>3. pending' \in Seq(Jobs)
    BY <1>5, AppendProperties DEF PushOrphan
  <2> QED
    BY <1>5, <2>2, <2>3 DEF PushOrphan
<1>6. CASE EndSweep(d)
  BY <1>6, BecomeIdle DEF EndSweep
<1>7. CASE Interrupt(d)
  BY <1>7, BecomeIdle, SpendType DEF Interrupt, Disturbances
<1> QED
  BY <1>1, <1>2, <1>3, <1>4, <1>5, <1>6, <1>7

\* Hence every step of the schedulers does.
LEMMA SchedTypeStep ==
  ASSUME TypeInv, SchedStep
  PROVE  TypeInv'
<1>1. ApiTypeOK' /\ WorkerTypeOK' /\ \A s \in Slots : SlotAssigned(s)'
  BY DEF SchedStep, TypeInv, TypeOK, ApiTypeOK, WorkerTypeOK, workerVars,
         Assigned, SlotAssigned, Job
<1>2. StoresTypeOK' /\ SchedTypeOK' /\ \A d \in Schedulers : PassAssigned(d)'
  BY PromoteTypeStep, ReapTypeStep, SweepTypeStep DEF SchedStep, PassStep
<1> QED
  BY <1>1, <1>2 DEF TypeInv, TypeOK, Assigned

\* Stuttering does.
LEMMA TypeStutter ==
  ASSUME TypeInv, UNCHANGED vars
  PROVE  TypeInv'
<1>1. StoresTypeOK' /\ ApiTypeOK'
  BY DEF TypeInv, TypeOK, vars, stores, StoresTypeOK, ApiTypeOK
<1>2. WorkerTypeOK' /\ SchedTypeOK' /\ Assigned'
  BY DEF TypeInv, TypeOK, vars, workerVars, WorkerTypeOK, SchedTypeOK,
         Assigned, SlotAssigned, PassAssigned, Job
<1> QED
  BY <1>1, <1>2 DEF TypeInv, TypeOK

-----------------------------------------------------------------------------
\* TypeInv is inductive, and so holds in every reachable state.
LEMMA TypeInductive == TypeInv /\ [Next]_vars => TypeInv'
BY ApiTypeStep, WorkerTypeStep, SchedTypeStep, TypeStutter DEF Next

\* It is an invariant of the system.
LEMMA TypeInvariant == Spec => []TypeInv
BY TypeInit, TypeInductive, PTL DEF Spec

\* In every instance of QueueFlow, whatever fails, the stores hold rows, lists
\* of recorded ids and heartbeats, and every process is in a state of its code:
\* no process ever pushes, claims or removes "no id".
THEOREM TypeCorrect == Spec => []TypeOK
<1>1. TypeInv => TypeOK
  BY DEF TypeInv
<1> QED
  BY <1>1, TypeInvariant, PTL
=============================================================================
