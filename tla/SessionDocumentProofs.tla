------------------------ MODULE SessionDocumentProofs ------------------------
(* Proofs about the session document: for any documents the service may load,
   any inputs, scenes, units and outputs an edit may bring, and any number of
   edits, the document needs no repair, an id means one thing for good, and
   saving and loading gives back all but what the codec has no word for.

   The argument goes from the lists up: what canonicalizing does to the places
   and the ids of a list, then to a scene (which it makes tidy, and leaves alone
   when it is), then to a document; an edit stages a document of the right types
   with its counters above its ids, and the rest follows from how it is taken.  *)
EXTENDS SessionDocument, FiniteSetTheorems, WellFoundedInduction, TLAPS

\* A set of numbers that is not empty has a least one.
LEMMA LeastNumber ==
    ASSUME NEW T, T \subseteq Nat, T # {}
    PROVE  \E x \in T : \A y \in T : x <= y
<1> DEFINE R == OpToRel(<, Nat)
<1>1. \A x, y \in T : y < x => <<y, x>> \in R
  BY DEF OpToRel
<1>2. IsWellFoundedOn(R, Nat)
  BY NatLessThanWellFounded
<1> HIDE DEF R
<1>3. PICK x \in T : \A y \in T : ~ (<<y, x>> \in R)
  BY <1>2, WFMin
<1>4. \A y \in T : ~(y < x)
  BY <1>1, <1>3
<1>5. QED
  BY <1>4

-----------------------------------------------------------------------------
(* Some places of a list, and how many of them there are up to a place *)

\* How many of the places are not after k.
Count(P, k) == Cardinality({j \in P : j <= k})

\* It goes from 0 to their number, up by one at each place.
LEMMA CountFacts ==
    ASSUME NEW n \in Nat, NEW P \in SUBSET (1..n)
    PROVE  /\ Cardinality(P) \in Nat
           /\ Count(P, 0) = 0 /\ Count(P, n) = Cardinality(P)
           /\ \A k \in 0..n : Count(P, k) \in 0..Cardinality(P)
           /\ \A k \in 1..n : Count(P, k) = IF k \in P THEN Count(P, k - 1) + 1 ELSE Count(P, k - 1)
           /\ \A j, k \in 0..n : j <= k => Count(P, j) <= Count(P, k)
           /\ \A j, k \in 0..n : j < k /\ k \in P => Count(P, j) < Count(P, k)
<1> DEFINE U(k) == {j \in P : j <= k}
<1>1. IsFiniteSet(1..n)
  BY FS_Interval
<1>2. IsFiniteSet(P) /\ Cardinality(P) \in Nat
  BY <1>1, FS_Subset, FS_CardinalityType
<1>3. \A k \in 0..n : IsFiniteSet(U(k)) /\ Cardinality(U(k)) \in Nat /\ Cardinality(U(k)) <= Cardinality(P)
  <2>1. TAKE k \in 0..n
  <2>2. U(k) \in SUBSET P
    OBVIOUS
  <2>3. QED
    BY <1>2, <2>2, FS_Subset, FS_CardinalityType
<1>0. \A j \in P : j \in Int /\ 1 <= j /\ j <= n
  OBVIOUS
<1>4. U(0) = {} /\ U(n) = P
  <2>1. \A j \in P : ~(j <= 0) /\ j <= n
    BY <1>0
  <2>2. QED
    BY <2>1
<1>5. Count(P, 0) = 0 /\ Count(P, n) = Cardinality(P)
  BY <1>4, FS_EmptySet DEF Count
<1>6. \A k \in 1..n : Count(P, k) = IF k \in P THEN Count(P, k - 1) + 1 ELSE Count(P, k - 1)
  <2>1. TAKE k \in 1..n
  <2>2. k - 1 \in 0..n /\ k \notin U(k - 1)
    OBVIOUS
  <2>3. CASE k \in P
    <3>1. U(k) = U(k - 1) \cup {k}
      <4>1. \A j \in P : j <= k <=> j <= k - 1 \/ j = k
        BY <1>0
      <4>2. \A j : j \in U(k) <=> j \in U(k - 1) \cup {k}
        BY <2>3, <4>1
      <4>3. QED
        BY <4>2
    <3>2. Cardinality(U(k)) = Cardinality(U(k - 1)) + 1
      BY <1>3, <2>2, <3>1, FS_AddElement
    <3>3. QED
      BY <2>3, <3>2 DEF Count
  <2>4. CASE k \notin P
    <3>1. U(k) = U(k - 1)
      <4>1. \A j \in P : j <= k <=> j <= k - 1
        BY <1>0, <2>4
      <4>2. QED
        BY <4>1
    <3>2. QED
      BY <2>4, <3>1 DEF Count
  <2>5. QED
    BY <2>3, <2>4
<1>7. \A j, k \in 0..n : j <= k => Count(P, j) <= Count(P, k)
  <2>1. TAKE j, k \in 0..n
  <2>2. HAVE j <= k
  <2>3. U(j) \in SUBSET U(k)
    <3>1. \A i \in P : i <= j => i <= k
      BY <1>0, <2>2
    <3>2. QED
      BY <3>1
  <2>4. QED
    BY <1>3, <2>3, FS_Subset DEF Count
<1>8. \A k \in 0..n : Count(P, k) \in 0..Cardinality(P)
  BY <1>2, <1>3 DEF Count
<1>9. \A j, k \in 0..n : j < k /\ k \in P => Count(P, j) < Count(P, k)
  <2>1. TAKE j, k \in 0..n
  <2>2. HAVE j < k /\ k \in P
  <2>3. k \in 1..n /\ k - 1 \in 0..n /\ j <= k - 1
    BY <2>2
  <2>4. Count(P, j) <= Count(P, k - 1) /\ Count(P, k) = Count(P, k - 1) + 1
    BY <1>6, <1>7, <2>2, <2>3
  <2>5. Count(P, j) \in Nat /\ Count(P, k - 1) \in Nat
    BY <1>2, <1>8, <2>3
  <2>6. QED
    BY <2>4, <2>5
<1>10. QED
  BY <1>2, <1>5, <1>6, <1>7, <1>8, <1>9

\* There is exactly one m-th place.
LEMMA NthPlace ==
    ASSUME NEW n \in Nat, NEW P \in SUBSET (1..n), NEW m \in 1..Cardinality(P)
    PROVE  \E k \in P : Count(P, k) = m /\ \A j \in P : Count(P, j) = m => j = k
<1> DEFINE T == {k \in 0..n : m <= Count(P, k)}
<1>1. Cardinality(P) \in Nat /\ Count(P, 0) = 0 /\ Count(P, n) = Cardinality(P)
  BY CountFacts
<1>2. \A k \in 0..n : Count(P, k) \in Nat
  BY <1>1, CountFacts
<1>3. n \in T /\ T \subseteq Nat /\ 0 \notin T
  BY <1>1
<1> HIDE DEF T
<1>4. PICK x \in T : \A y \in T : x <= y
  BY <1>3, LeastNumber
<1>5. x \in 1..n /\ m <= Count(P, x) /\ x - 1 \in 0..n
  BY <1>3, <1>4 DEF T
<1>6. Count(P, x - 1) < m
  BY <1>1, <1>2, <1>4, <1>5 DEF T
<1>7. Count(P, x) = IF x \in P THEN Count(P, x - 1) + 1 ELSE Count(P, x - 1)
  <2>1. \A k \in 1..n : Count(P, k) = IF k \in P THEN Count(P, k - 1) + 1 ELSE Count(P, k - 1)
    BY CountFacts
  <2>2. QED
    BY <1>5, <2>1
<1>8. x \in P /\ Count(P, x) = m
  BY <1>1, <1>2, <1>5, <1>6, <1>7
<1>9. \A j \in P : j # x => Count(P, j) # m
  <2>1. TAKE j \in P
  <2>2. HAVE j # x
  <2>3. j \in 0..n /\ x \in 0..n /\ (j < x \/ x < j)
    BY <1>5, <2>2
  <2>4. Count(P, j) < Count(P, x) \/ Count(P, x) < Count(P, j)
    BY <1>8, <2>3, CountFacts
  <2>5. QED
    BY <1>2, <1>8, <2>3, <2>4
<1>10. QED
  BY <1>8, <1>9

\* The picked entries are those at the places, in their order.
LEMMA PickedFacts ==
    ASSUME NEW list, NEW n \in Nat, DOMAIN list = 1..n, NEW P \in SUBSET (1..n)
    PROVE  /\ Picked(list, P) = [m \in 1..Cardinality(P) |-> Picked(list, P)[m]]
           /\ Cardinality(P) \in Nat
           /\ \A m \in 1..Cardinality(P) : \E k \in P : Count(P, k) = m /\ Picked(list, P)[m] = list[k]
           /\ \A k \in P : Count(P, k) \in 1..Cardinality(P) /\ Picked(list, P)[Count(P, k)] = list[k]
<1> DEFINE Nth(m) == CHOOSE k \in P : Cardinality({j \in P : j <= k}) = m
<1>1. Picked(list, P) = [m \in 1..Cardinality(P) |-> list[Nth(m)]]
  BY DEF Picked
<1>2. \A m \in 1..Cardinality(P) : Nth(m) \in P /\ Count(P, Nth(m)) = m /\ \A k \in P : Count(P, k) = m => k = Nth(m)
  <2>1. TAKE m \in 1..Cardinality(P)
  <2>2. PICK k \in P : Count(P, k) = m /\ \A j \in P : Count(P, j) = m => j = k
    BY NthPlace
  <2>3. Nth(m) \in P /\ Count(P, Nth(m)) = m
    BY <2>2 DEF Count
  <2>4. QED
    BY <2>2, <2>3
<1>3. \A k \in P : Count(P, k) \in 1..Cardinality(P)
  <2>1. TAKE k \in P
  <2>2. k \in 0..n /\ 0 \in 0..n /\ 0 < k
    OBVIOUS
  <2>3. Count(P, k) \in 0..Cardinality(P) /\ Count(P, 0) < Count(P, k) /\ Count(P, 0) = 0 /\ Cardinality(P) \in Nat
    BY <2>2, CountFacts
  <2>4. QED
    BY <2>3
<1> HIDE DEF Nth
<1>4. \A k \in P : Nth(Count(P, k)) = k
  BY <1>2, <1>3
<1>5. Cardinality(P) \in Nat
  BY CountFacts
<1>6. QED
  BY <1>1, <1>2, <1>3, <1>4, <1>5

\* All the places: the list itself.
LEMMA PickedAll ==
    ASSUME NEW list, NEW n \in Nat, list = [k \in 1..n |-> list[k]]
    PROVE  Picked(list, 1..n) = list
<1>1. \A k \in 1..n : Count(1..n, k) = k
  <2>1. TAKE k \in 1..n
  <2>2. {j \in 1..n : j <= k} = 1..k
    OBVIOUS
  <2>3. Cardinality(1..k) = k
    BY FS_Interval
  <2>4. QED
    BY <2>2, <2>3 DEF Count
<1>2. Cardinality(1..n) = n
  BY FS_Interval
<1> DEFINE P == 1..n
<1>0. P \in SUBSET (1..n) /\ DOMAIN list = 1..n
  OBVIOUS
<1> HIDE DEF P
<1>3. \A k \in P : Picked(list, P)[Count(P, k)] = list[k]
  BY <1>0, PickedFacts
<1>4. Picked(list, P) = [m \in 1..Cardinality(P) |-> Picked(list, P)[m]]
  BY <1>0, PickedFacts
<1>5. QED
  BY <1>1, <1>2, <1>3, <1>4 DEF P

-----------------------------------------------------------------------------
(* The highest id *)

\* Of numbers with a bound MaxId is the highest.
LEMMA MaxIdFacts ==
    ASSUME NEW S \in SUBSET Nat, NEW b \in Nat, \A m \in S : m <= b, NEW otherwise \in Int
    PROVE  /\ MaxId(S, otherwise) \in Int
           /\ \A m \in S : m <= MaxId(S, otherwise)
           /\ S # {} => MaxId(S, otherwise) \in S
           /\ S = {} => MaxId(S, otherwise) = otherwise
<1>1. CASE S = {}
  BY <1>1 DEF MaxId
<1>2. CASE S # {}
  <2> DEFINE T == {c \in Nat : \A m \in S : m <= c}
  <2>1. T \subseteq Nat /\ b \in T
    OBVIOUS
  <2> HIDE DEF T
  <2>2. PICK c \in T : \A x \in T : c <= x
    BY <2>1, LeastNumber
  <2>3. c \in Nat /\ \A m \in S : m <= c
    BY <2>2 DEF T
  <2>4. c \in S
    <3>1. SUFFICES ASSUME c \notin S PROVE FALSE
      OBVIOUS
    <3>2. \A m \in S : m \in Nat /\ m <= c /\ m # c
      BY <2>3, <3>1
    <3>3. \A m \in S : m <= c - 1
      BY <2>3, <3>2
    <3>4. c - 1 \in Nat
      <4>1. PICK m \in S : TRUE
        BY <1>2
      <4>2. m \in Nat /\ m <= c /\ m # c
        BY <3>2, <4>1
      <4>3. QED
        BY <2>3, <4>2
    <3>5. c - 1 \in T
      BY <3>3, <3>4 DEF T
    <3>6. QED
      BY <2>2, <2>3, <3>5
  <2>5. \E n \in S : \A m \in S : m <= n
    BY <2>3, <2>4
  <2>6. MaxId(S, otherwise) \in S /\ \A m \in S : m <= MaxId(S, otherwise)
    BY <1>2, <2>5 DEF MaxId
  <2>7. MaxId(S, otherwise) \in Int
    <3>1. \A m \in S : m \in Int
      OBVIOUS
    <3>2. QED
      BY <2>6, <3>1
  <2>8. QED
    BY <1>2, <2>6, <2>7
<1>3. QED
  BY <1>1, <1>2

\* The ids of a list have a bound.
LEMMA ListBounded ==
    ASSUME NEW list, NEW n \in Nat, DOMAIN list = 1..n, \A k \in 1..n : list[k].id \in Nat
    PROVE  \E b \in Nat : \A k \in 1..n : list[k].id <= b
<1> DEFINE Bounded(k) == \E b \in Nat : \A j \in 1..k : list[j].id <= b
           T == {k \in 0..n : ~Bounded(k)}
<1>1. Bounded(0)
  <2>1. \A j \in 1..0 : list[j].id <= 0
    OBVIOUS
  <2>2. QED
    BY <2>1
<1>2. ASSUME NEW x \in 1..n, Bounded(x - 1) PROVE Bounded(x)
  <2>1. PICK b \in Nat : \A j \in 1..(x - 1) : list[j].id <= b
    BY <1>2
  <2>2. list[x].id \in Nat /\ \A j \in 1..(x - 1) : list[j].id \in Nat
    OBVIOUS
  <2>3. \A j \in 1..x : j \in 1..(x - 1) \/ j = x
    OBVIOUS
  <2>4. CASE list[x].id <= b
    <3>1. \A j \in 1..x : list[j].id <= b
      BY <2>1, <2>3, <2>4
    <3>2. QED
      BY <3>1
  <2>5. CASE b <= list[x].id
    <3>1. \A j \in 1..(x - 1) : list[j].id <= list[x].id
      BY <2>1, <2>2, <2>5
    <3>2. \A j \in 1..x : list[j].id <= list[x].id
      BY <2>2, <2>3, <3>1
    <3>3. QED
      BY <2>2, <3>2
  <2>6. QED
    BY <2>2, <2>4, <2>5
<1>3. Bounded(n) => \E b \in Nat : \A k \in 1..n : list[k].id <= b
  OBVIOUS
<1> HIDE DEF Bounded
<1>4. T # {} => FALSE
  <2>1. SUFFICES ASSUME T # {} PROVE FALSE
    OBVIOUS
  <2>2. T \subseteq Nat
    OBVIOUS
  <2>3. PICK x \in T : \A y \in T : x <= y
    <3> HIDE DEF T
    <3> QED BY <2>1, <2>2, LeastNumber
  <2>4. x \in 0..n /\ ~Bounded(x)
    OBVIOUS
  <2>5. x # 0
    BY <1>1, <2>4
  <2>6. x \in 1..n /\ x - 1 \in 0..n /\ ~(x <= x - 1)
    BY <2>4, <2>5
  <2>7. Bounded(x - 1)
    BY <2>3, <2>6
  <2>8. QED
    BY <1>2, <2>4, <2>6, <2>7
<1>5. Bounded(n)
  <2>1. n \in 0..n
    OBVIOUS
  <2>2. QED
    BY <1>4, <2>1
<1>6. QED
  BY <1>3, <1>5

\* The highest id of a list.
Top(list) == MaxId(IdsOf(list), 0)

\* No id of the list is higher.
LEMMA ListTop ==
    ASSUME NEW list, NEW n \in Nat, DOMAIN list = 1..n, \A k \in 1..n : list[k].id \in Nat
    PROVE  Top(list) \in Nat /\ \A k \in 1..n : list[k].id <= Top(list)
<1>1. PICK b \in Nat : \A k \in 1..n : list[k].id <= b
  BY ListBounded
<1>2. IdsOf(list) \in SUBSET Nat /\ \A m \in IdsOf(list) : m <= b
  BY <1>1 DEF IdsOf
<1>3. \A k \in 1..n : list[k].id \in IdsOf(list)
  BY DEF IdsOf
<1>4. /\ Top(list) \in Int /\ \A m \in IdsOf(list) : m <= Top(list)
      /\ IdsOf(list) # {} => Top(list) \in IdsOf(list)
      /\ IdsOf(list) = {} => Top(list) = 0
  <2> DEFINE S == IdsOf(list)
  <2>1. S \in SUBSET Nat /\ \A m \in S : m <= b
    BY <1>2
  <2> HIDE DEF S
  <2>2. /\ MaxId(S, 0) \in Int /\ \A m \in S : m <= MaxId(S, 0)
        /\ S # {} => MaxId(S, 0) \in S
        /\ S = {} => MaxId(S, 0) = 0
    <3>1. 0 \in Int
      OBVIOUS
    <3>2. QED
      BY ONLY <1>1, <2>1, <3>1, MaxIdFacts
  <2>3. QED
    BY <2>2 DEF S, Top
<1>5. QED
  BY <1>2, <1>3, <1>4

-----------------------------------------------------------------------------
(* Lists whose entries have ids *)

\* The ids are set and differ.
Distinct(list) == \A j, k \in DOMAIN list : list[j].id # 0 /\ (j # k => list[j].id # list[k].id)

\* An entry that Numbered gives an id.
Unset(list, k) == list[k].id = 0 \/ \E j \in 1..(k - 1) : list[j].id = list[k].id

\* Numbered leaves an entry alone or gives it an id above all of the list's, and
\* all ids are set and differ after it.
LEMMA NumberedFacts ==
    ASSUME NEW list, NEW n \in Nat, DOMAIN list = 1..n, \A k \in 1..n : list[k].id \in Nat /\ "id" \in DOMAIN list[k]
    PROVE  LET r == Numbered(list)
           IN  /\ r = [k \in 1..n |-> r[k]]
               /\ \A k \in 1..n : ~Unset(list, k) => r[k] = list[k]
               /\ \A k \in 1..n : Unset(list, k) =>
                     r[k] = [list[k] EXCEPT !.id = r[k].id] /\ r[k].id \in Nat /\ r[k].id > Top(list)
               /\ \A k \in 1..n : r[k].id \in Nat
               /\ Distinct(r)
<1> DEFINE P == {k \in 1..n : Unset(list, k)}
           r == Numbered(list)
<1>1. P \in SUBSET (1..n)
  OBVIOUS
<1>2. \A k \in 1..n : Count(P, k) = Cardinality({j \in 1..k : Unset(list, j)})
  <2>1. TAKE k \in 1..n
  <2>2. {j \in P : j <= k} = {j \in 1..k : Unset(list, j)}
    OBVIOUS
  <2>3. QED
    BY <2>2 DEF Count
<1>3. r = [k \in 1..n |-> IF Unset(list, k) THEN [list[k] EXCEPT !.id = Top(list) + Cardinality({j \in 1..k : Unset(list, j)})] ELSE list[k]]
  BY DEF Numbered, Top, Unset
<1>4. r = [k \in 1..n |-> IF Unset(list, k) THEN [list[k] EXCEPT !.id = Top(list) + Count(P, k)] ELSE list[k]]
  BY <1>2, <1>3
<1>5. Top(list) \in Nat /\ \A k \in 1..n : list[k].id <= Top(list)
  BY ListTop
<1>6. \A k \in P : Count(P, k) \in Nat /\ Count(P, k) > 0
  <2>1. TAKE k \in P
  <2>2. k \in 0..n /\ 0 \in 0..n /\ 0 < k
    OBVIOUS
  <2> HIDE DEF P
  <2>3. Count(P, 0) < Count(P, k) /\ Count(P, 0) = 0 /\ Count(P, k) \in 0..Cardinality(P) /\ Cardinality(P) \in Nat
    BY <1>1, <2>2, CountFacts
  <2>4. QED
    BY <2>3
<1>7. \A j, k \in P : j < k => Count(P, j) < Count(P, k)
  <2>1. TAKE j, k \in P
  <2>2. HAVE j < k
  <2>3. j \in 0..n /\ k \in 0..n
    OBVIOUS
  <2> HIDE DEF P
  <2>4. QED
    BY <1>1, <2>2, <2>3, CountFacts
<1>8. \A k \in 1..n : k \in P <=> Unset(list, k)
  OBVIOUS
<1> HIDE DEF P, r
<1>9. \A k \in 1..n : k \notin P => r[k] = list[k]
  BY <1>4, <1>8
<1>10. \A k \in P : r[k] = [list[k] EXCEPT !.id = Top(list) + Count(P, k)] /\ r[k].id = Top(list) + Count(P, k)
  <2>1. TAKE k \in P
  <2>2. k \in 1..n /\ Unset(list, k) /\ "id" \in DOMAIN list[k]
    BY <1>1, <1>8
  <2>3. r[k] = [list[k] EXCEPT !.id = Top(list) + Count(P, k)]
    BY <1>4, <2>2
  <2>4. QED
    BY <2>2, <2>3
<1>11. \A k \in P : r[k].id \in Nat /\ r[k].id > Top(list) /\ r[k] = [list[k] EXCEPT !.id = r[k].id]
  <2>1. TAKE k \in P
  <2>2. r[k] = [list[k] EXCEPT !.id = r[k].id] /\ r[k].id = Top(list) + Count(P, k)
    BY <1>10
  <2>3. Count(P, k) \in Nat /\ Count(P, k) > 0
    BY <1>6
  <2>4. QED
    BY <1>5, <2>2, <2>3
<1>12. r = [k \in 1..n |-> r[k]] /\ DOMAIN r = 1..n
  BY <1>4
<1>13. \A k \in 1..n : r[k].id \in Nat /\ r[k].id # 0
  <2>1. TAKE k \in 1..n
  <2>2. CASE k \in P
    <3>1. r[k].id \in Nat /\ r[k].id > Top(list)
      BY <1>11, <2>2
    <3>2. QED
      BY <1>5, <3>1
  <2>3. CASE k \notin P
    <3>1. list[k].id # 0
      BY <1>8, <2>3 DEF Unset
    <3>2. QED
      BY <1>9, <2>3, <3>1
  <2>4. QED
    BY <2>2, <2>3
<1>14. \A j, k \in 1..n : j < k => r[j].id # r[k].id
  <2>1. TAKE j, k \in 1..n
  <2>2. HAVE j < k
  <2>3. CASE j \in P /\ k \in P
    <3>1. Count(P, j) \in Nat /\ Count(P, k) \in Nat /\ Count(P, j) < Count(P, k)
      BY <1>6, <1>7, <2>2, <2>3
    <3>2. r[j].id = Top(list) + Count(P, j) /\ r[k].id = Top(list) + Count(P, k)
      BY <1>10, <2>3
    <3>3. QED
      BY <1>5, <3>1, <3>2
  <2>4. CASE j \in P /\ k \notin P
    <3>1. r[j].id \in Nat /\ r[j].id > Top(list)
      BY <1>11, <2>4
    <3>2. r[k].id = list[k].id /\ list[k].id \in Nat /\ list[k].id <= Top(list)
      BY <1>5, <1>9, <2>4
    <3>3. QED
      BY <1>5, <3>1, <3>2
  <2>5. CASE j \notin P /\ k \in P
    <3>1. r[k].id \in Nat /\ r[k].id > Top(list)
      BY <1>11, <2>5
    <3>2. r[j].id = list[j].id /\ list[j].id \in Nat /\ list[j].id <= Top(list)
      BY <1>5, <1>9, <2>5
    <3>3. QED
      BY <1>5, <3>1, <3>2
  <2>6. CASE j \notin P /\ k \notin P
    <3>1. j \in 1..(k - 1) /\ ~Unset(list, k)
      BY <1>8, <2>2, <2>6
    <3>2. list[j].id # list[k].id
      BY <3>1 DEF Unset
    <3>3. QED
      BY <1>9, <2>6, <3>2
  <2>7. QED
    BY <2>3, <2>4, <2>5, <2>6
<1>15. Distinct(r)
  <2>1. \A j, k \in 1..n : j # k => j < k \/ k < j
    OBVIOUS
  <2>2. QED
    BY <1>12, <1>13, <1>14, <2>1 DEF Distinct
<1>16. \A k \in 1..n : Unset(list, k) => r[k] = [list[k] EXCEPT !.id = r[k].id] /\ r[k].id \in Nat /\ r[k].id > Top(list)
  BY <1>8, <1>11
<1>17. \A k \in 1..n : ~Unset(list, k) => r[k] = list[k]
  BY <1>8, <1>9
<1>18. QED
  BY <1>12, <1>13, <1>15, <1>16, <1>17 DEF r

\* A list whose ids are set and differ stays as it is.
LEMMA NumberedDistinct ==
    ASSUME NEW list, NEW n \in Nat, list = [k \in 1..n |-> list[k]], Distinct(list)
    PROVE  Numbered(list) = list
<1>1. DOMAIN list = 1..n
  OBVIOUS
<1>2. ASSUME NEW k \in 1..n PROVE ~Unset(list, k)
  <2>1. \A j \in 1..(k - 1) : j \in 1..n /\ j # k
    OBVIOUS
  <2>2. QED
    BY <1>1, <2>1 DEF Distinct, Unset
<1>3. Numbered(list) = [k \in 1..n |-> IF Unset(list, k) THEN [list[k] EXCEPT !.id = Top(list) + Cardinality({j \in 1..k : Unset(list, j)})] ELSE list[k]]
  BY <1>1 DEF Numbered, Top, Unset
<1>4. QED
  BY <1>2, <1>3

\* Ids that are set and differ are as many as the entries.
LEMMA DistinctIsUnique ==
    ASSUME NEW list, NEW n \in Nat, DOMAIN list = 1..n, Len(list) = n, Distinct(list)
    PROVE  Unique(list)
<1> DEFINE f == [k \in 1..n |-> list[k].id]
<1>1. f \in Surjection(1..n, IdsOf(list)) /\ f \in Injection(1..n, IdsOf(list))
  BY DEF Distinct, IdsOf, Surjection, Injection, IsInjective
<1>2. IsFiniteSet(1..n) /\ Cardinality(1..n) = n
  BY FS_Interval
<1>3. Cardinality(IdsOf(list)) = n
  <2> HIDE DEF f
  <2> QED BY <1>1, <1>2, FS_Surjection
<1>4. QED
  BY <1>3 DEF Unique, Distinct, IdsOf

-----------------------------------------------------------------------------
(* Scenes that need no repair *)

\* The ids of layers and states are set and differ, and what states and steps
\* refer to is there.
Tidy(scene) ==
    /\ Distinct(scene.layers) /\ Distinct(scene.states)
    /\ \A k \in DOMAIN scene.states :
          scene.states[k].keys \subseteq IdsOf(scene.layers) /\ scene.states[k].flat \subseteq IdsOf(scene.layers)
    /\ \A k \in DOMAIN scene.steps : scene.steps[k] \in IdsOf(scene.states)

\* A sequence as a function of its places, and back.
LEMMA SequenceOf ==
    ASSUME NEW S, NEW list \in Seq(S)
    PROVE  /\ Len(list) \in Nat /\ DOMAIN list = 1..Len(list)
           /\ list = [k \in 1..Len(list) |-> list[k]]
           /\ \A k \in 1..Len(list) : list[k] \in S
  OBVIOUS

LEMMA IsSequence ==
    ASSUME NEW S, NEW list, NEW n \in Nat, list = [k \in 1..n |-> list[k]], \A k \in 1..n : list[k] \in S
    PROVE  list \in Seq(S) /\ Len(list) = n /\ DOMAIN list = 1..n
<1>1. list \in [1..n -> S]
  OBVIOUS
<1>2. QED
  BY <1>1

\* Numbered gives layers for layers, with their inputs, and states for states.
LEMMA NumberedLayers ==
    ASSUME NEW list \in Seq(Layers)
    PROVE  /\ Numbered(list) \in Seq(Layers) /\ Distinct(Numbered(list))
           /\ Len(Numbered(list)) = Len(list)
           /\ \A k \in 1..Len(list) : Numbered(list)[k].input = list[k].input
<1> DEFINE n == Len(list)
           r == Numbered(list)
<1>1. n \in Nat /\ DOMAIN list = 1..n /\ \A k \in 1..n : list[k] \in Layers
  BY SequenceOf
<1>2. \A k \in 1..n : list[k].id \in Nat /\ "id" \in DOMAIN list[k]
  BY <1>1 DEF Layers
<1> HIDE DEF n
<1>3. /\ r = [k \in 1..n |-> r[k]] /\ Distinct(r) /\ \A k \in 1..n : r[k].id \in Nat
      /\ \A k \in 1..n : ~Unset(list, k) => r[k] = list[k]
      /\ \A k \in 1..n : Unset(list, k) => r[k] = [list[k] EXCEPT !.id = r[k].id]
  BY <1>1, <1>2, NumberedFacts
<1> HIDE DEF r
<1>4. \A k \in 1..n : r[k] \in Layers /\ r[k].input = list[k].input
  <2>1. TAKE k \in 1..n
  <2>2. CASE ~Unset(list, k)
    BY <1>1, <1>3, <2>2
  <2>3. CASE Unset(list, k)
    BY <1>1, <1>3, <2>3 DEF Layers
  <2>4. QED
    BY <2>2, <2>3
<1>5. r \in Seq(Layers) /\ Len(r) = n
  BY <1>1, <1>3, <1>4, IsSequence
<1>6. QED
  BY <1>3, <1>4, <1>5 DEF r, n

LEMMA NumberedStates ==
    ASSUME NEW list \in Seq(States)
    PROVE  /\ Numbered(list) \in Seq(States) /\ Distinct(Numbered(list))
           /\ Len(Numbered(list)) = Len(list)
<1> DEFINE n == Len(list)
           r == Numbered(list)
<1>1. n \in Nat /\ DOMAIN list = 1..n /\ \A k \in 1..n : list[k] \in States
  BY SequenceOf
<1>2. \A k \in 1..n : list[k].id \in Nat /\ "id" \in DOMAIN list[k]
  BY <1>1 DEF States
<1> HIDE DEF n
<1>3. /\ r = [k \in 1..n |-> r[k]] /\ Distinct(r) /\ \A k \in 1..n : r[k].id \in Nat
      /\ \A k \in 1..n : ~Unset(list, k) => r[k] = list[k]
      /\ \A k \in 1..n : Unset(list, k) => r[k] = [list[k] EXCEPT !.id = r[k].id]
  BY <1>1, <1>2, NumberedFacts
<1> HIDE DEF r
<1>4. \A k \in 1..n : r[k] \in States
  <2>1. TAKE k \in 1..n
  <2>2. CASE ~Unset(list, k)
    BY <1>1, <1>3, <2>2
  <2>3. CASE Unset(list, k)
    BY <1>1, <1>3, <2>3 DEF States
  <2>4. QED
    BY <2>2, <2>3
<1>5. r \in Seq(States) /\ Len(r) = n
  BY <1>1, <1>3, <1>4, IsSequence
<1>6. QED
  BY <1>3, <1>5 DEF r, n

\* Picked entries of a list are a list of the same kind; ids that differ still do.
LEMMA PickedList ==
    ASSUME NEW S, NEW list \in Seq(S), NEW P \in SUBSET (DOMAIN list)
    PROVE  LET r == Picked(list, P)
           IN  /\ r \in Seq(S)
               /\ \A m \in DOMAIN r : \E k \in P : r[m] = list[k]
               /\ Distinct(list) => Distinct(r)
<1> DEFINE n == Len(list)
           r == Picked(list, P)
           c == Cardinality(P)
<1>1. n \in Nat /\ DOMAIN list = 1..n /\ P \in SUBSET (1..n) /\ \A k \in 1..n : list[k] \in S
  BY SequenceOf
<1> HIDE DEF n, r, c
<1>2. /\ r = [m \in 1..c |-> r[m]] /\ c \in Nat
      /\ \A m \in 1..c : \E k \in P : Count(P, k) = m /\ r[m] = list[k]
  BY <1>1, PickedFacts DEF r, c
<1>3. DOMAIN r = 1..c
  BY <1>2
<1>4. \A m \in DOMAIN r : \E k \in P : r[m] = list[k]
  BY <1>2, <1>3
<1>5. \A m \in 1..c : r[m] \in S
  BY <1>1, <1>3, <1>4
<1>6. r \in Seq(S)
  BY <1>2, <1>5, IsSequence
<1>7. Distinct(list) => Distinct(r)
  <2>1. SUFFICES ASSUME Distinct(list), NEW m \in 1..c, NEW l \in 1..c
                 PROVE  r[m].id # 0 /\ (m # l => r[m].id # r[l].id)
    BY <1>3 DEF Distinct
  <2>2. PICK j \in P : Count(P, j) = m /\ r[m] = list[j]
    BY <1>2
  <2>3. PICK k \in P : Count(P, k) = l /\ r[l] = list[k]
    BY <1>2
  <2>4. j \in DOMAIN list /\ k \in DOMAIN list
    OBVIOUS
  <2>5. QED
    BY <2>1, <2>2, <2>3, <2>4 DEF Distinct
<1>8. QED
  BY <1>4, <1>6, <1>7 DEF r

\* Canonicalizing a scene makes it tidy.
LEMMA SceneGetsTidy ==
    ASSUME NEW scene \in Scenes
    PROVE  LET c == CanonicalScene(scene)
           IN  /\ c \in Scenes /\ Tidy(c)
               /\ c.layers = Numbered(scene.layers)
               /\ DOMAIN c.states = DOMAIN scene.states
               /\ \A k \in DOMAIN c.states :
                     /\ c.states[k].id = Numbered(scene.states)[k].id
                     /\ c.states[k].keys = Numbered(scene.states)[k].keys \cap IdsOf(c.layers)
<1> DEFINE L == Numbered(scene.layers)
           T == Numbered(scene.states)
           P == {k \in DOMAIN scene.steps : scene.steps[k] \in IdsOf(T)}
           c == CanonicalScene(scene)
           X == [k \in DOMAIN T |-> [T[k] EXCEPT !.keys = @ \cap IdsOf(L), !.flat = @ \cap IdsOf(L)]]
<1>1. scene.layers \in Seq(Layers) /\ scene.states \in Seq(States) /\ scene.steps \in Seq(Nat)
  BY DEF Scenes
<1>2. L \in Seq(Layers) /\ Distinct(L)
  BY <1>1, NumberedLayers
<1>3. T \in Seq(States) /\ Distinct(T) /\ Len(T) = Len(scene.states)
  BY <1>1, NumberedStates
<1>4. c = [layers |-> L, states |-> X, steps |-> Picked(scene.steps, P)]
  BY DEF CanonicalScene
<1>5. P \in SUBSET (DOMAIN scene.steps)
  OBVIOUS
<1> HIDE DEF L, T, c
<1>6. \A k \in DOMAIN T : T[k] \in States
  BY <1>3
<1>7. \A k \in DOMAIN T : /\ X[k] \in States /\ X[k].id = T[k].id /\ X[k].keys = T[k].keys \cap IdsOf(L)
                          /\ X[k].flat \subseteq IdsOf(L)
  BY <1>6 DEF States
<1>8. DOMAIN X = DOMAIN T /\ DOMAIN T = 1..Len(T) /\ Len(T) \in Nat
  BY <1>3
<1>9. X \in Seq(States)
  <2> HIDE DEF X
  <2>1. \A k \in 1..Len(T) : X[k] \in States
    BY <1>7, <1>8
  <2>2. X = [k \in 1..Len(T) |-> X[k]]
    BY <1>8 DEF X
  <2>3. QED
    BY <1>8, <2>1, <2>2, IsSequence
<1>10. Distinct(X) /\ IdsOf(X) = IdsOf(T)
  <2> HIDE DEF X
  <2> QED BY <1>3, <1>7, <1>8 DEF Distinct, IdsOf
<1> DEFINE R == Picked(scene.steps, P)
<1>11. R \in Seq(Nat) /\ \A m \in DOMAIN R : \E k \in P : R[m] = scene.steps[k]
  <2> HIDE DEF P
  <2> QED BY <1>1, <1>5, PickedList
<1>12. \A m \in DOMAIN R : R[m] \in IdsOf(T)
  <2>1. \A k \in P : scene.steps[k] \in IdsOf(T)
    OBVIOUS
  <2> HIDE DEF R, P
  <2>2. QED
    BY <1>11, <2>1
<1> HIDE DEF X, R
<1>13. c.layers = L /\ c.states = X /\ c.steps = R /\ c = [layers |-> L, states |-> X, steps |-> R]
  BY <1>4 DEF R
<1>14. c \in Scenes
  BY <1>2, <1>9, <1>11, <1>13 DEF Scenes
<1>15. Tidy(c)
  BY <1>2, <1>7, <1>8, <1>10, <1>12, <1>13 DEF Tidy
<1>16. DOMAIN X = DOMAIN scene.states
  BY <1>1, <1>3, <1>8
<1>17. \A k \in DOMAIN X : X[k].id = T[k].id /\ X[k].keys = T[k].keys \cap IdsOf(L)
  BY <1>7, <1>8
<1>18. QED
  BY <1>13, <1>14, <1>15, <1>16, <1>17 DEF L, T, c

\* A tidy scene stays as it is.
LEMMA TidySceneStays ==
    ASSUME NEW scene \in Scenes, Tidy(scene)
    PROVE  CanonicalScene(scene) = scene
<1> DEFINE P == {k \in DOMAIN scene.steps : scene.steps[k] \in IdsOf(scene.states)}
<1>1. /\ scene.layers \in Seq(Layers) /\ scene.states \in Seq(States) /\ scene.steps \in Seq(Nat)
      /\ scene = [layers |-> scene.layers, states |-> scene.states, steps |-> scene.steps]
  BY DEF Scenes
<1>2. Numbered(scene.layers) = scene.layers
  <2>1. Len(scene.layers) \in Nat /\ scene.layers = [k \in 1..Len(scene.layers) |-> scene.layers[k]]
    BY <1>1, SequenceOf
  <2>2. Distinct(scene.layers)
    BY DEF Tidy
  <2>3. QED
    BY <2>1, <2>2, NumberedDistinct
<1>3. Numbered(scene.states) = scene.states
  <2>1. Len(scene.states) \in Nat /\ scene.states = [k \in 1..Len(scene.states) |-> scene.states[k]]
    BY <1>1, SequenceOf
  <2>2. Distinct(scene.states)
    BY DEF Tidy
  <2>3. QED
    BY <2>1, <2>2, NumberedDistinct
<1>4. P = 1..Len(scene.steps)
  BY <1>1 DEF Tidy
<1>5. Picked(scene.steps, P) = scene.steps
  <2>1. Len(scene.steps) \in Nat /\ scene.steps = [k \in 1..Len(scene.steps) |-> scene.steps[k]]
    BY <1>1, SequenceOf
  <2>2. QED
    BY <1>4, <2>1, PickedAll
<1> DEFINE ids == IdsOf(scene.layers)
           X == [k \in DOMAIN scene.states |-> [scene.states[k] EXCEPT !.keys = @ \cap ids, !.flat = @ \cap ids]]
<1>6. X = scene.states
  <2>1. \A k \in DOMAIN scene.states : scene.states[k] \in States
    BY <1>1
  <2>2. \A k \in DOMAIN scene.states : /\ scene.states[k].keys \cap ids = scene.states[k].keys
                                        /\ scene.states[k].flat \cap ids = scene.states[k].flat
    BY DEF Tidy
  <2> HIDE DEF ids
  <2>3. \A k \in DOMAIN scene.states :
           [scene.states[k] EXCEPT !.keys = @ \cap ids, !.flat = @ \cap ids] = scene.states[k]
    BY <2>1, <2>2 DEF States
  <2>4. scene.states = [k \in DOMAIN scene.states |-> scene.states[k]]
    BY <1>1
  <2>5. QED
    BY <2>3, <2>4
<1>7. CanonicalScene(scene) = [layers |-> scene.layers, states |-> X, steps |-> Picked(scene.steps, P)]
  BY <1>2, <1>3 DEF CanonicalScene
<1> HIDE DEF X, P
<1>8. QED
  BY <1>1, <1>5, <1>6, <1>7

-----------------------------------------------------------------------------
(* Documents that need no repair *)

\* The parts of a document, and the types of its counters.
Fields == {"inputs", "scenes", "units", "overlays", "outputs", "selected", "listen", "next", "odd"}
Counters == [input : Nat, scene : Nat, unit : Nat, overlay : Nat]

\* Nothing of it changes when it is canonicalized.
TidyDoc(d) ==
    /\ d = [f \in Fields |-> d[f]]
    /\ \A s \in DOMAIN d.scenes : Tidy(d.scenes[s])
    /\ \A i \in DOMAIN d.inputs : CanonicalInput(d.inputs[i]) = d.inputs[i]
    /\ \A u \in DOMAIN d.units : CanonicalUnit(d.units[u], d.overlays) = d.units[u]
    /\ d.listen = Nobody \/ ListenOk(d)
    /\ Larger(d.next.overlay, MaxId(d.overlays, 0) + 1) = d.next.overlay

\* What canonicalizing makes of each part, and that it does so once.
LEMMA CanonicalFields ==
    ASSUME NEW d, DOMAIN d = Fields
    PROVE  LET c == Canonical(d)
           IN  /\ c = [f \in Fields |-> c[f]] /\ DOMAIN c = Fields
               /\ c.listen = (IF ListenOk(d) THEN d.listen ELSE Nobody)
               /\ c.inputs = [i \in DOMAIN d.inputs |-> CanonicalInput(d.inputs[i])]
               /\ c.scenes = [s \in DOMAIN d.scenes |-> CanonicalScene(d.scenes[s])]
               /\ c.units = [u \in DOMAIN d.units |-> CanonicalUnit(d.units[u], d.overlays)]
               /\ c.next = [d.next EXCEPT !.overlay = Larger(d.next.overlay, MaxId(d.overlays, 0) + 1)]
               /\ c.overlays = d.overlays /\ c.outputs = d.outputs /\ c.selected = d.selected /\ c.odd = d.odd
  BY DEF Canonical, Fields

LEMMA CanonicalInputFacts ==
    ASSUME NEW input \in Inputs
    PROVE  /\ CanonicalInput(input) \in Inputs
           /\ CanonicalInput(CanonicalInput(input)) = CanonicalInput(input)
  BY DEF CanonicalInput, Inputs

LEMMA CanonicalUnitFacts ==
    ASSUME NEW unit \in Units, NEW overlays
    PROVE  /\ CanonicalUnit(unit, overlays) \in Units
           /\ CanonicalUnit(unit, overlays).onAir \subseteq overlays
           /\ CanonicalUnit(CanonicalUnit(unit, overlays), overlays) = CanonicalUnit(unit, overlays)
<1>1. CanonicalUnit(unit, overlays) \in Units
  BY DEF CanonicalUnit, Units
<1>2. CanonicalUnit(unit, overlays).onAir \subseteq overlays
  BY DEF CanonicalUnit, Units
<1>3. \A a : (a \cap overlays) \cap overlays = a \cap overlays
  OBVIOUS
<1>4. CanonicalUnit(CanonicalUnit(unit, overlays), overlays) = CanonicalUnit(unit, overlays)
  BY <1>3 DEF CanonicalUnit, Units
<1>5. QED
  BY <1>1, <1>2, <1>4

\* The counter of the overlays.
LEMMA OverlayCounter ==
    ASSUME NEW overlays, NEW n \in Nat, \A o \in overlays : o \in Nat /\ o < n
    PROVE  LET m == Larger(n, MaxId(overlays, 0) + 1)
           IN  m \in Nat /\ n <= m /\ Larger(m, MaxId(overlays, 0) + 1) = m
<1>1. overlays \in SUBSET Nat /\ \A o \in overlays : o <= n
  OBVIOUS
<1>2. 0 \in Int
  OBVIOUS
<1>3. MaxId(overlays, 0) \in Int
  BY <1>1, <1>2, MaxIdFacts
<1>4. QED
  BY <1>3 DEF Larger

\* Canonicalizing a document makes it tidy and never lowers a counter.
LEMMA CanonicalDocument ==
    ASSUME NEW d, IsDocument(d), Counted(d)
    PROVE  /\ IsDocument(Canonical(d)) /\ TidyDoc(Canonical(d)) /\ Counted(Canonical(d))
           /\ \A kind \in {"input", "scene", "unit", "overlay"} : d.next[kind] <= Canonical(d).next[kind]
<1> DEFINE c == Canonical(d)
           m == Larger(d.next.overlay, MaxId(d.overlays, 0) + 1)
<1>1. /\ DOMAIN d = Fields /\ d.next \in Counters /\ d.listen \in [kind : {"none", "unit", "input"}, id : Nat]
      /\ \A i \in DOMAIN d.inputs : d.inputs[i] \in Inputs
      /\ \A s \in DOMAIN d.scenes : d.scenes[s] \in Scenes
      /\ \A u \in DOMAIN d.units : d.units[u] \in Units
  BY DEF IsDocument, Fields, Counters
<1>2. /\ c = [f \in Fields |-> c[f]] /\ DOMAIN c = Fields
      /\ c.listen = (IF ListenOk(d) THEN d.listen ELSE Nobody)
      /\ c.inputs = [i \in DOMAIN d.inputs |-> CanonicalInput(d.inputs[i])]
      /\ c.scenes = [s \in DOMAIN d.scenes |-> CanonicalScene(d.scenes[s])]
      /\ c.units = [u \in DOMAIN d.units |-> CanonicalUnit(d.units[u], d.overlays)]
      /\ c.next = [d.next EXCEPT !.overlay = m]
      /\ c.overlays = d.overlays /\ c.outputs = d.outputs /\ c.selected = d.selected /\ c.odd = d.odd
  BY <1>1, CanonicalFields
<1>3. m \in Nat /\ d.next.overlay <= m /\ Larger(m, MaxId(d.overlays, 0) + 1) = m
  BY <1>1, OverlayCounter DEF Counters, Counted
<1> HIDE DEF c, m
<1>4. /\ c.next \in Counters /\ c.next.overlay = m /\ c.next.input = d.next.input
      /\ c.next.scene = d.next.scene /\ c.next.unit = d.next.unit
  BY <1>1, <1>2, <1>3 DEF Counters
<1>5. /\ \A i \in DOMAIN c.inputs : c.inputs[i] \in Inputs /\ CanonicalInput(c.inputs[i]) = c.inputs[i]
      /\ DOMAIN c.inputs = DOMAIN d.inputs /\ c.inputs = [i \in DOMAIN c.inputs |-> c.inputs[i]]
  <2>1. \A i \in DOMAIN d.inputs :
           CanonicalInput(d.inputs[i]) \in Inputs /\ CanonicalInput(CanonicalInput(d.inputs[i])) = CanonicalInput(d.inputs[i])
    BY <1>1, CanonicalInputFacts
  <2>2. c.inputs = [i \in DOMAIN d.inputs |-> CanonicalInput(d.inputs[i])]
    BY <1>2
  <2>3. QED
    BY <2>1, <2>2
<1>6. /\ \A s \in DOMAIN c.scenes : c.scenes[s] \in Scenes /\ Tidy(c.scenes[s])
      /\ DOMAIN c.scenes = DOMAIN d.scenes /\ c.scenes = [s \in DOMAIN c.scenes |-> c.scenes[s]]
  <2>1. \A s \in DOMAIN d.scenes : CanonicalScene(d.scenes[s]) \in Scenes /\ Tidy(CanonicalScene(d.scenes[s]))
    BY <1>1, SceneGetsTidy
  <2>2. QED
    BY <1>2, <2>1
<1>7. /\ \A u \in DOMAIN c.units : c.units[u] \in Units /\ CanonicalUnit(c.units[u], c.overlays) = c.units[u]
      /\ DOMAIN c.units = DOMAIN d.units /\ c.units = [u \in DOMAIN c.units |-> c.units[u]]
  <2>1. \A u \in DOMAIN d.units :
           LET v == CanonicalUnit(d.units[u], d.overlays)
           IN  v \in Units /\ CanonicalUnit(v, d.overlays) = v
    BY <1>1, CanonicalUnitFacts
  <2>2. QED
    BY <1>2, <2>1
<1>8. c.listen \in [kind : {"none", "unit", "input"}, id : Nat]
  <2>1. Nobody \in [kind : {"none", "unit", "input"}, id : Nat]
    BY DEF Nobody
  <2>2. QED
    BY <1>1, <1>2, <2>1
<1>9. c.listen = Nobody \/ ListenOk(c)
  BY <1>2, <1>5, <1>7 DEF ListenOk
<1>10. IsDocument(c)
  BY <1>2, <1>4, <1>5, <1>6, <1>7, <1>8 DEF IsDocument, Fields, Counters
<1>11. TidyDoc(c)
  <2>1. Larger(c.next.overlay, MaxId(c.overlays, 0) + 1) = c.next.overlay
    BY <1>2, <1>3, <1>4
  <2>2. QED
    BY <1>2, <1>5, <1>6, <1>7, <1>9, <2>1 DEF TidyDoc
<1>12. Counted(c)
  <2>1. \A o \in c.overlays : o \in Nat /\ o < c.next.overlay
    BY <1>1, <1>2, <1>3, <1>4 DEF Counted, Counters
  <2>2. QED
    BY <1>4, <1>5, <1>6, <1>7, <2>1 DEF Counted
<1>13. \A kind \in {"input", "scene", "unit", "overlay"} : d.next[kind] <= c.next[kind]
  BY <1>1, <1>3, <1>4 DEF Counters
<1>14. QED
  BY <1>10, <1>11, <1>12, <1>13 DEF c

\* A tidy document stays as it is.
LEMMA TidyDocumentStays ==
    ASSUME NEW d, IsDocument(d), TidyDoc(d)
    PROVE  Canonical(d) = d
<1> DEFINE c == Canonical(d)
<1>1. /\ DOMAIN d = Fields /\ d.next \in Counters
      /\ d.inputs = [i \in DOMAIN d.inputs |-> d.inputs[i]]
      /\ d.scenes = [s \in DOMAIN d.scenes |-> d.scenes[s]] /\ \A s \in DOMAIN d.scenes : d.scenes[s] \in Scenes
      /\ d.units = [u \in DOMAIN d.units |-> d.units[u]]
  BY DEF IsDocument, Fields, Counters
<1>2. /\ c = [f \in Fields |-> c[f]] /\ DOMAIN c = Fields
      /\ c.listen = (IF ListenOk(d) THEN d.listen ELSE Nobody)
      /\ c.inputs = [i \in DOMAIN d.inputs |-> CanonicalInput(d.inputs[i])]
      /\ c.scenes = [s \in DOMAIN d.scenes |-> CanonicalScene(d.scenes[s])]
      /\ c.units = [u \in DOMAIN d.units |-> CanonicalUnit(d.units[u], d.overlays)]
      /\ c.next = [d.next EXCEPT !.overlay = Larger(d.next.overlay, MaxId(d.overlays, 0) + 1)]
      /\ c.overlays = d.overlays /\ c.outputs = d.outputs /\ c.selected = d.selected /\ c.odd = d.odd
  BY <1>1, CanonicalFields
<1> HIDE DEF c
<1>3. c.listen = d.listen
  BY <1>2 DEF TidyDoc
<1>4. c.inputs = d.inputs
  <2>1. \A i \in DOMAIN d.inputs : CanonicalInput(d.inputs[i]) = d.inputs[i]
    BY DEF TidyDoc
  <2>2. c.inputs = [i \in DOMAIN d.inputs |-> CanonicalInput(d.inputs[i])] /\ d.inputs = [i \in DOMAIN d.inputs |-> d.inputs[i]]
    BY <1>1, <1>2
  <2>3. QED
    BY <2>1, <2>2
<1>5. c.scenes = d.scenes
  <2>1. \A s \in DOMAIN d.scenes : CanonicalScene(d.scenes[s]) = d.scenes[s]
    BY <1>1, TidySceneStays DEF TidyDoc
  <2>2. c.scenes = [s \in DOMAIN d.scenes |-> CanonicalScene(d.scenes[s])] /\ d.scenes = [s \in DOMAIN d.scenes |-> d.scenes[s]]
    BY <1>1, <1>2
  <2>3. QED
    BY <2>1, <2>2
<1>6. c.units = d.units
  <2>1. \A u \in DOMAIN d.units : CanonicalUnit(d.units[u], d.overlays) = d.units[u]
    BY DEF TidyDoc
  <2>2. c.units = [u \in DOMAIN d.units |-> CanonicalUnit(d.units[u], d.overlays)] /\ d.units = [u \in DOMAIN d.units |-> d.units[u]]
    BY <1>1, <1>2
  <2>3. QED
    BY <2>1, <2>2
<1>7. c.next = d.next
  <2>1. c.next = [d.next EXCEPT !.overlay = d.next.overlay]
    BY <1>2 DEF TidyDoc
  <2>2. d.next \in Counters
    BY <1>1
  <2>3. QED
    BY <2>1, <2>2 DEF Counters
<1>8. \A f \in Fields : c[f] = d[f]
  BY <1>2, <1>3, <1>4, <1>5, <1>6, <1>7 DEF Fields
<1>9. QED
  BY <1>2, <1>8 DEF TidyDoc, c

-----------------------------------------------------------------------------
(* The edits *)

Kinds == {"input", "scene", "unit", "overlay"}

\* The types, the counters above every id there is or ever was, and a document
\* that needs no repair.
DocInv ==
    /\ IsDocument(doc) /\ TidyDoc(doc) /\ Counted(doc) /\ Valid(doc)
    /\ doc.selected \in DOMAIN doc.units
    /\ DOMAIN used = Kinds
    /\ \A kind \in Kinds : \A n \in used[kind] : n \in Nat /\ n < doc.next[kind]

\* What an edit may make of the copy.
Staged(d) ==
    /\ IsDocument(d) /\ Counted(d) /\ d.selected \in DOMAIN d.units
    /\ \A kind \in Kinds : doc.next[kind] <= d.next[kind]

\* An edit that stages such a document keeps the invariant.
LEMMA CommitStep ==
    ASSUME NEW what, NEW d, DocInv, Staged(d), Commit(what, d)
    PROVE  /\ DocInv' /\ edit' = what /\ doc' = Canonical(d)
           /\ DOMAIN doc'.scenes = DOMAIN d.scenes
           /\ \A s \in DOMAIN d.scenes : doc'.scenes[s] = CanonicalScene(d.scenes[s])
<1>1. /\ doc' = Canonical(d) /\ edit' = what /\ Valid(doc')
      /\ used' = [kind \in DOMAIN used |-> used[kind] \cup IdsIn(doc')[kind]]
  BY DEF Commit
<1>2. IsDocument(d) /\ Counted(d) /\ DOMAIN d = Fields
  BY DEF Staged, IsDocument, Fields
<1>3. /\ IsDocument(doc') /\ TidyDoc(doc') /\ Counted(doc')
      /\ \A kind \in Kinds : d.next[kind] <= doc'.next[kind]
  BY <1>1, <1>2, CanonicalDocument DEF Kinds
<1>4. /\ doc'.scenes = [s \in DOMAIN d.scenes |-> CanonicalScene(d.scenes[s])]
      /\ doc'.units = [u \in DOMAIN d.units |-> CanonicalUnit(d.units[u], d.overlays)]
      /\ doc'.selected = d.selected
  BY <1>1, <1>2, CanonicalFields
<1>5. doc'.selected \in DOMAIN doc'.units
  BY <1>4 DEF Staged
<1>6. \A kind \in Kinds : doc.next[kind] \in Nat /\ d.next[kind] \in Nat /\ doc'.next[kind] \in Nat
  BY <1>2, <1>3 DEF IsDocument, DocInv, Kinds
<1>7. \A kind \in Kinds : doc.next[kind] <= doc'.next[kind]
  BY <1>3, <1>6 DEF Staged
<1>8. \A kind \in Kinds : \A n \in IdsIn(doc')[kind] : n \in Nat /\ n < doc'.next[kind]
  BY <1>3 DEF IdsIn, Kinds, Counted
<1>9. DOMAIN used' = Kinds /\ \A kind \in Kinds : used'[kind] = used[kind] \cup IdsIn(doc')[kind]
  BY <1>1 DEF DocInv
<1>10. \A kind \in Kinds : \A n \in used[kind] : n \in Nat /\ n < doc'.next[kind]
  <2>1. TAKE kind \in Kinds
  <2>2. TAKE n \in used[kind]
  <2>3. n \in Nat /\ n < doc.next[kind]
    BY DEF DocInv
  <2>4. QED
    BY <1>6, <1>7, <2>3
<1>11. DocInv'
  BY <1>1, <1>3, <1>5, <1>8, <1>9, <1>10 DEF DocInv
<1>12. QED
  BY <1>1, <1>4, <1>11

\* What the states of a scene move is what they moved.
KeysKept(a, b) ==
    \A was \in Range(a.states), now \in Range(b.states) :
       was.id = now.id =>
          /\ now.keys \subseteq was.keys
          /\ \A k \in now.keys : LayerOf(a, k).input = LayerOf(b, k).input

\* A layer is found by its id.
LEMMA LayerOfId ==
    ASSUME NEW scene, Distinct(scene.layers), NEW j \in DOMAIN scene.layers
    PROVE  LayerOf(scene, scene.layers[j].id) = scene.layers[j]
  BY DEF LayerOf, Distinct, Range

LEMMA SameScene ==
    ASSUME NEW scene, Tidy(scene)
    PROVE  KeysKept(scene, scene)
  BY DEF KeysKept, Tidy, Distinct, Range

\* A list of layers in place of a scene's own: the ids it has mean what they
\* meant, and a new id is above all of the old ones.
SameLayers(old, new) ==
    /\ \A j \in DOMAIN new : new[j].id # 0 =>
          \E i \in DOMAIN old : old[i].id = new[j].id /\ old[i].input = new[j].input
    /\ Distinct(new) \/ \A i \in DOMAIN old : old[i].id \in IdsOf(new)

\* Such a list, canonicalized in place of the scene's own, keeps the keys.
LEMMA LayersReplaced ==
    ASSUME NEW scene \in Scenes, Tidy(scene), NEW new \in Seq(Layers), SameLayers(scene.layers, new)
    PROVE  /\ [scene EXCEPT !.layers = new] \in Scenes
           /\ KeysKept(scene, CanonicalScene([scene EXCEPT !.layers = new]))
<1> DEFINE staged == [scene EXCEPT !.layers = new]
           c == CanonicalScene(staged)
           n == Len(new)
<1>1. /\ scene.layers \in Seq(Layers) /\ scene.states \in Seq(States) /\ scene.steps \in Seq(Nat)
      /\ staged \in Scenes /\ staged.layers = new /\ staged.states = scene.states
  BY DEF Scenes
<1> HIDE DEF staged
<1>2. Numbered(scene.states) = scene.states
  <2>1. Len(scene.states) \in Nat /\ scene.states = [k \in 1..Len(scene.states) |-> scene.states[k]]
    BY <1>1, SequenceOf
  <2>2. Distinct(scene.states)
    BY DEF Tidy
  <2>3. QED
    BY <2>1, <2>2, NumberedDistinct
<1>3. /\ Tidy(c) /\ c.layers = Numbered(new) /\ DOMAIN c.states = DOMAIN scene.states
      /\ \A k \in DOMAIN c.states :
            c.states[k].id = scene.states[k].id /\ c.states[k].keys = scene.states[k].keys \cap IdsOf(c.layers)
  BY <1>1, <1>2, SceneGetsTidy
<1>4. /\ n \in Nat /\ DOMAIN new = 1..n /\ new = [k \in 1..n |-> new[k]]
      /\ \A k \in 1..n : new[k] \in Layers
  BY SequenceOf
<1>5. \A k \in 1..n : new[k].id \in Nat /\ "id" \in DOMAIN new[k]
  BY <1>4 DEF Layers
<1> HIDE DEF n, c
<1>6. /\ DOMAIN c.layers = 1..n
      /\ \A k \in 1..n : ~Unset(new, k) => c.layers[k] = new[k]
      /\ \A k \in 1..n : Unset(new, k) => c.layers[k].id > Top(new)
  <2> DEFINE r == Numbered(new)
  <2>1. r = [k \in 1..n |-> r[k]]
    BY <1>4, <1>5, NumberedFacts
  <2>2. \A k \in 1..n : ~Unset(new, k) => r[k] = new[k]
    BY <1>4, <1>5, NumberedFacts
  <2>3. \A k \in 1..n : Unset(new, k) => r[k].id > Top(new)
    BY <1>4, <1>5, NumberedFacts
  <2> HIDE DEF r
  <2>4. c.layers = r
    BY <1>3 DEF r
  <2>5. QED
    BY <2>1, <2>2, <2>3, <2>4
<1>7. Top(new) \in Nat /\ \A k \in 1..n : new[k].id <= Top(new)
  BY <1>4, <1>5, ListTop
<1>8. ASSUME NEW i \in DOMAIN scene.layers, NEW j \in 1..n, c.layers[j].id = scene.layers[i].id
      PROVE  c.layers[j].input = scene.layers[i].input
  <2>1. scene.layers[i].id \in Nat
    <3>1. scene.layers[i] \in Layers
      BY <1>1
    <3>2. QED
      BY <3>1 DEF Layers
  <2>2. ~Unset(new, j)
    <3>1. CASE Distinct(new)
      <4>1. \A k \in 1..(j - 1) : k \in 1..n /\ k # j
        BY <1>4
      <4>2. QED
        BY <1>4, <3>1, <4>1 DEF Distinct, Unset
    <3>2. CASE scene.layers[i].id \in IdsOf(new)
      <4>1. PICK k \in 1..n : new[k].id = scene.layers[i].id
        BY <1>4, <3>2 DEF IdsOf
      <4>2. scene.layers[i].id <= Top(new)
        BY <1>7, <4>1
      <4>3. Unset(new, j) => scene.layers[i].id > Top(new)
        BY <1>6, <1>8
      <4>4. QED
        BY <1>7, <2>1, <4>2, <4>3
    <3>3. QED
      BY <3>1, <3>2 DEF SameLayers
  <2>3. c.layers[j] = new[j] /\ new[j].id # 0
    BY <1>6, <2>2 DEF Unset
  <2>4. PICK h \in DOMAIN scene.layers : scene.layers[h].id = new[j].id /\ scene.layers[h].input = new[j].input
    BY <1>4, <2>3 DEF SameLayers
  <2>5. h = i
    BY <1>8, <2>3, <2>4 DEF Tidy, Distinct
  <2>6. QED
    BY <2>3, <2>4, <2>5
<1>9. ASSUME NEW k \in DOMAIN scene.states, NEW l \in DOMAIN scene.states,
             scene.states[k].id = c.states[l].id
      PROVE  /\ c.states[l].keys \subseteq scene.states[k].keys
             /\ \A key \in c.states[l].keys : LayerOf(scene, key).input = LayerOf(c, key).input
  <2>1. k = l
    BY <1>3, <1>9 DEF Tidy, Distinct
  <2>2. c.states[l].keys = scene.states[k].keys \cap IdsOf(c.layers)
    BY <1>3, <2>1
  <2>3. ASSUME NEW key \in c.states[l].keys PROVE LayerOf(scene, key).input = LayerOf(c, key).input
    <3>1. PICK j \in 1..n : c.layers[j].id = key
      BY <1>6, <2>2, <2>3 DEF IdsOf
    <3>2. PICK i \in DOMAIN scene.layers : scene.layers[i].id = key
      BY <2>2, <2>3 DEF Tidy, IdsOf
    <3>3. LayerOf(c, key) = c.layers[j]
      BY <1>3, <1>6, <3>1, LayerOfId DEF Tidy
    <3>4. LayerOf(scene, key) = scene.layers[i]
      BY <3>2, LayerOfId DEF Tidy
    <3>5. QED
      BY <1>8, <3>1, <3>2, <3>3, <3>4
  <2>4. QED
    BY <2>2, <2>3
<1>10. KeysKept(scene, c)
  BY <1>3, <1>9 DEF KeysKept, Range
<1>11. QED
  BY <1>1, <1>10 DEF c, staged

\* The step keeps what every state moves.
KeysStep ==
    \A s \in DOMAIN doc.scenes \cap DOMAIN doc'.scenes : KeysKept(doc.scenes[s], doc'.scenes[s])

\* What the invariant says of the parts of the document.
LEMMA DocFacts ==
    ASSUME DocInv
    PROVE  /\ DOMAIN doc = Fields /\ doc.next \in Counters /\ doc.listen \in [kind : {"none", "unit", "input"}, id : Nat]
           /\ doc.inputs \in [DOMAIN doc.inputs -> Inputs]
           /\ doc.scenes \in [DOMAIN doc.scenes -> Scenes]
           /\ doc.units \in [DOMAIN doc.units -> Units]
           /\ \A s \in DOMAIN doc.scenes : Tidy(doc.scenes[s])
           /\ \A i \in DOMAIN doc.inputs : i \in Nat /\ i < doc.next.input
           /\ \A s \in DOMAIN doc.scenes : s \in Nat /\ s < doc.next.scene
           /\ \A u \in DOMAIN doc.units : u \in Nat /\ u < doc.next.unit
           /\ \A o \in doc.overlays : o \in Nat /\ o < doc.next.overlay
           /\ doc.selected \in DOMAIN doc.units
           /\ Canonical(doc) = doc
<1>1. Canonical(doc) = doc
  BY TidyDocumentStays DEF DocInv
<1>2. QED
  BY <1>1 DEF DocInv, IsDocument, TidyDoc, Counted, Fields, Counters

\* An edit that leaves the scenes alone, or takes some away.
LEMMA ScenesStand ==
    ASSUME NEW what, NEW d, DocInv, Staged(d), Commit(what, d),
           \A s \in DOMAIN doc.scenes \cap DOMAIN d.scenes : d.scenes[s] = doc.scenes[s]
    PROVE  DocInv' /\ edit' = what /\ KeysStep
<1>1. /\ DocInv' /\ edit' = what /\ DOMAIN doc'.scenes = DOMAIN d.scenes
      /\ \A s \in DOMAIN d.scenes : doc'.scenes[s] = CanonicalScene(d.scenes[s])
  BY CommitStep
<1>2. ASSUME NEW s \in DOMAIN doc.scenes \cap DOMAIN doc'.scenes PROVE KeysKept(doc.scenes[s], doc'.scenes[s])
  <2>1. doc.scenes[s] \in Scenes /\ Tidy(doc.scenes[s])
    BY DocFacts
  <2>2. doc'.scenes[s] = doc.scenes[s]
    BY <1>1, <2>1, TidySceneStays
  <2>3. QED
    BY <2>1, <2>2, SameScene
<1>3. QED
  BY <1>1, <1>2 DEF KeysStep

\* A new id is at the counter or above it.
LEMMA NextIdFacts ==
    ASSUME NEW S, NEW counter \in Nat, \A m \in S : m \in Nat /\ m < counter, NEW first \in Nat
    PROVE  NextId(counter, S, first) \in Nat /\ counter <= NextId(counter, S, first)
<1>1. S \in SUBSET Nat /\ \A m \in S : m <= counter
  OBVIOUS
<1>2. first - 1 \in Int
  OBVIOUS
<1>3. MaxId(S, first - 1) \in Int
  BY <1>1, <1>2, MaxIdFacts
<1>4. QED
  BY <1>3 DEF NextId, Larger

\* An input, a unit or a scene is put into the document, with the counter above it.
LEMMA InputPut ==
    ASSUME DocInv, NEW id \in Nat, NEW input \in Inputs, NEW n \in Nat, id < n, doc.next.input <= n
    PROVE  LET d == [doc EXCEPT !.inputs = Put(@, id, input), !.next.input = n]
           IN  Staged(d) /\ d.scenes = doc.scenes
<1> DEFINE d == [doc EXCEPT !.inputs = Put(@, id, input), !.next.input = n]
<1>1. /\ DOMAIN d = Fields /\ d.inputs = Put(doc.inputs, id, input) /\ d.next = [doc.next EXCEPT !.input = n]
      /\ d.scenes = doc.scenes /\ d.units = doc.units /\ d.overlays = doc.overlays
      /\ d.listen = doc.listen /\ d.selected = doc.selected
  BY DocFacts DEF Fields
<1> HIDE DEF d
<1>2. /\ d.next \in Counters /\ d.next.input = n /\ d.next.scene = doc.next.scene
      /\ d.next.unit = doc.next.unit /\ d.next.overlay = doc.next.overlay
  BY <1>1, DocFacts DEF Counters
<1>3. doc.next.input \in Nat /\ doc.next.scene \in Nat /\ doc.next.unit \in Nat /\ doc.next.overlay \in Nat
  BY DocFacts DEF Counters
<1>4. DOMAIN d.inputs = DOMAIN doc.inputs \cup {id} /\ d.inputs \in [DOMAIN d.inputs -> Inputs]
  BY <1>1, DocFacts DEF Put
<1>5. \A i \in DOMAIN d.inputs : i \in Nat /\ i < d.next.input
  BY <1>2, <1>3, <1>4, DocFacts
<1>6. Staged(d)
  <2>1. IsDocument(d)
    BY <1>1, <1>2, <1>3, <1>4, <1>5, DocFacts DEF IsDocument, Fields, Counters
  <2>2. Counted(d)
    BY <1>1, <1>2, <1>3, <1>4, <1>5, DocFacts DEF Counted
  <2>3. d.selected \in DOMAIN d.units
    BY <1>1, <1>2, <1>3, <1>4, <1>5, DocFacts
  <2>4. \A kind \in Kinds : doc.next[kind] <= d.next[kind]
    <3>1. /\ doc.next.input <= d.next.input /\ doc.next.scene <= d.next.scene
          /\ doc.next.unit <= d.next.unit /\ doc.next.overlay <= d.next.overlay
      BY <1>2, <1>3
    <3>2. QED
      BY <3>1 DEF Kinds
  <2>5. QED
    BY <2>1, <2>2, <2>3, <2>4 DEF Staged
<1>7. QED
  BY <1>1, <1>6 DEF d

LEMMA UnitPut ==
    ASSUME DocInv, NEW id \in Nat, NEW unit \in Units, NEW n \in Nat, id < n, doc.next.unit <= n
    PROVE  LET d == [doc EXCEPT !.units = Put(@, id, unit), !.next.unit = n]
           IN  Staged(d) /\ d.scenes = doc.scenes
<1> DEFINE d == [doc EXCEPT !.units = Put(@, id, unit), !.next.unit = n]
<1>1. /\ DOMAIN d = Fields /\ d.units = Put(doc.units, id, unit) /\ d.next = [doc.next EXCEPT !.unit = n]
      /\ d.scenes = doc.scenes /\ d.inputs = doc.inputs /\ d.overlays = doc.overlays
      /\ d.listen = doc.listen /\ d.selected = doc.selected
  BY DocFacts DEF Fields
<1> HIDE DEF d
<1>2. /\ d.next \in Counters /\ d.next.unit = n /\ d.next.scene = doc.next.scene
      /\ d.next.input = doc.next.input /\ d.next.overlay = doc.next.overlay
  BY <1>1, DocFacts DEF Counters
<1>3. doc.next.input \in Nat /\ doc.next.scene \in Nat /\ doc.next.unit \in Nat /\ doc.next.overlay \in Nat
  BY DocFacts DEF Counters
<1>4. DOMAIN d.units = DOMAIN doc.units \cup {id} /\ d.units \in [DOMAIN d.units -> Units]
  BY <1>1, DocFacts DEF Put
<1>5. \A i \in DOMAIN d.units : i \in Nat /\ i < d.next.unit
  BY <1>2, <1>3, <1>4, DocFacts
<1>6. d.selected \in DOMAIN d.units
  BY <1>1, <1>4, DocFacts
<1>7. Staged(d)
  <2>1. IsDocument(d)
    BY <1>1, <1>2, <1>3, <1>4, <1>5, <1>6, DocFacts DEF IsDocument, Fields, Counters
  <2>2. Counted(d)
    BY <1>1, <1>2, <1>3, <1>4, <1>5, <1>6, DocFacts DEF Counted
  <2>3. d.selected \in DOMAIN d.units
    BY <1>1, <1>2, <1>3, <1>4, <1>5, <1>6, DocFacts
  <2>4. \A kind \in Kinds : doc.next[kind] <= d.next[kind]
    <3>1. /\ doc.next.input <= d.next.input /\ doc.next.scene <= d.next.scene
          /\ doc.next.unit <= d.next.unit /\ doc.next.overlay <= d.next.overlay
      BY <1>2, <1>3
    <3>2. QED
      BY <3>1 DEF Kinds
  <2>5. QED
    BY <2>1, <2>2, <2>3, <2>4 DEF Staged
<1>8. QED
  BY <1>1, <1>7 DEF d

LEMMA ScenePut ==
    ASSUME DocInv, NEW id \in Nat, NEW scene \in Scenes, NEW n \in Nat, id < n, doc.next.scene <= n
    PROVE  LET d == [doc EXCEPT !.scenes = Put(@, id, scene), !.next.scene = n]
           IN  /\ Staged(d)
               /\ id \notin DOMAIN doc.scenes => \A s \in DOMAIN doc.scenes : d.scenes[s] = doc.scenes[s]
<1> DEFINE d == [doc EXCEPT !.scenes = Put(@, id, scene), !.next.scene = n]
<1>1. /\ DOMAIN d = Fields /\ d.scenes = Put(doc.scenes, id, scene) /\ d.next = [doc.next EXCEPT !.scene = n]
      /\ d.inputs = doc.inputs /\ d.units = doc.units /\ d.overlays = doc.overlays
      /\ d.listen = doc.listen /\ d.selected = doc.selected
  BY DocFacts DEF Fields
<1> HIDE DEF d
<1>2. /\ d.next \in Counters /\ d.next.scene = n /\ d.next.input = doc.next.input
      /\ d.next.unit = doc.next.unit /\ d.next.overlay = doc.next.overlay
  BY <1>1, DocFacts DEF Counters
<1>3. doc.next.input \in Nat /\ doc.next.scene \in Nat /\ doc.next.unit \in Nat /\ doc.next.overlay \in Nat
  BY DocFacts DEF Counters
<1>4. DOMAIN d.scenes = DOMAIN doc.scenes \cup {id} /\ d.scenes \in [DOMAIN d.scenes -> Scenes]
  BY <1>1, DocFacts DEF Put
<1>5. \A i \in DOMAIN d.scenes : i \in Nat /\ i < d.next.scene
  BY <1>2, <1>3, <1>4, DocFacts
<1>6. Staged(d)
  <2>1. IsDocument(d)
    BY <1>1, <1>2, <1>3, <1>4, <1>5, DocFacts DEF IsDocument, Fields, Counters
  <2>2. Counted(d)
    BY <1>1, <1>2, <1>3, <1>4, <1>5, DocFacts DEF Counted
  <2>3. d.selected \in DOMAIN d.units
    BY <1>1, <1>2, <1>3, <1>4, <1>5, DocFacts
  <2>4. \A kind \in Kinds : doc.next[kind] <= d.next[kind]
    <3>1. /\ doc.next.input <= d.next.input /\ doc.next.scene <= d.next.scene
          /\ doc.next.unit <= d.next.unit /\ doc.next.overlay <= d.next.overlay
      BY <1>2, <1>3
    <3>2. QED
      BY <3>1 DEF Kinds
  <2>5. QED
    BY <2>1, <2>2, <2>3, <2>4 DEF Staged
<1>7. id \notin DOMAIN doc.scenes => \A s \in DOMAIN doc.scenes : d.scenes[s] = doc.scenes[s]
  BY <1>1 DEF Put
<1>8. QED
  BY <1>6, <1>7 DEF d

\* An edit of the layers of some scenes.
LEMMA LayersStep ==
    ASSUME NEW what, NEW d, DocInv, Staged(d), Commit(what, d),
           \A s \in DOMAIN doc.scenes \cap DOMAIN d.scenes :
              /\ d.scenes[s].layers \in Seq(Layers)
              /\ SameLayers(doc.scenes[s].layers, d.scenes[s].layers)
              /\ d.scenes[s] = [doc.scenes[s] EXCEPT !.layers = d.scenes[s].layers]
    PROVE  KeysStep
<1>1. /\ DOMAIN doc'.scenes = DOMAIN d.scenes
      /\ \A s \in DOMAIN d.scenes : doc'.scenes[s] = CanonicalScene(d.scenes[s])
  BY CommitStep
<1>2. ASSUME NEW s \in DOMAIN doc.scenes \cap DOMAIN doc'.scenes PROVE KeysKept(doc.scenes[s], doc'.scenes[s])
  <2>1. doc.scenes[s] \in Scenes /\ Tidy(doc.scenes[s])
    BY DocFacts
  <2> DEFINE L == d.scenes[s].layers
  <2>2. s \in DOMAIN doc.scenes \cap DOMAIN d.scenes
    BY <1>1
  <2>3. L \in Seq(Layers) /\ SameLayers(doc.scenes[s].layers, L) /\ d.scenes[s] = [doc.scenes[s] EXCEPT !.layers = L]
    BY <2>2
  <2> HIDE DEF L
  <2>4. KeysKept(doc.scenes[s], CanonicalScene([doc.scenes[s] EXCEPT !.layers = L]))
    BY <2>1, <2>3, LayersReplaced
  <2>5. doc'.scenes[s] = CanonicalScene([doc.scenes[s] EXCEPT !.layers = L])
    BY <1>1, <2>2, <2>3
  <2>6. QED
    BY <2>4, <2>5
<1>3. QED
  BY <1>2 DEF KeysStep

\* The same for the layers of one scene (SetSceneLayers).
LEMMA SetLayers ==
    ASSUME DocInv, NEW op, NEW s0 \in DOMAIN doc.scenes, NEW L \in Seq(Layers), SetSceneLayers(op, s0, L)
    PROVE  DocInv' /\ edit' = Other(op) /\ (SameLayers(doc.scenes[s0].layers, L) => KeysStep)
<1> DEFINE d == [doc EXCEPT !.scenes[s0].layers = L]
           scene == [doc.scenes[s0] EXCEPT !.layers = L]
<1>1. /\ DOMAIN d = Fields /\ d.scenes = [doc.scenes EXCEPT ![s0] = scene]
      /\ d.next = doc.next /\ d.inputs = doc.inputs /\ d.units = doc.units /\ d.overlays = doc.overlays
      /\ d.listen = doc.listen /\ d.selected = doc.selected
  BY DocFacts DEF Fields
<1>2. Commit(Other(op), d)
  BY DEF SetSceneLayers
<1> HIDE DEF d
<1>3. doc.next.input \in Nat /\ doc.next.scene \in Nat /\ doc.next.unit \in Nat /\ doc.next.overlay \in Nat
  BY DocFacts DEF Counters
<1>4. doc.scenes[s0] \in Scenes /\ Tidy(doc.scenes[s0])
  BY DocFacts
<1>5. scene \in Scenes /\ scene.layers = L
  BY <1>4 DEF Scenes
<1>6. /\ DOMAIN d.scenes = DOMAIN doc.scenes /\ d.scenes[s0] = scene
      /\ \A s \in DOMAIN doc.scenes : s # s0 => d.scenes[s] = doc.scenes[s]
  <2> HIDE DEF scene
  <2> QED BY <1>1, DocFacts
<1>7. d.scenes \in [DOMAIN d.scenes -> Scenes]
  <2> HIDE DEF scene
  <2> QED BY <1>1, <1>5, <1>6, DocFacts
<1>8. Staged(d)
  <2> HIDE DEF scene
  <2>1. IsDocument(d)
    BY <1>1, <1>7, DocFacts DEF IsDocument, Fields, Counters
  <2>2. Counted(d)
    BY <1>1, <1>6, DocFacts DEF Counted
  <2>3. d.selected \in DOMAIN d.units
    BY <1>1, DocFacts
  <2>4. \A kind \in Kinds : doc.next[kind] <= d.next[kind]
    BY <1>1, <1>3 DEF Kinds
  <2>5. QED
    BY <2>1, <2>2, <2>3, <2>4 DEF Staged
<1>9. DocInv' /\ edit' = Other(op)
  BY <1>2, <1>8, CommitStep
<1>10. ASSUME SameLayers(doc.scenes[s0].layers, L) PROVE KeysStep
  <2>1. /\ DOMAIN doc'.scenes = DOMAIN d.scenes
        /\ \A s \in DOMAIN d.scenes : doc'.scenes[s] = CanonicalScene(d.scenes[s])
    BY <1>2, <1>8, CommitStep
  <2>2. KeysKept(doc.scenes[s0], CanonicalScene(scene))
    BY <1>4, <1>10, LayersReplaced
  <2> HIDE DEF scene
  <2>3. ASSUME NEW s \in DOMAIN doc.scenes, s # s0 PROVE KeysKept(doc.scenes[s], CanonicalScene(d.scenes[s]))
    <3>1. doc.scenes[s] \in Scenes /\ Tidy(doc.scenes[s])
      BY DocFacts
    <3>2. CanonicalScene(d.scenes[s]) = doc.scenes[s]
      BY <1>6, <2>3, <3>1, TidySceneStays
    <3>3. QED
      BY <3>1, <3>2, SameScene
  <2>4. QED
    BY <1>6, <2>1, <2>2, <2>3 DEF KeysStep
<1>11. QED
  BY <1>9, <1>10

\* The layers of a scene before an edit.
LEMMA LayersOf ==
    ASSUME DocInv, NEW s \in DOMAIN doc.scenes
    PROVE  doc.scenes[s].layers \in Seq(Layers) /\ Distinct(doc.scenes[s].layers)
<1>1. doc.scenes[s] \in Scenes /\ Tidy(doc.scenes[s])
  BY DocFacts
<1>2. QED
  BY <1>1 DEF Scenes, Tidy

\* One layer less.
LEMMA WithoutFacts ==
    ASSUME NEW list \in Seq(Layers), Distinct(list), NEW k \in DOMAIN list
    PROVE  /\ Without(list, k) \in Seq(Layers) /\ Distinct(Without(list, k))
           /\ \A m \in DOMAIN Without(list, k) : \E j \in DOMAIN list \ {k} : Without(list, k)[m] = list[j]
<1> DEFINE P == DOMAIN list \ {k}
<1>1. P \in SUBSET (DOMAIN list)
  OBVIOUS
<1> HIDE DEF P
<1>2. /\ Picked(list, P) \in Seq(Layers) /\ Distinct(Picked(list, P))
      /\ \A m \in DOMAIN Picked(list, P) : \E j \in P : Picked(list, P)[m] = list[j]
  BY <1>1, PickedList
<1>3. QED
  BY <1>2 DEF Without, P

\* The edits of layers.
LEMMA AddLayerStep ==
    ASSUME DocInv, NEW s \in DOMAIN doc.scenes, NEW i \in DOMAIN doc.inputs, AddLayer(s, i)
    PROVE  DocInv' /\ edit' = Other("layer") /\ KeysStep
<1> DEFINE list == doc.scenes[s].layers
           l == [id |-> 0, input |-> i, shown |-> 1]
           L == Append(list, l)
<1>1. list \in Seq(Layers) /\ Distinct(list)
  BY LayersOf
<1>2. i \in Nat
  BY DocFacts
<1>3. l \in Layers /\ l.id = 0
  BY <1>2 DEF Layers
<1>4. SetSceneLayers("layer", s, L)
  BY DEF AddLayer
<1> HIDE DEF list, l
<1>5. /\ L \in Seq(Layers) /\ DOMAIN L = DOMAIN list \cup {Len(list) + 1}
      /\ L[Len(list) + 1] = l /\ \A j \in DOMAIN list : L[j] = list[j]
  BY <1>1, <1>3
<1> HIDE DEF L
<1>6. SameLayers(list, L)
  <2>1. \A j \in DOMAIN L : L[j].id # 0 => j \in DOMAIN list
    BY <1>3, <1>5
  <2>2. \A j \in DOMAIN list : list[j].id \in IdsOf(L)
    BY <1>5 DEF IdsOf
  <2>3. QED
    BY <1>5, <2>1, <2>2 DEF SameLayers
<1>7. QED
  BY <1>4, <1>5, <1>6, SetLayers DEF list

LEMMA DeleteLayerStep ==
    ASSUME DocInv, NEW s \in DOMAIN doc.scenes, NEW k \in LayersNow(s), DeleteLayer(s, k)
    PROVE  DocInv' /\ edit' = Other("layer") /\ KeysStep
<1> DEFINE list == doc.scenes[s].layers
           L == Without(list, k)
<1>1. list \in Seq(Layers) /\ Distinct(list) /\ k \in DOMAIN list
  BY LayersOf DEF LayersNow
<1>2. SetSceneLayers("layer", s, L)
  BY DEF DeleteLayer
<1> HIDE DEF list
<1>3. /\ L \in Seq(Layers) /\ Distinct(L)
      /\ \A m \in DOMAIN L : \E j \in DOMAIN list \ {k} : L[m] = list[j]
  BY <1>1, WithoutFacts
<1> HIDE DEF L
<1>4. SameLayers(list, L)
  BY <1>3 DEF SameLayers
<1>5. QED
  BY <1>2, <1>3, <1>4, SetLayers DEF list

LEMMA MoveLayerStep ==
    ASSUME DocInv, NEW s \in DOMAIN doc.scenes, NEW k \in LayersNow(s), MoveLayer(s, k)
    PROVE  DocInv' /\ edit' = Other("layer") /\ KeysStep
<1> DEFINE list == doc.scenes[s].layers
           W == Without(list, k)
           L == Append(W, list[k])
<1>1. list \in Seq(Layers) /\ Distinct(list) /\ k \in DOMAIN list
  BY LayersOf DEF LayersNow
<1>2. SetSceneLayers("layer", s, L)
  BY DEF MoveLayer
<1> HIDE DEF list
<1>3. /\ W \in Seq(Layers) /\ Distinct(W)
      /\ \A m \in DOMAIN W : \E j \in DOMAIN list \ {k} : W[m] = list[j]
  BY <1>1, WithoutFacts
<1> HIDE DEF W
<1>4. list[k] \in Layers
  BY <1>1
<1>5. /\ L \in Seq(Layers) /\ DOMAIN L = DOMAIN W \cup {Len(W) + 1} /\ Len(W) + 1 \notin DOMAIN W
      /\ L[Len(W) + 1] = list[k] /\ \A j \in DOMAIN W : L[j] = W[j]
  BY <1>3, <1>4
<1> HIDE DEF L
<1>6. \A m \in DOMAIN W : W[m].id # list[k].id
  BY <1>1, <1>3 DEF Distinct
<1>7. Distinct(L)
  BY <1>1, <1>3, <1>5, <1>6 DEF Distinct
<1>8. \A j \in DOMAIN L : \E i \in DOMAIN list : L[j] = list[i]
  BY <1>1, <1>3, <1>5
<1>9. SameLayers(list, L)
  BY <1>7, <1>8 DEF SameLayers
<1>10. QED
  BY <1>2, <1>5, <1>9, SetLayers DEF list

LEMMA ReplaceLayersStep ==
    ASSUME DocInv, NEW s \in DOMAIN doc.scenes, NEW i \in DOMAIN doc.inputs, ReplaceLayers(s, <<i>>)
    PROVE  DocInv' /\ edit' = Other("replace")
<1> DEFINE L == [k \in DOMAIN <<i>> |-> [id |-> 0, input |-> <<i>>[k], shown |-> 1]]
<1>1. i \in Nat
  BY DocFacts
<1>2. SetSceneLayers("replace", s, L)
  BY DEF ReplaceLayers
<1>3. DOMAIN <<i>> = 1..1 /\ \A k \in 1..1 : <<i>>[k] = i
  OBVIOUS
<1>4. L = [k \in 1..1 |-> L[k]] /\ \A k \in 1..1 : L[k] \in Layers
  BY <1>1, <1>3 DEF Layers
<1> HIDE DEF L
<1>5. L \in Seq(Layers)
  BY <1>4, IsSequence
<1>6. QED
  BY <1>2, <1>5, SetLayers

LEMMA FadeLayerStep ==
    ASSUME DocInv, NEW s \in DOMAIN doc.scenes, NEW k \in LayersNow(s), FadeLayer(s, k)
    PROVE  DocInv' /\ edit' = Other("fade") /\ KeysStep
<1> DEFINE list == doc.scenes[s].layers
           L == [list EXCEPT ![k].shown = 0]
<1>1. list \in Seq(Layers) /\ Distinct(list) /\ k \in DOMAIN list
  BY LayersOf DEF LayersNow
<1>2. SetSceneLayers("fade", s, L)
  BY DEF FadeLayer
<1> HIDE DEF list
<1>3. /\ Len(list) \in Nat /\ DOMAIN list = 1..Len(list) /\ \A j \in 1..Len(list) : list[j] \in Layers
  BY <1>1, SequenceOf
<1>4. /\ L = [j \in 1..Len(list) |-> L[j]] /\ \A j \in 1..Len(list) : j # k => L[j] = list[j]
      /\ L[k] = [list[k] EXCEPT !.shown = 0]
  BY <1>1, <1>3
<1> HIDE DEF L
<1>5. \A j \in 1..Len(list) : L[j] \in Layers /\ L[j].id = list[j].id /\ L[j].input = list[j].input
  <2>1. TAKE j \in 1..Len(list)
  <2>2. CASE j = k
    <3>1. list[k] \in Layers
      BY <1>1, <1>3
    <3>2. QED
      BY <1>4, <2>2, <3>1 DEF Layers
  <2>3. CASE j # k
    BY <1>3, <1>4, <2>3
  <2>4. QED
    BY <2>2, <2>3
<1>6. L \in Seq(Layers) /\ DOMAIN L = DOMAIN list
  BY <1>3, <1>4, <1>5, IsSequence
<1>7. SameLayers(list, L)
  BY <1>1, <1>3, <1>5, <1>6 DEF SameLayers, Distinct
<1>8. QED
  BY <1>2, <1>6, <1>7, SetLayers DEF list

\* An id that is handed out was never in the document.
FreshStep == edit'.op = "create" => edit'.id \notin used[edit'.kind]

\* What is at the counter or above it was never in the document.
LEMMA AboveIsFresh ==
    ASSUME DocInv, NEW kind \in Kinds, NEW id \in Nat, doc.next[kind] <= id
    PROVE  id \notin used[kind]
<1>1. doc.next[kind] \in Nat
  BY DocFacts DEF Kinds, Counters
<1>2. \A n \in used[kind] : n \in Nat /\ n < doc.next[kind]
  BY DEF DocInv
<1>3. QED
  BY <1>1, <1>2

\* The edits that hand out an id.
LEMMA CreateInputStep ==
    ASSUME DocInv, NEW input \in Inputs, CreateInput(input)
    PROVE  DocInv' /\ KeysStep /\ FreshStep
<1> DEFINE id == NextId(doc.next.input, DOMAIN doc.inputs, FirstInput)
           what == [op |-> "create", kind |-> "input", id |-> id]
           d == [doc EXCEPT !.inputs = Put(@, id, input), !.next.input = id + 1]
<1>1. Commit(what, d)
  BY DEF CreateInput
<1>2. id \in Nat /\ doc.next.input <= id /\ doc.next.input \in Nat
  BY DocFacts, NextIdFacts DEF Counters, FirstInput
<1> HIDE DEF id
<1>3. id + 1 \in Nat /\ id < id + 1 /\ doc.next.input <= id + 1
  BY <1>2
<1>4. Staged(d) /\ d.scenes = doc.scenes
  BY <1>2, <1>3, InputPut
<1>5. id \notin used["input"]
  BY <1>2, AboveIsFresh DEF Kinds
<1> HIDE DEF d
<1>6. DocInv' /\ edit' = what /\ KeysStep
  BY <1>1, <1>4, ScenesStand
<1>7. QED
  BY <1>5, <1>6 DEF FreshStep

LEMMA CreateSceneStep ==
    ASSUME DocInv, NEW scene \in Scenes, CreateScene(scene)
    PROVE  DocInv' /\ KeysStep /\ FreshStep
<1> DEFINE id == NextId(doc.next.scene, DOMAIN doc.scenes, 1)
           what == [op |-> "create", kind |-> "scene", id |-> id]
           d == [doc EXCEPT !.scenes = Put(@, id, scene), !.next.scene = id + 1]
<1>1. Commit(what, d)
  BY DEF CreateScene
<1>2. id \in Nat /\ doc.next.scene <= id /\ doc.next.scene \in Nat
  BY DocFacts, NextIdFacts DEF Counters
<1> HIDE DEF id
<1>3. id + 1 \in Nat /\ id < id + 1 /\ doc.next.scene <= id + 1
  BY <1>2
<1>4. id \notin DOMAIN doc.scenes
  BY <1>2, DocFacts
<1>5. Staged(d) /\ \A s \in DOMAIN doc.scenes : d.scenes[s] = doc.scenes[s]
  BY <1>2, <1>3, <1>4, ScenePut
<1>6. id \notin used["scene"]
  BY <1>2, AboveIsFresh DEF Kinds
<1> HIDE DEF d
<1>7. DocInv' /\ edit' = what /\ KeysStep
  BY <1>1, <1>5, ScenesStand
<1>8. QED
  BY <1>6, <1>7 DEF FreshStep

LEMMA CreateUnitStep ==
    ASSUME DocInv, NEW unit \in Units, CreateUnit(unit)
    PROVE  DocInv' /\ KeysStep /\ FreshStep
<1> DEFINE id == NextId(doc.next.unit, DOMAIN doc.units, 1)
           what == [op |-> "create", kind |-> "unit", id |-> id]
           d == [doc EXCEPT !.units = Put(@, id, unit), !.next.unit = id + 1]
<1>1. Commit(what, d)
  BY DEF CreateUnit
<1>2. id \in Nat /\ doc.next.unit <= id /\ doc.next.unit \in Nat
  BY DocFacts, NextIdFacts DEF Counters
<1> HIDE DEF id
<1>3. id + 1 \in Nat /\ id < id + 1 /\ doc.next.unit <= id + 1
  BY <1>2
<1>4. Staged(d) /\ d.scenes = doc.scenes
  BY <1>2, <1>3, UnitPut
<1>5. id \notin used["unit"]
  BY <1>2, AboveIsFresh DEF Kinds
<1> HIDE DEF d
<1>6. DocInv' /\ edit' = what /\ KeysStep
  BY <1>1, <1>4, ScenesStand
<1>7. QED
  BY <1>5, <1>6 DEF FreshStep

\* The counter after a client named the id.
LEMMA RaisedFacts ==
    ASSUME NEW S, NEW counter \in Nat, \A m \in S : m \in Nat /\ m < counter, NEW id \in Nat
    PROVE  LET n == Raised(counter, id \in S, id) IN n \in Nat /\ id < n /\ counter <= n
  BY DEF Raised, Larger

\* The edits with an id of the client's.
LEMMA UpsertInputStep ==
    ASSUME DocInv, NEW id \in Nat, NEW input \in Inputs, UpsertInput(id, input)
    PROVE  DocInv' /\ edit' = Other("upsert")
<1> DEFINE n == Raised(doc.next.input, id \in DOMAIN doc.inputs, id)
           d == [doc EXCEPT !.inputs = Put(@, id, input), !.next.input = n]
<1>1. doc.next.input \in Nat /\ \A m \in DOMAIN doc.inputs : m \in Nat /\ m < doc.next.input
  BY DocFacts DEF Counters
<1>2. n \in Nat /\ id < n /\ doc.next.input <= n
  BY <1>1, RaisedFacts
<1>3. Commit(Other("upsert"), d)
  BY DocFacts DEF UpsertInput, Fields, Counters
<1> HIDE DEF n
<1>4. Staged(d)
  BY <1>2, InputPut
<1> HIDE DEF d
<1>5. QED
  BY <1>3, <1>4, CommitStep

LEMMA UpsertSceneStep ==
    ASSUME DocInv, NEW id \in Nat, NEW scene \in Scenes, UpsertScene(id, scene)
    PROVE  DocInv' /\ edit' = Other("upsert")
<1> DEFINE n == Raised(doc.next.scene, id \in DOMAIN doc.scenes, id)
           d == [doc EXCEPT !.scenes = Put(@, id, scene), !.next.scene = n]
<1>1. doc.next.scene \in Nat /\ \A m \in DOMAIN doc.scenes : m \in Nat /\ m < doc.next.scene
  BY DocFacts DEF Counters
<1>2. n \in Nat /\ id < n /\ doc.next.scene <= n
  BY <1>1, RaisedFacts
<1>3. Commit(Other("upsert"), d)
  BY DocFacts DEF UpsertScene, Fields, Counters
<1> HIDE DEF n
<1>4. Staged(d)
  BY <1>2, ScenePut
<1> HIDE DEF d
<1>5. QED
  BY <1>3, <1>4, CommitStep

LEMMA UpsertUnitStep ==
    ASSUME DocInv, NEW id \in Nat, NEW unit \in Units, UpsertUnit(id, unit)
    PROVE  DocInv' /\ edit' = Other("upsert")
<1> DEFINE n == Raised(doc.next.unit, id \in DOMAIN doc.units, id)
           d == [doc EXCEPT !.units = Put(@, id, unit), !.next.unit = n]
<1>1. doc.next.unit \in Nat /\ \A m \in DOMAIN doc.units : m \in Nat /\ m < doc.next.unit
  BY DocFacts DEF Counters
<1>2. n \in Nat /\ id < n /\ doc.next.unit <= n
  BY <1>1, RaisedFacts
<1>3. Commit(Other("upsert"), d)
  BY DocFacts DEF UpsertUnit, Fields, Counters
<1> HIDE DEF n
<1>4. Staged(d)
  BY <1>2, UnitPut
<1> HIDE DEF d
<1>5. QED
  BY <1>3, <1>4, CommitStep

\* The edits that delete.
LEMMA DeleteInputStep ==
    ASSUME DocInv, NEW id, DeleteInput(id)
    PROVE  DocInv' /\ edit' = Other("delete") /\ KeysStep
<1> DEFINE Shown(layers) == Picked(layers, {k \in DOMAIN layers : layers[k].input # id})
           Rest(scene) == [scene EXCEPT !.layers = Shown(scene.layers)]
           d == [doc EXCEPT !.inputs = Drop(@, id), !.scenes = [s \in DOMAIN @ |-> Rest(@[s])]]
<1>1. Commit(Other("delete"), d)
  BY DEF DeleteInput
<1>2. /\ DOMAIN d = Fields /\ d.scenes = [s \in DOMAIN doc.scenes |-> Rest(doc.scenes[s])]
      /\ d.inputs = Drop(doc.inputs, id) /\ d.next = doc.next /\ d.units = doc.units
      /\ d.overlays = doc.overlays /\ d.listen = doc.listen /\ d.selected = doc.selected
  <2> HIDE DEF Rest
  <2> QED BY DocFacts DEF Fields
<1>3. doc.next.input \in Nat /\ doc.next.scene \in Nat /\ doc.next.unit \in Nat /\ doc.next.overlay \in Nat
  BY DocFacts DEF Counters
<1> HIDE DEF d
<1>4. ASSUME NEW s \in DOMAIN doc.scenes
      PROVE  /\ Shown(doc.scenes[s].layers) \in Seq(Layers)
             /\ SameLayers(doc.scenes[s].layers, Shown(doc.scenes[s].layers))
             /\ Rest(doc.scenes[s]) \in Scenes
             /\ Rest(doc.scenes[s]).layers = Shown(doc.scenes[s].layers)
  <2> DEFINE list == doc.scenes[s].layers
             P == {k \in DOMAIN list : list[k].input # id}
             L == Picked(list, P)
  <2>1. list \in Seq(Layers) /\ Distinct(list) /\ doc.scenes[s] \in Scenes
    BY LayersOf, DocFacts
  <2>2. P \in SUBSET (DOMAIN list)
    OBVIOUS
  <2>3. Shown(list) = L /\ Rest(doc.scenes[s]) = [doc.scenes[s] EXCEPT !.layers = L]
    OBVIOUS
  <2> HIDE DEF list, P, Shown, Rest
  <2>4. L \in Seq(Layers) /\ Distinct(L) /\ \A m \in DOMAIN L : \E k \in P : L[m] = list[k]
    BY <2>1, <2>2, PickedList
  <2> HIDE DEF L
  <2>5. \A m \in DOMAIN L : \E k \in DOMAIN list : L[m] = list[k]
    BY <2>2, <2>4
  <2>6. SameLayers(list, L)
    BY <2>4, <2>5 DEF SameLayers
  <2>7. [doc.scenes[s] EXCEPT !.layers = L] \in Scenes /\ [doc.scenes[s] EXCEPT !.layers = L].layers = L
    BY <2>1, <2>4 DEF Scenes
  <2>8. QED
    BY <2>3, <2>4, <2>6, <2>7 DEF list
<1>5. \A s \in DOMAIN doc.scenes : Rest(doc.scenes[s]) = [doc.scenes[s] EXCEPT !.layers = Shown(doc.scenes[s].layers)]
  OBVIOUS
<1> HIDE DEF Shown, Rest
<1>6. /\ DOMAIN d.scenes = DOMAIN doc.scenes /\ d.scenes \in [DOMAIN d.scenes -> Scenes]
      /\ \A s \in DOMAIN d.scenes : d.scenes[s] = Rest(doc.scenes[s])
  BY <1>2, <1>4
<1>7. /\ DOMAIN d.inputs \subseteq DOMAIN doc.inputs /\ d.inputs \in [DOMAIN d.inputs -> Inputs]
  BY <1>2, DocFacts DEF Drop
<1>8. Staged(d)
  <2>1. IsDocument(d)
    BY <1>2, <1>6, <1>7, DocFacts DEF IsDocument, Fields, Counters
  <2>2. Counted(d)
    BY <1>2, <1>6, <1>7, DocFacts DEF Counted
  <2>3. d.selected \in DOMAIN d.units
    BY <1>2, DocFacts
  <2>4. \A kind \in Kinds : doc.next[kind] <= d.next[kind]
    BY <1>2, <1>3 DEF Kinds
  <2>5. QED
    BY <2>1, <2>2, <2>3, <2>4 DEF Staged
<1>9. \A s \in DOMAIN doc.scenes \cap DOMAIN d.scenes :
         /\ d.scenes[s].layers \in Seq(Layers)
         /\ SameLayers(doc.scenes[s].layers, d.scenes[s].layers)
         /\ d.scenes[s] = [doc.scenes[s] EXCEPT !.layers = d.scenes[s].layers]
  BY <1>4, <1>5, <1>6
<1>10. QED
  BY <1>1, <1>8, <1>9, CommitStep, LayersStep

LEMMA DeleteSceneStep ==
    ASSUME DocInv, NEW id, DeleteScene(id)
    PROVE  DocInv' /\ edit' = Other("delete") /\ KeysStep
<1> DEFINE d == [doc EXCEPT !.scenes = Drop(@, id)]
<1>1. Commit(Other("delete"), d)
  BY DEF DeleteScene
<1>2. /\ DOMAIN d = Fields /\ d.scenes = Drop(doc.scenes, id)
      /\ d.inputs = doc.inputs /\ d.next = doc.next /\ d.units = doc.units
      /\ d.overlays = doc.overlays /\ d.listen = doc.listen /\ d.selected = doc.selected
  BY DocFacts DEF Fields
<1>3. doc.next.input \in Nat /\ doc.next.scene \in Nat /\ doc.next.unit \in Nat /\ doc.next.overlay \in Nat
  BY DocFacts DEF Counters
<1> HIDE DEF d
<1>4. /\ DOMAIN d.scenes \subseteq DOMAIN doc.scenes /\ d.scenes \in [DOMAIN d.scenes -> Scenes]
      /\ \A s \in DOMAIN d.scenes : d.scenes[s] = doc.scenes[s]
  BY <1>2, DocFacts DEF Drop
<1>5. Staged(d)
  <2>1. IsDocument(d)
    BY <1>2, <1>4, DocFacts DEF IsDocument, Fields, Counters
  <2>2. Counted(d)
    BY <1>2, <1>4, DocFacts DEF Counted
  <2>3. d.selected \in DOMAIN d.units
    BY <1>2, DocFacts
  <2>4. \A kind \in Kinds : doc.next[kind] <= d.next[kind]
    BY <1>2, <1>3 DEF Kinds
  <2>5. QED
    BY <2>1, <2>2, <2>3, <2>4 DEF Staged
<1>6. QED
  BY <1>1, <1>4, <1>5, ScenesStand

LEMMA DeleteUnitStep ==
    ASSUME DocInv, NEW id, DeleteUnit(id)
    PROVE  DocInv' /\ edit' = Other("delete") /\ KeysStep
<1>1. PICK first \in DOMAIN doc.units \ {id} :
         Commit(Other("delete"), [doc EXCEPT !.units = Drop(@, id), !.selected = IF @ = id THEN first ELSE @])
  BY DEF DeleteUnit
<1> DEFINE d == [doc EXCEPT !.units = Drop(@, id), !.selected = IF @ = id THEN first ELSE @]
<1>2. /\ DOMAIN d = Fields /\ d.units = Drop(doc.units, id)
      /\ d.selected = (IF doc.selected = id THEN first ELSE doc.selected)
      /\ d.inputs = doc.inputs /\ d.next = doc.next /\ d.scenes = doc.scenes
      /\ d.overlays = doc.overlays /\ d.listen = doc.listen
  BY DocFacts DEF Fields
<1>3. doc.next.input \in Nat /\ doc.next.scene \in Nat /\ doc.next.unit \in Nat /\ doc.next.overlay \in Nat
  BY DocFacts DEF Counters
<1> HIDE DEF d
<1>4. /\ DOMAIN d.units = DOMAIN doc.units \ {id} /\ d.units \in [DOMAIN d.units -> Units]
  BY <1>2, DocFacts DEF Drop
<1>5. Staged(d)
  <2>1. IsDocument(d)
    BY <1>2, <1>4, DocFacts DEF IsDocument, Fields, Counters
  <2>2. Counted(d)
    BY <1>2, <1>4, DocFacts DEF Counted
  <2>3. d.selected \in DOMAIN d.units
    BY <1>1, <1>2, <1>4, DocFacts
  <2>4. \A kind \in Kinds : doc.next[kind] <= d.next[kind]
    BY <1>2, <1>3 DEF Kinds
  <2>5. QED
    BY <2>1, <2>2, <2>3, <2>4 DEF Staged
<1>6. Commit(Other("delete"), d)
  BY <1>1 DEF d
<1>7. QED
  BY <1>2, <1>5, <1>6, ScenesStand

\* The slots of the overlays.
LEMMA UpsertOverlayStep ==
    ASSUME DocInv, NEW id \in Nat, UpsertOverlay(id)
    PROVE  DocInv' /\ KeysStep /\ FreshStep
<1> DEFINE slot == IF id = 0 THEN Larger(doc.next.overlay, 1) ELSE id
           n == IF id = 0 THEN slot + 1 ELSE Larger(doc.next.overlay, slot + 1)
           what == [op |-> IF id = 0 THEN "create" ELSE "upsert", kind |-> "overlay", id |-> slot]
           d == [doc EXCEPT !.overlays = @ \cup {slot}, !.next.overlay = n]
<1>1. Commit(what, d)
  BY DocFacts DEF UpsertOverlay, Fields, Counters
<1>2. doc.next.input \in Nat /\ doc.next.scene \in Nat /\ doc.next.unit \in Nat /\ doc.next.overlay \in Nat
  BY DocFacts DEF Counters
<1>3. slot \in Nat /\ n \in Nat /\ slot < n /\ doc.next.overlay <= n /\ (id = 0 => doc.next.overlay <= slot)
  BY <1>2 DEF Larger
<1> HIDE DEF slot, n
<1>4. /\ DOMAIN d = Fields /\ d.overlays = doc.overlays \cup {slot} /\ d.next = [doc.next EXCEPT !.overlay = n]
      /\ d.inputs = doc.inputs /\ d.units = doc.units /\ d.scenes = doc.scenes
      /\ d.selected = doc.selected /\ d.listen = doc.listen
  BY DocFacts DEF Fields
<1> HIDE DEF d
<1>5. /\ d.next \in Counters /\ d.next.overlay = n /\ d.next.input = doc.next.input
      /\ d.next.unit = doc.next.unit /\ d.next.scene = doc.next.scene
  BY <1>3, <1>4, DocFacts DEF Counters
<1>6. \A o \in d.overlays : o \in Nat /\ o < d.next.overlay
  BY <1>2, <1>3, <1>4, <1>5, DocFacts
<1>7. Staged(d)
  <2>1. IsDocument(d)
    BY <1>4, <1>5, DocFacts DEF IsDocument, Fields, Counters
  <2>2. Counted(d)
    BY <1>4, <1>5, <1>6, DocFacts DEF Counted
  <2>3. d.selected \in DOMAIN d.units
    BY <1>4, DocFacts
  <2>4. \A kind \in Kinds : doc.next[kind] <= d.next[kind]
    <3>1. /\ doc.next.input <= d.next.input /\ doc.next.scene <= d.next.scene
          /\ doc.next.unit <= d.next.unit /\ doc.next.overlay <= d.next.overlay
      BY <1>2, <1>3, <1>5
    <3>2. QED
      BY <3>1 DEF Kinds
  <2>5. QED
    BY <2>1, <2>2, <2>3, <2>4 DEF Staged
<1>8. DocInv' /\ edit' = what /\ KeysStep
  BY <1>1, <1>4, <1>7, ScenesStand
<1>9. id = 0 => slot \notin used["overlay"]
  BY <1>3, AboveIsFresh DEF Kinds
<1>10. FreshStep
  BY <1>8, <1>9 DEF FreshStep
<1>11. QED
  BY <1>8, <1>10

LEMMA DeleteOverlayStep ==
    ASSUME DocInv, NEW id, DeleteOverlay(id)
    PROVE  DocInv' /\ edit' = Other("delete") /\ KeysStep
<1> DEFINE d == [doc EXCEPT !.overlays = @ \ {id}, !.units = [u \in DOMAIN @ |-> WithoutOverlay(@[u], id)]]
<1>1. Commit(Other("delete"), d)
  BY DEF DeleteOverlay
<1>2. \A unit \in Units : WithoutOverlay(unit, id) \in Units
  BY DEF Units, WithoutOverlay
<1>3. /\ DOMAIN d = Fields /\ d.overlays = doc.overlays \ {id}
      /\ d.units = [u \in DOMAIN doc.units |-> WithoutOverlay(doc.units[u], id)]
      /\ d.inputs = doc.inputs /\ d.next = doc.next /\ d.scenes = doc.scenes
      /\ d.selected = doc.selected /\ d.listen = doc.listen
  BY DocFacts DEF Fields
<1>4. doc.next.input \in Nat /\ doc.next.scene \in Nat /\ doc.next.unit \in Nat /\ doc.next.overlay \in Nat
  BY DocFacts DEF Counters
<1> HIDE DEF d
<1>5. /\ DOMAIN d.units = DOMAIN doc.units /\ d.units \in [DOMAIN d.units -> Units]
  BY <1>2, <1>3, DocFacts
<1>6. Staged(d)
  <2>1. IsDocument(d)
    BY <1>3, <1>5, DocFacts DEF IsDocument, Fields, Counters
  <2>2. Counted(d)
    BY <1>3, <1>5, DocFacts DEF Counted
  <2>3. d.selected \in DOMAIN d.units
    BY <1>3, <1>5, DocFacts
  <2>4. \A kind \in Kinds : doc.next[kind] <= d.next[kind]
    BY <1>3, <1>4 DEF Kinds
  <2>5. QED
    BY <2>1, <2>2, <2>3, <2>4 DEF Staged
<1>7. QED
  BY <1>1, <1>3, <1>6, ScenesStand

\* The outputs of the settings.
LEMMA SetSettingsStep ==
    ASSUME DocInv, NEW outputs, SetSettings(outputs)
    PROVE  DocInv' /\ edit' = Other("settings") /\ KeysStep
<1> DEFINE d == [doc EXCEPT !.outputs = outputs]
<1>1. Commit(Other("settings"), d)
  BY DEF SetSettings
<1>2. /\ DOMAIN d = Fields /\ d.overlays = doc.overlays /\ d.units = doc.units
      /\ d.inputs = doc.inputs /\ d.next = doc.next /\ d.scenes = doc.scenes
      /\ d.selected = doc.selected /\ d.listen = doc.listen
  BY DocFacts DEF Fields
<1>3. doc.next.input \in Nat /\ doc.next.scene \in Nat /\ doc.next.unit \in Nat /\ doc.next.overlay \in Nat
  BY DocFacts DEF Counters
<1> HIDE DEF d
<1>4. Staged(d)
  <2>1. IsDocument(d)
    BY <1>2, DocFacts DEF IsDocument, Fields, Counters
  <2>2. Counted(d)
    BY <1>2, DocFacts DEF Counted
  <2>3. d.selected \in DOMAIN d.units
    BY <1>2, DocFacts
  <2>4. \A kind \in Kinds : doc.next[kind] <= d.next[kind]
    BY <1>2, <1>3 DEF Kinds
  <2>5. QED
    BY <2>1, <2>2, <2>3, <2>4 DEF Staged
<1>5. QED
  BY <1>1, <1>2, <1>4, ScenesStand

\* The parts that refer to nothing.
LEMMA SetPartStep ==
    ASSUME DocInv, NEW part, NEW odd, SetPart(part, odd)
    PROVE  DocInv' /\ edit' = Other("part") /\ KeysStep
<1> DEFINE d == [doc EXCEPT !.odd = IF odd THEN @ \cup {part} ELSE @ \ {part}]
<1>1. Commit(Other("part"), d)
  BY DEF SetPart
<1>2. /\ DOMAIN d = Fields /\ d.overlays = doc.overlays /\ d.units = doc.units
      /\ d.inputs = doc.inputs /\ d.next = doc.next /\ d.scenes = doc.scenes
      /\ d.selected = doc.selected /\ d.listen = doc.listen
  BY DocFacts DEF Fields
<1>3. doc.next.input \in Nat /\ doc.next.scene \in Nat /\ doc.next.unit \in Nat /\ doc.next.overlay \in Nat
  BY DocFacts DEF Counters
<1> HIDE DEF d
<1>4. Staged(d)
  <2>1. IsDocument(d)
    BY <1>2, DocFacts DEF IsDocument, Fields, Counters
  <2>2. Counted(d)
    BY <1>2, DocFacts DEF Counted
  <2>3. d.selected \in DOMAIN d.units
    BY <1>2, DocFacts
  <2>4. \A kind \in Kinds : doc.next[kind] <= d.next[kind]
    BY <1>2, <1>3 DEF Kinds
  <2>5. QED
    BY <2>1, <2>2, <2>3, <2>4 DEF Staged
<1>5. QED
  BY <1>1, <1>2, <1>4, ScenesStand

-----------------------------------------------------------------------------
(* Saving and loading *)

\* The layers of a scene come back shown, with their ids and their inputs.
LEMMA DecodedLayers ==
    ASSUME NEW list \in Seq(Layers)
    PROVE  LET L == [k \in DOMAIN list |-> DecodedLayer(list[k])]
           IN  /\ L \in Seq(Layers) /\ DOMAIN L = DOMAIN list
               /\ \A k \in DOMAIN list : L[k].id = list[k].id /\ L[k].input = list[k].input /\ L[k].shown # 0
               /\ (\A k \in DOMAIN list : list[k].shown # 0) => L = list
<1> DEFINE L == [k \in DOMAIN list |-> DecodedLayer(list[k])]
<1>1. /\ Len(list) \in Nat /\ DOMAIN list = 1..Len(list) /\ list = [k \in 1..Len(list) |-> list[k]]
      /\ \A k \in 1..Len(list) : list[k] \in Layers
  BY SequenceOf
<1>2. \A l \in Layers : /\ DecodedLayer(l) \in Layers /\ DecodedLayer(l).id = l.id /\ DecodedLayer(l).input = l.input
                        /\ DecodedLayer(l).shown # 0
                        /\ l.shown # 0 => DecodedLayer(l) = l
  BY DEF DecodedLayer, NoZero, Layers
<1>3. L = [k \in 1..Len(list) |-> L[k]] /\ \A k \in 1..Len(list) : L[k] = DecodedLayer(list[k])
  BY <1>1
<1>4. (\A k \in DOMAIN list : list[k].shown # 0) => L = list
  BY <1>1, <1>2, <1>3
<1> HIDE DEF L
<1>5. \A k \in 1..Len(list) : /\ L[k] \in Layers /\ L[k].id = list[k].id /\ L[k].input = list[k].input
                              /\ L[k].shown # 0
  BY <1>1, <1>2, <1>3
<1>6. L \in Seq(Layers) /\ DOMAIN L = DOMAIN list
  BY <1>1, <1>3, <1>5, IsSequence
<1>7. QED
  BY <1>1, <1>4, <1>5, <1>6 DEF L

\* Its states come back with their ids and their keys.
LEMMA DecodedStates ==
    ASSUME NEW list \in Seq(States)
    PROVE  LET L == [k \in DOMAIN list |-> DecodedState(list[k])]
           IN  /\ L \in Seq(States) /\ DOMAIN L = DOMAIN list
               /\ \A k \in DOMAIN list : L[k].id = list[k].id /\ L[k].keys = list[k].keys /\ L[k].flat = {}
               /\ (\A k \in DOMAIN list : list[k].flat = {}) => L = list
<1> DEFINE L == [k \in DOMAIN list |-> DecodedState(list[k])]
<1>1. /\ Len(list) \in Nat /\ DOMAIN list = 1..Len(list) /\ list = [k \in 1..Len(list) |-> list[k]]
      /\ \A k \in 1..Len(list) : list[k] \in States
  BY SequenceOf
<1>2. \A l \in States : /\ DecodedState(l) \in States /\ DecodedState(l).id = l.id /\ DecodedState(l).keys = l.keys
                        /\ DecodedState(l).flat = {}
                        /\ l.flat = {} => DecodedState(l) = l
  BY DEF DecodedState, States
<1>3. L = [k \in 1..Len(list) |-> L[k]] /\ \A k \in 1..Len(list) : L[k] = DecodedState(list[k])
  BY <1>1
<1>4. (\A k \in DOMAIN list : list[k].flat = {}) => L = list
  BY <1>1, <1>2, <1>3
<1> HIDE DEF L
<1>5. \A k \in 1..Len(list) : /\ L[k] \in States /\ L[k].id = list[k].id /\ L[k].keys = list[k].keys
                              /\ L[k].flat = {}
  BY <1>1, <1>2, <1>3
<1>6. L \in Seq(States) /\ DOMAIN L = DOMAIN list
  BY <1>1, <1>3, <1>5, IsSequence
<1>7. QED
  BY <1>1, <1>4, <1>5, <1>6 DEF L

\* Nothing of the scene is a zero the codec has no word for.
Whole(scene) ==
    /\ \A k \in DOMAIN scene.layers : scene.layers[k].shown # 0
    /\ \A k \in DOMAIN scene.states : scene.states[k].flat = {}

\* A tidy scene comes back whole and tidy, and refers to what it did.
LEMMA DecodedSceneFacts ==
    ASSUME NEW scene \in Scenes, Tidy(scene)
    PROVE  LET c == DecodedScene(scene)
           IN  /\ c \in Scenes /\ Tidy(c) /\ Whole(c)
               /\ KeysKept(scene, c) /\ SceneRefs(c) = SceneRefs(scene)
               /\ Whole(scene) => c = scene
<1> DEFINE c == DecodedScene(scene)
           L == [k \in DOMAIN scene.layers |-> DecodedLayer(scene.layers[k])]
           T == [k \in DOMAIN scene.states |-> DecodedState(scene.states[k])]
<1>1. /\ scene.layers \in Seq(Layers) /\ scene.states \in Seq(States) /\ scene.steps \in Seq(Nat)
      /\ scene = [layers |-> scene.layers, states |-> scene.states, steps |-> scene.steps]
  BY DEF Scenes
<1>2. c = [layers |-> L, states |-> T, steps |-> scene.steps]
  <2>1. c = [scene EXCEPT !.layers = L, !.states = T]
    BY DEF DecodedScene
  <2> HIDE DEF c, L, T
  <2>2. QED
    BY <1>1, <2>1
<1>3. /\ L \in Seq(Layers) /\ DOMAIN L = DOMAIN scene.layers
      /\ \A k \in DOMAIN scene.layers :
            L[k].id = scene.layers[k].id /\ L[k].input = scene.layers[k].input /\ L[k].shown # 0
      /\ (\A k \in DOMAIN scene.layers : scene.layers[k].shown # 0) => L = scene.layers
  BY <1>1, DecodedLayers
<1>4. /\ T \in Seq(States) /\ DOMAIN T = DOMAIN scene.states
      /\ \A k \in DOMAIN scene.states :
            T[k].id = scene.states[k].id /\ T[k].keys = scene.states[k].keys /\ T[k].flat = {}
      /\ (\A k \in DOMAIN scene.states : scene.states[k].flat = {}) => T = scene.states
  BY <1>1, DecodedStates
<1> HIDE DEF c, L, T
<1>5. c.layers = L /\ c.states = T /\ c.steps = scene.steps
  BY <1>2
<1>6. c \in Scenes
  BY <1>1, <1>2, <1>3, <1>4 DEF Scenes
<1>7. IdsOf(L) = IdsOf(scene.layers) /\ IdsOf(T) = IdsOf(scene.states)
  BY <1>3, <1>4 DEF IdsOf
<1>8. Distinct(L) /\ Distinct(T)
  BY <1>3, <1>4 DEF Distinct, Tidy
<1>9. Tidy(c)
  BY <1>3, <1>4, <1>5, <1>7, <1>8 DEF Tidy
<1>10. Whole(c)
  BY <1>3, <1>4, <1>5 DEF Whole
<1>11. KeysKept(scene, c)
  <2>1. SUFFICES ASSUME NEW k \in DOMAIN scene.states, NEW l \in DOMAIN T, scene.states[k].id = T[l].id
                 PROVE  /\ T[l].keys \subseteq scene.states[k].keys
                        /\ \A key \in T[l].keys : LayerOf(scene, key).input = LayerOf(c, key).input
    BY <1>5 DEF KeysKept, Range
  <2>2. k = l
    BY <1>4, <2>1 DEF Tidy, Distinct
  <2>3. T[l].keys = scene.states[k].keys
    BY <1>4, <2>2
  <2>4. ASSUME NEW key \in T[l].keys PROVE LayerOf(scene, key).input = LayerOf(c, key).input
    <3>1. key \in IdsOf(scene.layers)
      BY <2>3, <2>4 DEF Tidy
    <3>2. PICK j \in DOMAIN scene.layers : scene.layers[j].id = key
      BY <3>1 DEF IdsOf
    <3>3. LayerOf(scene, key) = scene.layers[j]
      BY <3>2, LayerOfId DEF Tidy
    <3>4. j \in DOMAIN c.layers /\ c.layers[j].id = key /\ Distinct(c.layers)
      BY <1>3, <1>5, <1>8, <3>2
    <3>5. LayerOf(c, key) = c.layers[j]
      BY <3>4, LayerOfId
    <3>6. QED
      BY <1>3, <1>5, <3>3, <3>5
  <2>5. QED
    BY <2>3, <2>4
<1>12. SceneRefs(c) = SceneRefs(scene)
  <2>1. [k \in DOMAIN L |-> <<L[k].id, L[k].input>>]
          = [k \in DOMAIN scene.layers |-> <<scene.layers[k].id, scene.layers[k].input>>]
    BY <1>3
  <2>2. [k \in DOMAIN T |-> <<T[k].id, T[k].keys>>]
          = [k \in DOMAIN scene.states |-> <<scene.states[k].id, scene.states[k].keys>>]
    BY <1>4
  <2>3. QED
    BY <1>5, <2>1, <2>2 DEF SceneRefs
<1>13. Whole(scene) => c = scene
  BY <1>1, <1>2, <1>3, <1>4 DEF Whole
<1>14. QED
  BY <1>6, <1>9, <1>10, <1>11, <1>12, <1>13 DEF c

\* What comes back of an input and of a unit.
LEMMA DecodedInputFacts ==
    ASSUME NEW input \in Inputs, CanonicalInput(input) = input
    PROVE  LET i == DecodedInput(input)
           IN  /\ i \in Inputs /\ CanonicalInput(i) = i /\ i.level # 0 /\ i.kind = input.kind
               /\ InputRefs(i) = InputRefs(input)
               /\ input.level # 0 => i = input
<1> DEFINE i == DecodedInput(input)
<1>1. i \in Inputs /\ i.level # 0 /\ i.kind = input.kind /\ i.target = input.target /\ i.heard = input.heard
  BY DEF DecodedInput, NoZero, Inputs
<1>2. input.level # 0 => i = input
  BY DEF DecodedInput, NoZero, Inputs
<1> HIDE DEF i
<1>3. CanonicalInput(i) = i
  <2>1. IF input.kind = "mix" THEN input.heard = {} ELSE input.target = 0
    BY DEF CanonicalInput, Inputs
  <2>2. QED
    BY <1>1, <2>1 DEF CanonicalInput, Inputs
<1>4. QED
  BY <1>1, <1>2, <1>3 DEF InputRefs, i

LEMMA DecodedUnitFacts ==
    ASSUME NEW unit \in Units, NEW overlays, CanonicalUnit(unit, overlays) = unit
    PROVE  LET u == DecodedUnit(unit)
           IN  /\ u \in Units /\ CanonicalUnit(u, overlays) = u /\ u.gain # 0
               /\ UnitRefs(u) = UnitRefs(unit)
               /\ unit.gain # 0 => u = unit
<1> DEFINE u == DecodedUnit(unit)
<1>1. u \in Units /\ u.gain # 0 /\ u.preview = unit.preview /\ u.program = unit.program /\ u.onAir = unit.onAir
  BY DEF DecodedUnit, NoZero, Units
<1>2. unit.gain # 0 => u = unit
  BY DEF DecodedUnit, NoZero, Units
<1> HIDE DEF u
<1>3. CanonicalUnit(u, overlays) = u
  <2>1. unit.onAir \subseteq overlays
    BY CanonicalUnitFacts
  <2>2. u.onAir \cap overlays = u.onAir
    BY <1>1, <2>1
  <2>3. QED
    BY <1>1, <2>2 DEF CanonicalUnit, Units
<1>4. QED
  BY <1>1, <1>2, <1>3 DEF UnitRefs, u

\* Whether a document is odd, part by part.
LEMMA OddFacts ==
    ASSUME NEW d
    PROVE  IsOdd(d) <=> \/ d.odd # {}
                        \/ \E i \in DOMAIN d.inputs : d.inputs[i].level = 0
                        \/ \E u \in DOMAIN d.units : d.units[u].gain = 0
                        \/ \E s \in DOMAIN d.scenes : ~Whole(d.scenes[s])
  BY DEF IsOdd, Whole

\* What a reload may make of the document.
ReloadOk ==
    edit'.op = "reload" =>
       \/ doc' = doc
       \/ IsOdd(doc) /\ ~IsOdd(doc') /\ References(doc') = References(doc)

\* The document is saved and loaded: what comes back needs no repair either.
LEMMA ReloadStep ==
    ASSUME DocInv, Reload
    PROVE  DocInv' /\ edit' = Other("reload") /\ KeysStep /\ ReloadOk
<1> DEFINE d == Decoded(doc)
<1>1. Commit(Other("reload"), d)
  BY DocFacts DEF Reload
<1>2. /\ DOMAIN d = Fields /\ d = [f \in Fields |-> d[f]] /\ d.overlays = doc.overlays
      /\ d.inputs = [i \in DOMAIN doc.inputs |-> DecodedInput(doc.inputs[i])]
      /\ d.scenes = [s \in DOMAIN doc.scenes |-> DecodedScene(doc.scenes[s])]
      /\ d.units = [u \in DOMAIN doc.units |-> DecodedUnit(doc.units[u])]
      /\ d.next = doc.next /\ d.outputs = doc.outputs /\ d.odd = {}
      /\ d.selected = doc.selected /\ d.listen = doc.listen
  BY DocFacts DEF Decoded, Fields
<1>3. doc.next.input \in Nat /\ doc.next.scene \in Nat /\ doc.next.unit \in Nat /\ doc.next.overlay \in Nat
  BY DocFacts DEF Counters
<1> HIDE DEF d
<1>4. /\ DOMAIN d.scenes = DOMAIN doc.scenes /\ d.scenes = [s \in DOMAIN d.scenes |-> d.scenes[s]]
      /\ \A s \in DOMAIN doc.scenes :
            /\ d.scenes[s] \in Scenes /\ Tidy(d.scenes[s]) /\ Whole(d.scenes[s])
            /\ KeysKept(doc.scenes[s], d.scenes[s]) /\ SceneRefs(d.scenes[s]) = SceneRefs(doc.scenes[s])
            /\ Whole(doc.scenes[s]) => d.scenes[s] = doc.scenes[s]
  <2>1. ASSUME NEW s \in DOMAIN doc.scenes
        PROVE  LET c == DecodedScene(doc.scenes[s])
               IN  /\ c \in Scenes /\ Tidy(c) /\ Whole(c)
                   /\ KeysKept(doc.scenes[s], c) /\ SceneRefs(c) = SceneRefs(doc.scenes[s])
                   /\ Whole(doc.scenes[s]) => c = doc.scenes[s]
    <3>1. doc.scenes[s] \in Scenes /\ Tidy(doc.scenes[s])
      BY DocFacts
    <3>2. QED
      BY <3>1, DecodedSceneFacts
  <2>2. QED
    BY <1>2, <2>1
<1>5. /\ DOMAIN d.inputs = DOMAIN doc.inputs /\ d.inputs = [i \in DOMAIN d.inputs |-> d.inputs[i]]
      /\ \A i \in DOMAIN doc.inputs :
            /\ d.inputs[i] \in Inputs /\ CanonicalInput(d.inputs[i]) = d.inputs[i] /\ d.inputs[i].level # 0
            /\ d.inputs[i].kind = doc.inputs[i].kind /\ InputRefs(d.inputs[i]) = InputRefs(doc.inputs[i])
            /\ doc.inputs[i].level # 0 => d.inputs[i] = doc.inputs[i]
  <2>1. ASSUME NEW i \in DOMAIN doc.inputs
        PROVE  LET j == DecodedInput(doc.inputs[i])
               IN  /\ j \in Inputs /\ CanonicalInput(j) = j /\ j.level # 0
                   /\ j.kind = doc.inputs[i].kind /\ InputRefs(j) = InputRefs(doc.inputs[i])
                   /\ doc.inputs[i].level # 0 => j = doc.inputs[i]
    <3>1. doc.inputs[i] \in Inputs /\ CanonicalInput(doc.inputs[i]) = doc.inputs[i]
      BY DocFacts DEF DocInv, TidyDoc
    <3>2. QED
      BY <3>1, DecodedInputFacts
  <2>2. QED
    BY <1>2, <2>1
<1>6. /\ DOMAIN d.units = DOMAIN doc.units /\ d.units = [u \in DOMAIN d.units |-> d.units[u]]
      /\ \A u \in DOMAIN doc.units :
            /\ d.units[u] \in Units /\ CanonicalUnit(d.units[u], d.overlays) = d.units[u] /\ d.units[u].gain # 0
            /\ UnitRefs(d.units[u]) = UnitRefs(doc.units[u])
            /\ doc.units[u].gain # 0 => d.units[u] = doc.units[u]
  <2>1. ASSUME NEW u \in DOMAIN doc.units
        PROVE  LET v == DecodedUnit(doc.units[u])
               IN  /\ v \in Units /\ CanonicalUnit(v, doc.overlays) = v /\ v.gain # 0
                   /\ UnitRefs(v) = UnitRefs(doc.units[u])
                   /\ doc.units[u].gain # 0 => v = doc.units[u]
    <3>1. doc.units[u] \in Units /\ CanonicalUnit(doc.units[u], doc.overlays) = doc.units[u]
      BY DocFacts DEF DocInv, TidyDoc
    <3>2. QED
      BY <3>1, DecodedUnitFacts
  <2>2. QED
    BY <1>2, <2>1
<1>7. IsDocument(d)
  BY <1>2, <1>4, <1>5, <1>6, DocFacts DEF IsDocument, Fields, Counters
<1>8. Staged(d)
  <2>1. Counted(d)
    BY <1>2, <1>4, <1>5, <1>6, DocFacts DEF Counted
  <2>2. d.selected \in DOMAIN d.units
    BY <1>2, <1>6, DocFacts
  <2>3. \A kind \in Kinds : doc.next[kind] <= d.next[kind]
    BY <1>2, <1>3 DEF Kinds
  <2>4. QED
    BY <1>7, <2>1, <2>2, <2>3 DEF Staged
<1>9. TidyDoc(d)
  <2>1. d.listen = Nobody \/ ListenOk(d)
    BY <1>2, <1>5, <1>6 DEF DocInv, TidyDoc, ListenOk
  <2>2. Larger(d.next.overlay, MaxId(d.overlays, 0) + 1) = d.next.overlay
    BY <1>2 DEF DocInv, TidyDoc
  <2>3. QED
    BY <1>2, <1>4, <1>5, <1>6, <2>1, <2>2 DEF TidyDoc
<1>10. DocInv' /\ edit' = Other("reload") /\ doc' = d
  BY <1>1, <1>7, <1>8, <1>9, CommitStep, TidyDocumentStays
<1>11. KeysStep
  BY <1>4, <1>10 DEF KeysStep
<1>12. ~IsOdd(d)
  BY <1>2, <1>4, <1>5, <1>6, OddFacts
<1>13. References(d) = References(doc)
  <2>1. [i \in DOMAIN d.inputs |-> InputRefs(d.inputs[i])] = [i \in DOMAIN doc.inputs |-> InputRefs(doc.inputs[i])]
    BY <1>5
  <2>2. [s \in DOMAIN d.scenes |-> SceneRefs(d.scenes[s])] = [s \in DOMAIN doc.scenes |-> SceneRefs(doc.scenes[s])]
    BY <1>4
  <2>3. [u \in DOMAIN d.units |-> UnitRefs(d.units[u])] = [u \in DOMAIN doc.units |-> UnitRefs(doc.units[u])]
    BY <1>6
  <2>4. QED
    BY <1>2, <2>1, <2>2, <2>3 DEF References
<1>14. ASSUME ~IsOdd(doc) PROVE d = doc
  <2>1. /\ doc.odd = {} /\ \A i \in DOMAIN doc.inputs : doc.inputs[i].level # 0
        /\ \A u \in DOMAIN doc.units : doc.units[u].gain # 0
        /\ \A s \in DOMAIN doc.scenes : Whole(doc.scenes[s])
    BY <1>14, OddFacts
  <2>2. d.scenes = doc.scenes
    BY <1>4, <2>1, DocFacts
  <2>3. d.units = doc.units
    BY <1>6, <2>1, DocFacts
  <2>4. d.inputs = doc.inputs
    BY <1>5, <2>1, DocFacts
  <2>5. \A f \in Fields : d[f] = doc[f]
    BY <1>2, <2>1, <2>2, <2>3, <2>4 DEF Fields
  <2>6. doc = [f \in Fields |-> doc[f]]
    BY DEF DocInv, TidyDoc
  <2>7. QED
    BY <1>2, <2>5, <2>6
<1>15. QED
  BY <1>10, <1>11, <1>12, <1>13, <1>14 DEF ReloadOk

\* A loaded document satisfies the invariant.
LEMMA DocInitially ==
    ASSUME DocInit
    PROVE  DocInv
<1> USE DocumentAssumption
<1>1. TidyDoc(FirstDoc)
  BY CanonicalDocument
<1>2. \A kind \in Kinds : \A n \in IdsIn(FirstDoc)[kind] : n \in Nat /\ n < FirstDoc.next[kind]
  BY DEF Counted, IdsIn, Kinds
<1>3. DOMAIN IdsIn(FirstDoc) = Kinds
  BY DEF IdsIn, Kinds
<1>4. QED
  BY <1>1, <1>2, <1>3 DEF DocInit, DocInv

\* What the theorem of the ids says of a step.
KeysOk == edit'.op \notin {"replace", "upsert"} => KeysStep

\* Every edit keeps the invariant and does as the properties say.
LEMMA DocStep ==
    ASSUME DocInv, DocNext
    PROVE  DocInv' /\ FreshStep /\ KeysOk /\ ReloadOk
<1> USE DEF FreshStep, KeysOk, ReloadOk
<1>0. NewInputs \subseteq Inputs /\ NewScenes \subseteq Scenes /\ NewUnits \subseteq Units /\ AnyId \subseteq Nat
  BY DocumentAssumption
<1>1. ASSUME NEW input \in NewInputs, CreateInput(input) PROVE DocInv' /\ FreshStep /\ KeysOk /\ ReloadOk
  <2>1. edit'.op = "create"
    BY <1>1 DEF CreateInput, Commit
  <2>2. QED
    BY <1>0, <1>1, <2>1, CreateInputStep
<1>2. ASSUME NEW scene \in NewScenes, CreateScene(scene) PROVE DocInv' /\ FreshStep /\ KeysOk /\ ReloadOk
  <2>1. edit'.op = "create"
    BY <1>2 DEF CreateScene, Commit
  <2>2. QED
    BY <1>0, <1>2, <2>1, CreateSceneStep
<1>3. ASSUME NEW unit \in NewUnits, CreateUnit(unit) PROVE DocInv' /\ FreshStep /\ KeysOk /\ ReloadOk
  <2>1. edit'.op = "create"
    BY <1>3 DEF CreateUnit, Commit
  <2>2. QED
    BY <1>0, <1>3, <2>1, CreateUnitStep
<1>4. ASSUME NEW id \in AnyId, NEW input \in NewInputs, UpsertInput(id, input) PROVE DocInv' /\ FreshStep /\ KeysOk /\ ReloadOk
  BY <1>0, <1>4, UpsertInputStep DEF Other
<1>5. ASSUME NEW id \in AnyId, NEW scene \in NewScenes, UpsertScene(id, scene) PROVE DocInv' /\ FreshStep /\ KeysOk /\ ReloadOk
  BY <1>0, <1>5, UpsertSceneStep DEF Other
<1>6. ASSUME NEW id \in AnyId, NEW unit \in NewUnits, UpsertUnit(id, unit) PROVE DocInv' /\ FreshStep /\ KeysOk /\ ReloadOk
  BY <1>0, <1>6, UpsertUnitStep DEF Other
<1>7. ASSUME NEW id, DeleteInput(id) \/ DeleteScene(id) \/ DeleteUnit(id) \/ DeleteOverlay(id)
      PROVE  DocInv' /\ FreshStep /\ KeysOk /\ ReloadOk
  BY <1>7, DeleteInputStep, DeleteSceneStep, DeleteUnitStep, DeleteOverlayStep DEF Other
<1>8. ASSUME NEW s \in DOMAIN doc.scenes, NEW i \in DOMAIN doc.inputs, AddLayer(s, i) \/ ReplaceLayers(s, <<i>>)
      PROVE  DocInv' /\ FreshStep /\ KeysOk /\ ReloadOk
  BY <1>8, AddLayerStep, ReplaceLayersStep DEF Other
<1>9. ASSUME NEW s \in DOMAIN doc.scenes, NEW k \in LayersNow(s), DeleteLayer(s, k) \/ MoveLayer(s, k) \/ FadeLayer(s, k)
      PROVE  DocInv' /\ FreshStep /\ KeysOk /\ ReloadOk
  BY <1>9, DeleteLayerStep, MoveLayerStep, FadeLayerStep DEF Other
<1>10. ASSUME NEW id \in {0} \cup AnyId, UpsertOverlay(id) PROVE DocInv' /\ FreshStep /\ KeysOk /\ ReloadOk
  <2>1. edit'.op \in {"create", "upsert"}
    BY <1>10 DEF UpsertOverlay, Commit
  <2>2. id \in Nat
    BY <1>0
  <2>3. QED
    BY <1>10, <2>1, <2>2, UpsertOverlayStep
<1>11. ASSUME NEW outputs, SetSettings(outputs) PROVE DocInv' /\ FreshStep /\ KeysOk /\ ReloadOk
  BY <1>11, SetSettingsStep DEF Other
<1>12. ASSUME Reload PROVE DocInv' /\ FreshStep /\ KeysOk /\ ReloadOk
  BY <1>12, ReloadStep DEF Other
<1>13. ASSUME NEW part, NEW odd, SetPart(part, odd) PROVE DocInv' /\ FreshStep /\ KeysOk /\ ReloadOk
  BY <1>13, SetPartStep DEF Other
<1>14. QED
  BY <1>1, <1>2, <1>3, <1>4, <1>5, <1>6, <1>7, <1>8, <1>9, <1>10, <1>11, <1>12, <1>13 DEF DocNext, ScenesNow

\* The invariant holds throughout.
LEMMA DocInvariance == DocSpec => []DocInv
<1>1. DocInv /\ [DocNext]_docVars => DocInv'
  <2>1. ASSUME DocInv, UNCHANGED docVars PROVE DocInv'
    BY <2>1 DEF docVars, DocInv
  <2>2. QED
    BY <2>1, DocStep
<1>2. QED
  BY <1>1, DocInitially, PTL DEF DocSpec

(***************************************************************************)
(* Whatever edits were accepted, the document needs no repair: what        *)
(* canonicalize and validate leave in the store refers to what is there,   *)
(* its ids are set and differ, and canonicalizing it changes nothing.      *)
(***************************************************************************)
THEOREM DocumentsAreSound == DocSpec => []DocumentIsSound
<1>1. DocInv => DocumentIsSound
  <2>1. SUFFICES ASSUME DocInv PROVE DocumentIsSound
    OBVIOUS
  <2>2. ASSUME NEW s \in DOMAIN doc.scenes
        PROVE  /\ Unique(doc.scenes[s].layers) /\ Unique(doc.scenes[s].states)
               /\ \A k \in DOMAIN doc.scenes[s].layers : doc.scenes[s].layers[k].input \in DOMAIN doc.inputs
               /\ \A k \in DOMAIN doc.scenes[s].states : doc.scenes[s].states[k].keys \subseteq IdsOf(doc.scenes[s].layers)
               /\ Range(doc.scenes[s].steps) \subseteq IdsOf(doc.scenes[s].states)
    <3> DEFINE scene == doc.scenes[s]
    <3>1. scene \in Scenes /\ Tidy(scene)
      BY <2>1, DocFacts
    <3>2. \A k \in DOMAIN scene.layers : scene.layers[k].input \in DOMAIN doc.inputs
      BY <2>1 DEF DocInv, Valid
    <3> HIDE DEF scene
    <3>3. scene.layers \in Seq(Layers) /\ scene.states \in Seq(States)
      BY <3>1 DEF Scenes
    <3>4. Len(scene.layers) \in Nat /\ DOMAIN scene.layers = 1..Len(scene.layers)
      BY <3>3
    <3>5. Len(scene.states) \in Nat /\ DOMAIN scene.states = 1..Len(scene.states)
      BY <3>3
    <3>6. Unique(scene.layers)
      BY <3>1, <3>4, DistinctIsUnique DEF Tidy
    <3>7. Unique(scene.states)
      BY <3>1, <3>5, DistinctIsUnique DEF Tidy
    <3>8. Range(scene.steps) \subseteq IdsOf(scene.states)
      BY <3>1 DEF Tidy, Range
    <3>9. QED
      BY <3>1, <3>2, <3>6, <3>7, <3>8 DEF Tidy, scene
  <2>3. ASSUME NEW u \in DOMAIN doc.units PROVE doc.units[u].onAir \subseteq doc.overlays
    <3>1. doc.units[u] \in Units /\ CanonicalUnit(doc.units[u], doc.overlays) = doc.units[u]
      BY <2>1, DocFacts DEF DocInv, TidyDoc
    <3>2. QED
      BY <3>1, CanonicalUnitFacts
  <2>4. QED
    BY <2>1, <2>2, <2>3, DocFacts DEF DocumentIsSound, DocInv, TidyDoc
<1>2. QED
  BY <1>1, DocInvariance, PTL

(***************************************************************************)
(* An id the service hands out was never that of anything of its kind     *)
(* (the allocate functions), and a key a state keeps is that of the same   *)
(* layer, however the layers were added, removed, moved or renumbered.     *)
(***************************************************************************)
THEOREM IdsStay == DocSpec => IdsKeepTheirMeaning
<1>1. DocInv /\ [DocNext]_docVars => [edit'.op = "create" => edit'.id \notin used[edit'.kind]]_docVars
  BY DocStep DEF FreshStep
<1>2. DocInv /\ [DocNext]_docVars =>
        [edit'.op \notin {"replace", "upsert"} =>
          \A s \in DOMAIN doc.scenes \cap DOMAIN doc'.scenes :
             \A old \in Range(doc.scenes[s].states), new \in Range(doc'.scenes[s].states) :
                old.id = new.id =>
                   /\ new.keys \subseteq old.keys
                   /\ \A k \in new.keys : LayerOf(doc.scenes[s], k).input = LayerOf(doc'.scenes[s], k).input]_docVars
  BY DocStep DEF KeysOk, KeysStep, KeysKept
<1>3. QED
  BY <1>1, <1>2, DocInvariance, PTL DEF DocSpec, IdsKeepTheirMeaning, FreshIds, KeysFollowLayers

(***************************************************************************)
(* The codec of the session file gives the document back, unless something *)
(* of it was a zero that the codec has no word for or the host's own; then  *)
(* what refers to anything is as it was, and the next reload changes        *)
(* nothing.                                                                 *)
(***************************************************************************)
THEOREM ReloadsAreFaithful == DocSpec => ReloadKeepsDocument
<1>1. DocInv /\ [DocNext]_docVars =>
        [edit'.op = "reload" =>
          \/ doc' = doc
          \/ IsOdd(doc) /\ ~IsOdd(doc') /\ References(doc') = References(doc)]_docVars
  BY DocStep DEF ReloadOk
<1>2. QED
  BY <1>1, DocInvariance, PTL DEF DocSpec, ReloadKeepsDocument
==============================================================================
