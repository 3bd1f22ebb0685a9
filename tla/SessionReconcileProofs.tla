----------------------- MODULE SessionReconcileProofs -----------------------
(***************************************************************************)
(* Proofs about SessionReconcile, for any documents, ids and refusals.     *)
(*                                                                         *)
(* A plan is a list of operations, so what it does is stated of lists:     *)
(* Leads(A, ops, refusing, B) says that from every run in A they lead to a *)
(* run in B.  Lists that are put together from the ids of a document lead  *)
(* where their parts lead, one id at a time.  What may run of one input,   *)
(* output, encoder or destination of a document is a set of runs           *)
(* (InputAs, OutputAs, EncoderAs, DestAs), every operation of a plan that  *)
(* leads to d keeps these sets of d, and the plan from p to n takes those  *)
(* of p to those of n.                                                     *)
(***************************************************************************)
EXTENDS SessionReconcile, WellFoundedInduction, TLAPS

-----------------------------------------------------------------------------
(* Carrying out a list of operations *)

\* A set of numbers that is not empty has a least one.
LEMMA LeastNumber ==
    ASSUME NEW T, T \subseteq Nat, T # {}
    PROVE  \E x \in T : \A y \in T : x <= y
<1> DEFINE R == OpToRel(<, Nat)
<1>1. \A x, y \in T : y < x => <<y, x>> \in R
  BY DEF OpToRel
<1>2. IsWellFoundedOn(R, Nat)
  BY NatLessThanWellFounded
<1> HIDE DEF R
<1>3. PICK x \in T : \A y \in T : ~ (<<y, x>> \in R)
  BY <1>2, WFMin
<1>4. \A y \in T : ~(y < x)
  BY <1>1, <1>3
<1>5. QED
  BY <1>4

\* What is left after each operation of a list.
Steps(after, run, ops, refusing) ==
    /\ after[0] = run
    /\ \A i \in 1..Len(ops) : after[i] = ApplyOp(after[i - 1], ops[i], refusing)

\* A list of operations is carried out one by one, in its order.
LEMMA CarryOutSteps ==
    ASSUME NEW run, NEW ops, Len(ops) \in Nat, NEW refusing
    PROVE  \E after : /\ Steps(after, run, ops, refusing)
                      /\ CarryOut(run, ops, refusing) = after[Len(ops)]
<1> DEFINE Is(g, n) == g = [i \in 0..n |-> IF i = 0 THEN run ELSE ApplyOp(g[i - 1], ops[i], refusing)]
<1>1. \A n \in Nat : \E g : Is(g, n)
  <2> DEFINE T == {n \in Nat : ~ \E g : Is(g, n)}
  <2>1. SUFFICES ASSUME T # {} PROVE FALSE
    OBVIOUS
  <2>2. PICK x \in T : \A y \in T : x <= y
    <3> HIDE DEF Is
    <3> QED BY <2>1, LeastNumber
  <2>3. x # 0
    <3>1. Is([i \in 0..0 |-> run], 0)
      OBVIOUS
    <3>2. QED
      BY <3>1
  <2>4. PICK g : Is(g, x - 1)
    <3> HIDE DEF Is
    <3> QED BY <2>2, <2>3
  <2> DEFINE h == [i \in 0..x |-> IF i < x THEN g[i] ELSE ApplyOp(g[x - 1], ops[x], refusing)]
  <2>5. \A i \in 0..x : h[i] = IF i = 0 THEN run ELSE ApplyOp(h[i - 1], ops[i], refusing)
    <3>1. TAKE i \in 0..x
    <3>2. x \in Nat /\ x >= 1
      BY <2>3
    <3>3. CASE i = x
      <4>1. h[i] = ApplyOp(g[x - 1], ops[x], refusing) /\ h[i - 1] = g[x - 1]
        BY <3>2, <3>3
      <4>2. QED
        BY <4>1, <3>2, <3>3
    <3>4. CASE i = 0
      <4>1. h[i] = g[0] /\ 0 \in 0..(x - 1)
        BY <3>2, <3>4
      <4>2. QED
        BY <4>1, <2>4, <3>4
    <3>5. CASE i # x /\ i # 0
      <4>1. h[i] = g[i] /\ h[i - 1] = g[i - 1] /\ i \in 0..(x - 1)
        BY <3>2, <3>5
      <4>2. QED
        BY <4>1, <2>4, <3>5
    <3>6. QED
      BY <3>3, <3>4, <3>5
  <2>6. Is(h, x)
    BY <2>5
  <2>7. QED
    BY <2>6
<1> DEFINE after == CHOOSE g : Is(g, Len(ops))
<1>2. Is(after, Len(ops))
  <2> HIDE DEF Is
  <2> QED BY <1>1
<1>3. CarryOut(run, ops, refusing) = after[Len(ops)]
  BY DEF CarryOut
<1> HIDE DEF after
<1>4. after[0] = run
  BY <1>2
<1>5. \A i \in 1..Len(ops) : after[i] = ApplyOp(after[i - 1], ops[i], refusing)
  BY <1>2
<1>6. QED
  BY <1>3, <1>4, <1>5 DEF Steps

\* The steps determine the result.
LEMMA CarryOutIs ==
    ASSUME NEW run, NEW ops, Len(ops) \in Nat, NEW refusing, NEW g, Steps(g, run, ops, refusing)
    PROVE  CarryOut(run, ops, refusing) = g[Len(ops)]
<1>1. PICK after : /\ Steps(after, run, ops, refusing)
                   /\ CarryOut(run, ops, refusing) = after[Len(ops)]
  BY CarryOutSteps
<1> DEFINE T == {i \in 0..Len(ops) : after[i] # g[i]}
<1>2. T = {}
  <2>1. SUFFICES ASSUME T # {} PROVE FALSE
    OBVIOUS
  <2>0. T \subseteq Nat
    OBVIOUS
  <2>2. PICK x \in T : \A y \in T : x <= y
    <3> HIDE DEF T
    <3> QED BY <2>0, <2>1, LeastNumber
  <2>3. x # 0
    BY <1>1 DEF Steps
  <2>4. x \in 1..Len(ops) /\ x - 1 \in 0..Len(ops) /\ x - 1 \notin T
    BY <2>2, <2>3
  <2>5. after[x - 1] = g[x - 1]
    BY <2>4
  <2>6. QED
    BY <1>1, <2>4, <2>5 DEF Steps
<1>3. after[Len(ops)] = g[Len(ops)]
  BY <1>2
<1>4. QED
  BY <1>1, <1>3

\* No operation, and one operation.
LEMMA CarryOutNone ==
    ASSUME NEW run, NEW refusing
    PROVE  CarryOut(run, <<>>, refusing) = run
<1>1. Len(<<>>) = 0
  OBVIOUS
<1>2. QED
  BY <1>1, CarryOutSteps DEF Steps

LEMMA CarryOutOne ==
    ASSUME NEW run, NEW refusing, NEW op
    PROVE  CarryOut(run, <<op>>, refusing) = ApplyOp(run, op, refusing)
<1> DEFINE s == <<op>>
<1>1. Len(s) = 1 /\ s[1] = op /\ Len(s) \in Nat
  OBVIOUS
<1> HIDE DEF s
<1>2. PICK after : Steps(after, run, s, refusing) /\ CarryOut(run, s, refusing) = after[Len(s)]
  BY <1>1, CarryOutSteps, Zenon
<1>3. after[1] = ApplyOp(after[0], s[1], refusing) /\ after[0] = run
  BY <1>1, <1>2 DEF Steps
<1> USE DEF s
<1>4. QED
  BY <1>1, <1>2, <1>3

\* One list after the other.
LEMMA CarryOutJoin ==
    ASSUME NEW run, NEW refusing, NEW O, NEW s \in Seq(O), NEW t \in Seq(O)
    PROVE  CarryOut(run, s \o t, refusing) = CarryOut(CarryOut(run, s, refusing), t, refusing)
<1> DEFINE u == s \o t
           n == Len(s)
           m == Len(t)
<1>1. /\ n \in Nat /\ m \in Nat /\ Len(u) = n + m
      /\ \A i \in 1..Len(u) : u[i] = IF i <= n THEN s[i] ELSE t[i - n]
  OBVIOUS
<1> SUFFICES CarryOut(run, u, refusing) = CarryOut(CarryOut(run, s, refusing), t, refusing)
  OBVIOUS
<1> HIDE DEF u
<1>2. PICK f : Steps(f, run, s, refusing) /\ CarryOut(run, s, refusing) = f[Len(s)]
  BY <1>1, CarryOutSteps, Zenon
<1>3. PICK g : Steps(g, f[Len(s)], t, refusing) /\ CarryOut(f[Len(s)], t, refusing) = g[Len(t)]
  BY <1>1, CarryOutSteps, Zenon
<1>4. f[0] = run /\ \A i \in 1..n : f[i] = ApplyOp(f[i - 1], s[i], refusing)
  BY <1>2 DEF Steps
<1>5. g[0] = f[n] /\ \A i \in 1..m : g[i] = ApplyOp(g[i - 1], t[i], refusing)
  BY <1>3 DEF Steps
<1> DEFINE h == [i \in 0..Len(u) |-> IF i <= n THEN f[i] ELSE g[i - n]]
<1> HIDE DEF n, m
<1>6. \A i \in 1..Len(u) : h[i] = ApplyOp(h[i - 1], u[i], refusing)
  <2>1. TAKE i \in 1..Len(u)
  <2>2. CASE i <= n
    <3>1. h[i] = f[i] /\ h[i - 1] = f[i - 1] /\ u[i] = s[i] /\ i \in 1..n
      BY <1>1, <2>2
    <3>2. QED
      BY <3>1, <1>4
  <2>3. CASE i = n + 1
    <3>1. /\ i - n = 1 /\ i - 1 = n /\ ~(i <= n) /\ n <= n /\ n \in 0..Len(u) /\ i \in 0..Len(u)
          /\ 1 \in 1..m /\ 1 - 1 = 0
      BY <1>1, <2>3
    <3>0. h[i] = g[1] /\ h[i - 1] = f[n] /\ u[i] = t[1]
      BY <1>1, <3>1
    <3>2. QED
      BY <3>0, <3>1, <1>5
  <2>4. CASE i > n + 1
    <3>1. h[i] = g[i - n] /\ h[i - 1] = g[(i - n) - 1] /\ u[i] = t[i - n] /\ i - n \in 1..m
      BY <1>1, <2>4
    <3>2. QED
      BY <3>1, <1>5
  <2>5. QED
    BY <1>1, <2>2, <2>3, <2>4
<1>7. h[0] = run /\ Len(u) \in Nat
  BY <1>1, <1>4
<1>8. h[Len(u)] = g[m]
  <2>1. CASE m = 0
    BY <1>1, <1>5, <2>1
  <2>2. CASE m > 0
    BY <1>1, <2>2
  <2>3. QED
    BY <1>1, <2>1, <2>2
<1> HIDE DEF h
<1>9. Steps(h, run, u, refusing)
  BY <1>6, <1>7 DEF Steps
<1>10. CarryOut(run, u, refusing) = h[Len(u)]
  BY <1>7, <1>9, CarryOutIs, Zenon
<1>11. QED
  BY <1>2, <1>3, <1>8, <1>10 DEF n, m
-----------------------------------------------------------------------------
(* From where to where a list of operations leads *)

Leads(A, ops, refusing, B) == \A run \in A : CarryOut(run, ops, refusing) \in B

\* No operation, one operation, and one list after the other.
LEMMA LeadsNone ==
    ASSUME NEW A, NEW B, NEW refusing, A \subseteq B
    PROVE  Leads(A, <<>>, refusing, B)
BY CarryOutNone DEF Leads

LEMMA LeadsOne ==
    ASSUME NEW A, NEW B, NEW refusing, NEW op, \A run \in A : ApplyOp(run, op, refusing) \in B
    PROVE  Leads(A, <<op>>, refusing, B)
BY CarryOutOne DEF Leads

LEMMA LeadsOn ==
    ASSUME NEW A, NEW B, NEW C, NEW refusing, NEW O, NEW s \in Seq(O), NEW t \in Seq(O),
           Leads(A, s, refusing, B), Leads(B, t, refusing, C)
    PROVE  Leads(A, s \o t, refusing, C)
<1>1. \A run : CarryOut(run, s \o t, refusing) = CarryOut(CarryOut(run, s, refusing), t, refusing)
  BY CarryOutJoin
<1> DEFINE u == s \o t
<1> HIDE DEF u
<1>2. \A run : CarryOut(run, u, refusing) = CarryOut(CarryOut(run, s, refusing), t, refusing)
  BY <1>1 DEF u
<1>3. Leads(A, u, refusing, C)
  BY <1>2, Zenon DEF Leads
<1>4. QED
  BY <1>3 DEF u

\* What every operation of a list keeps, the list keeps.
LEMMA LeadsBack ==
    ASSUME NEW A, NEW refusing, NEW O, NEW s \in Seq(O),
           \A op \in O : \A run \in A : ApplyOp(run, op, refusing) \in A
    PROVE  Leads(A, s, refusing, A)
<1> SUFFICES ASSUME NEW run \in A PROVE CarryOut(run, s, refusing) \in A
  BY DEF Leads
<1>1. Len(s) \in Nat /\ \A i \in 1..Len(s) : s[i] \in O
  OBVIOUS
<1>2. PICK g : Steps(g, run, s, refusing) /\ CarryOut(run, s, refusing) = g[Len(s)]
  BY <1>1, CarryOutSteps, Zenon
<1> DEFINE n == Len(s)
<1>3. n \in Nat /\ \A i \in 1..n : s[i] \in O
  BY <1>1
<1>4. g[0] = run /\ \A i \in 1..n : g[i] = ApplyOp(g[i - 1], s[i], refusing)
  BY <1>2 DEF Steps
<1> HIDE DEF n
<1> DEFINE T == {i \in 0..n : g[i] \notin A}
<1>5. T = {}
  <2>1. SUFFICES ASSUME T # {} PROVE FALSE
    OBVIOUS
  <2>2. T \subseteq Nat
    BY <1>3
  <2>3. PICK x \in T : \A y \in T : x <= y
    <3> HIDE DEF T
    <3> QED BY <2>1, <2>2, LeastNumber
  <2>4. x # 0
    BY <1>4
  <2>5. x \in 1..n /\ x - 1 \in 0..n /\ x - 1 \notin T
    BY <1>3, <2>3, <2>4
  <2>6. g[x - 1] \in A
    BY <2>5
  <2>7. QED
    BY <1>3, <1>4, <2>5, <2>6
<1>6. g[n] \in A
  BY <1>3, <1>5
<1>7. QED
  BY <1>2, <1>6 DEF n

-----------------------------------------------------------------------------
(* A list that is put together from the ids of another *)

\* What has been put together after each id.
Joins(upTo, order, opsOf) ==
    /\ upTo[0] = <<>>
    /\ \A i \in 1..Len(order) :
          upTo[i] = IF order[i] \in DOMAIN opsOf THEN upTo[i - 1] \o opsOf[order[i]] ELSE upTo[i - 1]

\* Each has put everything together after the last id.
LEMMA EachJoins ==
    ASSUME NEW order, Len(order) \in Nat, NEW opsOf
    PROVE  \E upTo : Joins(upTo, order, opsOf) /\ Each(order, opsOf) = upTo[Len(order)]
<1> DEFINE Next(so, i) == IF order[i] \in DOMAIN opsOf THEN so \o opsOf[order[i]] ELSE so
           Is(g, n) == g = [i \in 0..n |-> IF i = 0 THEN <<>> ELSE Next(g[i - 1], i)]
<1> HIDE DEF Next
<1>1. \A n \in Nat : \E g : Is(g, n)
  <2> DEFINE T == {n \in Nat : ~ \E g : Is(g, n)}
  <2>1. SUFFICES ASSUME T # {} PROVE FALSE
    OBVIOUS
  <2>2. PICK x \in T : \A y \in T : x <= y
    <3> HIDE DEF Is
    <3> QED BY <2>1, LeastNumber
  <2>3. x # 0
    <3>1. Is([i \in 0..0 |-> <<>>], 0)
      OBVIOUS
    <3>2. QED
      BY <3>1
  <2>4. PICK g : Is(g, x - 1)
    <3> HIDE DEF Is
    <3> QED BY <2>2, <2>3
  <2> DEFINE h == [i \in 0..x |-> IF i < x THEN g[i] ELSE Next(g[x - 1], x)]
  <2>5. \A i \in 0..x : h[i] = IF i = 0 THEN <<>> ELSE Next(h[i - 1], i)
    <3>1. TAKE i \in 0..x
    <3>2. x \in Nat /\ x >= 1
      BY <2>3
    <3>3. CASE i = x
      <4>1. h[i] = Next(g[x - 1], x) /\ h[i - 1] = g[x - 1]
        BY <3>2, <3>3
      <4>2. QED
        BY <4>1, <3>2, <3>3
    <3>4. CASE i = 0
      <4>1. h[i] = g[0] /\ 0 \in 0..(x - 1)
        BY <3>2, <3>4
      <4>2. QED
        BY <4>1, <2>4, <3>4
    <3>5. CASE i # x /\ i # 0
      <4>1. h[i] = g[i] /\ h[i - 1] = g[i - 1] /\ i \in 0..(x - 1)
        BY <3>2, <3>5
      <4>2. QED
        BY <4>1, <2>4, <3>5
    <3>6. QED
      BY <3>3, <3>4, <3>5
  <2>6. Is(h, x)
    BY <2>5
  <2>7. QED
    BY <2>6
<1> DEFINE upTo == CHOOSE g : Is(g, Len(order))
<1>2. Is(upTo, Len(order))
  <2> HIDE DEF Is
  <2> QED BY <1>1
<1>3. Each(order, opsOf) = upTo[Len(order)]
  BY DEF Each, Next
<1> HIDE DEF upTo
<1>4. Joins(upTo, order, opsOf)
  <2>1. upTo[0] = <<>> /\ \A i \in 1..Len(order) : upTo[i] = Next(upTo[i - 1], i)
    BY <1>2
  <2>2. QED
    BY <2>1 DEF Joins, Next
<1>5. QED
  BY <1>3, <1>4

\* It has what its parts have.
LEMMA EachTyped ==
    ASSUME NEW order, Len(order) \in Nat, NEW opsOf, NEW O, \A x \in DOMAIN opsOf : opsOf[x] \in Seq(O),
           NEW upTo, Joins(upTo, order, opsOf)
    PROVE  \A i \in 0..Len(order) : upTo[i] \in Seq(O)
<1> DEFINE n == Len(order)
<1>1. n \in Nat /\ upTo[0] = <<>>
  BY DEF Joins
<1>2. \A i \in 1..n : upTo[i] = IF order[i] \in DOMAIN opsOf THEN upTo[i - 1] \o opsOf[order[i]] ELSE upTo[i - 1]
  BY DEF Joins
<1> HIDE DEF n
<1> DEFINE T == {i \in 0..n : upTo[i] \notin Seq(O)}
<1>3. T = {}
  <2>1. SUFFICES ASSUME T # {} PROVE FALSE
    OBVIOUS
  <2>2. T \subseteq Nat
    BY <1>1
  <2>3. PICK x \in T : \A y \in T : x <= y
    <3> HIDE DEF T
    <3> QED BY <2>1, <2>2, LeastNumber
  <2>0. upTo[x] \notin Seq(O)
    BY <2>3
  <2>4. x # 0
    <3>1. <<>> \in Seq(O)
      OBVIOUS
    <3>2. QED
      BY <1>1, <2>0, <3>1
  <2>5. x \in 1..n /\ x - 1 \in 0..n /\ x - 1 \notin T
    BY <1>1, <2>3, <2>4
  <2>6. upTo[x - 1] \in Seq(O)
    BY <2>5
  <2>7. CASE order[x] \in DOMAIN opsOf
    <3>1. opsOf[order[x]] \in Seq(O) /\ upTo[x] = upTo[x - 1] \o opsOf[order[x]]
      BY <1>2, <2>5, <2>7
    <3>2. upTo[x - 1] \o opsOf[order[x]] \in Seq(O)
      BY <2>6, <3>1
    <3>3. QED
      BY <2>0, <3>1, <3>2
  <2>8. CASE order[x] \notin DOMAIN opsOf
    BY <1>2, <2>0, <2>5, <2>6, <2>8
  <2>9. QED
    BY <2>7, <2>8
<1>4. QED
  BY <1>3 DEF n

LEMMA EachInSeq ==
    ASSUME NEW order, Len(order) \in Nat, NEW opsOf, NEW O, \A x \in DOMAIN opsOf : opsOf[x] \in Seq(O)
    PROVE  Each(order, opsOf) \in Seq(O)
<1>1. PICK upTo : Joins(upTo, order, opsOf) /\ Each(order, opsOf) = upTo[Len(order)]
  BY EachJoins, Zenon
<1>2. \A i \in 0..Len(order) : upTo[i] \in Seq(O)
  BY <1>1, EachTyped
<1>3. QED
  BY <1>1, <1>2

\* Where its parts lead, one after the other.
LEMMA EachLeads ==
    ASSUME NEW order, Len(order) \in Nat, NEW opsOf, NEW O, \A x \in DOMAIN opsOf : opsOf[x] \in Seq(O),
           NEW refusing, NEW I,
           \A i \in 1..Len(order) :
              IF order[i] \in DOMAIN opsOf THEN Leads(I[i - 1], opsOf[order[i]], refusing, I[i])
              ELSE I[i - 1] \subseteq I[i]
    PROVE  Leads(I[0], Each(order, opsOf), refusing, I[Len(order)])
<1> DEFINE n == Len(order)
<1>1. PICK upTo : Joins(upTo, order, opsOf) /\ Each(order, opsOf) = upTo[Len(order)]
  BY EachJoins, Zenon
<1>2. \A i \in 0..n : upTo[i] \in Seq(O)
  BY <1>1, EachTyped
<1>3. n \in Nat /\ upTo[0] = <<>>
  BY <1>1 DEF Joins
<1>4. \A i \in 1..n : upTo[i] = IF order[i] \in DOMAIN opsOf THEN upTo[i - 1] \o opsOf[order[i]] ELSE upTo[i - 1]
  BY <1>1 DEF Joins
<1>5. \A i \in 1..n : IF order[i] \in DOMAIN opsOf THEN Leads(I[i - 1], opsOf[order[i]], refusing, I[i])
                       ELSE I[i - 1] \subseteq I[i]
  OBVIOUS
<1> HIDE DEF n
<1> DEFINE T == {i \in 0..n : ~Leads(I[0], upTo[i], refusing, I[i])}
<1>6. T = {}
  <2>1. SUFFICES ASSUME T # {} PROVE FALSE
    OBVIOUS
  <2>2. T \subseteq Nat
    BY <1>3
  <2>3. PICK x \in T : \A y \in T : x <= y
    <3> HIDE DEF T
    <3> QED BY <2>1, <2>2, LeastNumber
  <2>0. ~Leads(I[0], upTo[x], refusing, I[x])
    BY <2>3
  <2>4. x # 0
    <3>1. Leads(I[0], <<>>, refusing, I[0])
      BY LeadsNone
    <3>2. QED
      BY <1>3, <2>0, <3>1
  <2>5. x \in 1..n /\ x - 1 \in 0..n /\ x - 1 \notin T
    BY <1>3, <2>3, <2>4
  <2>6. Leads(I[0], upTo[x - 1], refusing, I[x - 1]) /\ upTo[x - 1] \in Seq(O)
    BY <1>2, <2>5
  <2>7. CASE order[x] \in DOMAIN opsOf
    <3>1. /\ opsOf[order[x]] \in Seq(O) /\ upTo[x] = upTo[x - 1] \o opsOf[order[x]]
          /\ Leads(I[x - 1], opsOf[order[x]], refusing, I[x])
      BY <1>4, <1>5, <2>5, <2>7
    <3>2. Leads(I[0], upTo[x - 1] \o opsOf[order[x]], refusing, I[x])
      BY <2>6, <3>1, LeadsOn
    <3>3. QED
      BY <2>0, <3>1, <3>2
  <2>8. CASE order[x] \notin DOMAIN opsOf
    <3>1. upTo[x] = upTo[x - 1] /\ I[x - 1] \subseteq I[x]
      BY <1>4, <1>5, <2>5, <2>8
    <3>2. Leads(I[0], upTo[x], refusing, I[x])
      BY <2>6, <3>1 DEF Leads
    <3>3. QED
      BY <2>0, <3>2
  <2>9. QED
    BY <2>7, <2>8
<1>7. Leads(I[0], upTo[n], refusing, I[n])
  BY <1>3, <1>6
<1>8. QED
  BY <1>1, <1>7 DEF n

\* What all its parts keep, and what one of them brings about that the others keep.
LEMMA EachKeeps ==
    ASSUME NEW order, Len(order) \in Nat, NEW opsOf, NEW O, \A x \in DOMAIN opsOf : opsOf[x] \in Seq(O),
           NEW refusing, NEW A, \A x \in DOMAIN opsOf : Leads(A, opsOf[x], refusing, A)
    PROVE  Leads(A, Each(order, opsOf), refusing, A)
<1> DEFINE n == Len(order)
           I == [i \in 0..n |-> A]
<1>1. n \in Nat
  OBVIOUS
<1>2. \A i \in 0..n : I[i] = A
  OBVIOUS
<1> HIDE DEF I
<1>3. \A i \in 1..n : IF order[i] \in DOMAIN opsOf THEN Leads(I[i - 1], opsOf[order[i]], refusing, I[i])
                       ELSE I[i - 1] \subseteq I[i]
  BY <1>1, <1>2
<1>4. Leads(I[0], Each(order, opsOf), refusing, I[n])
  BY <1>3, EachLeads
<1>5. QED
  BY <1>1, <1>2, <1>4

LEMMA EachReaches ==
    ASSUME NEW order, Len(order) \in Nat, NEW opsOf, NEW O, \A x \in DOMAIN opsOf : opsOf[x] \in Seq(O),
           NEW refusing, NEW A, NEW B, NEW x \in DOMAIN opsOf, x \in Ids(order),
           \A j, k \in 1..Len(order) : order[j] = order[k] => j = k,
           Leads(A, opsOf[x], refusing, B),
           \A y \in DOMAIN opsOf : y # x => Leads(A, opsOf[y], refusing, A) /\ Leads(B, opsOf[y], refusing, B)
    PROVE  Leads(A, Each(order, opsOf), refusing, B)
<1> DEFINE n == Len(order)
<1>1. PICK k \in 1..n : order[k] = x
  BY DEF Ids
<1> DEFINE I == [i \in 0..n |-> IF i < k THEN A ELSE B]
<1>2. n \in Nat /\ \A i \in 0..n : I[i] = IF i < k THEN A ELSE B
  OBVIOUS
<1> HIDE DEF I
<1>3. ASSUME NEW i \in 1..n
      PROVE  IF order[i] \in DOMAIN opsOf THEN Leads(I[i - 1], opsOf[order[i]], refusing, I[i])
             ELSE I[i - 1] \subseteq I[i]
  <2>1. CASE i = k
    <3>1. I[i - 1] = A /\ I[i] = B
      BY <1>2, <2>1
    <3>2. QED
      BY <1>1, <2>1, <3>1
  <2>2. CASE i # k
    <3>1. order[i] # x
      BY <1>1, <2>2
    <3>2. \/ I[i - 1] = A /\ I[i] = A
          \/ I[i - 1] = B /\ I[i] = B
      BY <1>2, <2>2
    <3>3. QED
      BY <3>1, <3>2
  <2>3. QED
    BY <2>1, <2>2
<1>4. Leads(I[0], Each(order, opsOf), refusing, I[n])
  BY <1>3, EachLeads
<1>5. I[0] = A /\ I[n] = B
  BY <1>2
<1>6. QED
  BY <1>4, <1>5
-----------------------------------------------------------------------------
(* What one operation does *)

Docs == Documents \cup {NoSession}
Configs ==
    {Absent} \cup {d.inputs[i] : d \in Docs, i \in Ids(Inputs)}
      \cup {d.outputs[o] : d \in Docs, o \in Ids(Outputs)}
      \cup {d.encoders[e] : d \in Docs, e \in Ids(Encoders)}
Dests == [id : Ids(Outputs), cfg : {d.outputs[o].cfg : d \in Docs, o \in Ids(Outputs)}]
Ports == [inputs : [Ids(Inputs) -> Configs], outputs : [Ids(Outputs) -> Configs],
          encoders : [Ids(Encoders) -> Configs], dests : [Ids(Encoders) -> SUBSET Dests]]
Statuses == [id : {StatusId[x] : x \in AllIds}, why : {"ready", "failed", "down"}]
Runs == [port : Ports, statuses : SUBSET Statuses, stopped : SUBSET AllIds]

\* What a plan that leads to document d may consist of.
Outlets(d) == {o \in Ids(Outputs) : d.outputs[o] # Absent /\ ~Rtmp(d.outputs[o]) /\ d.outputs[o].enabled}
Streams(d) == {o \in Ids(Outputs) : RtmpDestination(d.outputs[o])}
Streaming(d) == {e \in EncodersOf(d) : DestsOf(d, e) # {}}
Ops(d) ==
    {DestroySource(i) : i \in Ids(Inputs)} \cup {RemoveOutput(o) : o \in Ids(Outputs)}
      \cup {RemoveEncoder(e) : e \in Ids(Encoders)}
      \cup {RemoveDest(e, o) : e \in Ids(Encoders), o \in Ids(Outputs)}
      \cup {ConnectInput(i, d.inputs[i]) : i \in Ids(Inputs)} \cup {FailInput(i) : i \in Ids(Inputs)}
      \cup {AddOutput(o, d.outputs[o]) : o \in Outlets(d)}
      \cup {AddEncoder(e, d.encoders[e]) : e \in Streaming(d)}
      \cup {AddDest(o, d.outputs[o]) : o \in Streams(d)}

OnInput(op, i) == op.op \in {"DestroySource", "ConnectInput"} /\ op.id = i
OnOutput(op, o) == op.op \in {"RemoveOutput", "AddOutput"} /\ op.id = o
OnEncoder(op, e) ==
    \/ op.op \in {"RemoveEncoder", "AddEncoder"} /\ op.id = e
    \/ op.op \in {"RemoveDest", "AddDest"} /\ op.enc = e
Stops(op, x) == op.op \notin Adds /\ op.id = x

\* The kinds of operations.
LEMMA OpCases ==
    ASSUME NEW d, NEW op \in Ops(d)
    PROVE  \/ \E i \in Ids(Inputs) : op = DestroySource(i)
           \/ \E o \in Ids(Outputs) : op = RemoveOutput(o)
           \/ \E e \in Ids(Encoders) : op = RemoveEncoder(e)
           \/ \E e \in Ids(Encoders), o \in Ids(Outputs) : op = RemoveDest(e, o)
           \/ \E i \in Ids(Inputs) : op = ConnectInput(i, d.inputs[i])
           \/ \E i \in Ids(Inputs) : op = FailInput(i)
           \/ \E o \in Outlets(d) : op = AddOutput(o, d.outputs[o])
           \/ \E e \in Streaming(d) : op = AddEncoder(e, d.encoders[e])
           \/ \E o \in Streams(d) : op = AddDest(o, d.outputs[o])
BY DEF Ops

\* The effect of each operation on the run, field by field.
LEMMA DoDestroySource ==
    ASSUME NEW run \in Runs, NEW i, NEW refusing
    PROVE  ApplyOp(run, DestroySource(i), refusing) =
             [port |-> [run.port EXCEPT !.inputs = [@ EXCEPT ![i] = Absent]],
              statuses |-> run.statuses, stopped |-> run.stopped \cup {i}]
BY DEF ApplyOp, DestroySource, Op, Adds, Stop, Runs, Ports

LEMMA DoRemoveOutput ==
    ASSUME NEW run \in Runs, NEW o, NEW refusing
    PROVE  ApplyOp(run, RemoveOutput(o), refusing) =
             [port |-> [run.port EXCEPT !.outputs = [@ EXCEPT ![o] = Absent]],
              statuses |-> run.statuses, stopped |-> run.stopped \cup {o}]
BY DEF ApplyOp, RemoveOutput, Op, Adds, Stop, Runs, Ports

LEMMA StopIs ==
    ASSUME NEW p, NEW statuses, NEW stopped, NEW x
    PROVE  Stop([port |-> p, statuses |-> statuses, stopped |-> stopped], x) =
             [port |-> p, statuses |-> statuses, stopped |-> stopped \cup {x}]
BY DEF Stop

LEMMA ReportIs ==
    ASSUME NEW p, NEW statuses, NEW stopped, NEW x, NEW why
    PROVE  Report([port |-> p, statuses |-> statuses, stopped |-> stopped], x, why) =
             [port |-> p, statuses |-> Reported(statuses, x, why), stopped |-> stopped]
BY DEF Report

LEMMA DoSetEncoder ==
    ASSUME NEW run \in Runs, NEW e, NEW c
    PROVE  SetEncoder(run, e, c) =
             [port |-> [run.port EXCEPT !.encoders = [@ EXCEPT ![e] = c], !.dests = [@ EXCEPT ![e] = {}]],
              statuses |-> run.statuses, stopped |-> run.stopped]
BY DEF SetEncoder, Runs, Ports

LEMMA DoRemoveEncoder ==
    ASSUME NEW run \in Runs, NEW e, NEW refusing
    PROVE  ApplyOp(run, RemoveEncoder(e), refusing) =
             [port |-> [run.port EXCEPT !.encoders = [@ EXCEPT ![e] = Absent], !.dests = [@ EXCEPT ![e] = {}]],
              statuses |-> run.statuses, stopped |-> run.stopped \cup {e}]
<1>1. ApplyOp(run, RemoveEncoder(e), refusing) = Stop(SetEncoder(run, e, Absent), e)
  BY DEF ApplyOp, RemoveEncoder, Op, Adds
<1> DEFINE p == [run.port EXCEPT !.encoders = [@ EXCEPT ![e] = Absent], !.dests = [@ EXCEPT ![e] = {}]]
<1>2. SetEncoder(run, e, Absent) = [port |-> p, statuses |-> run.statuses, stopped |-> run.stopped]
  BY DoSetEncoder
<1> HIDE DEF p
<1>3. ApplyOp(run, RemoveEncoder(e), refusing) =
        [port |-> p, statuses |-> run.statuses, stopped |-> run.stopped \cup {e}]
  BY <1>1, <1>2, StopIs
<1>4. QED
  BY <1>3 DEF p

LEMMA DoRemoveDest ==
    ASSUME NEW run \in Runs, NEW e, NEW o, NEW refusing
    PROVE  ApplyOp(run, RemoveDest(e, o), refusing) =
             [port |-> [run.port EXCEPT !.dests = [@ EXCEPT ![e] = {d \in run.port.dests[e] : d.id # o}]],
              statuses |-> run.statuses, stopped |-> run.stopped \cup {o}]
<1> DEFINE op == RemoveDest(e, o)
           next == {d \in run.port.dests[e] : d.id # o}
<1>1. op.op = "RemoveDest" /\ op.id = o /\ op.enc = e
  BY DEF RemoveDest, Op
<1> HIDE DEF op, next
<1> DEFINE after == [run EXCEPT !.port.dests[e] = next]
<1>2. ApplyOp(run, op, refusing) = Stop(after, o)
  BY <1>1 DEF ApplyOp, Adds, next
<1>3. after = [port |-> [run.port EXCEPT !.dests = [@ EXCEPT ![e] = next]],
               statuses |-> run.statuses, stopped |-> run.stopped]
  BY DEF Runs, Ports
<1> HIDE DEF after
<1>4. Stop(after, o) = [port |-> [run.port EXCEPT !.dests = [@ EXCEPT ![e] = next]],
                        statuses |-> run.statuses, stopped |-> run.stopped \cup {o}]
  BY <1>3 DEF Stop
<1>5. QED
  BY <1>2, <1>4 DEF op, next

LEMMA DoConnectInput ==
    ASSUME NEW run \in Runs, NEW i, NEW c, NEW refusing
    PROVE  ApplyOp(run, ConnectInput(i, c), refusing) =
             IF i \in refusing
             THEN [port |-> run.port, statuses |-> Reported(run.statuses, i, "failed"), stopped |-> run.stopped]
             ELSE [port |-> [run.port EXCEPT !.inputs = [@ EXCEPT ![i] = c]],
                   statuses |-> Reported(run.statuses, i, "ready"), stopped |-> run.stopped]
<1> DEFINE op == ConnectInput(i, c)
<1>1. op.op = "ConnectInput" /\ op.id = i /\ op.cfg = c
  BY DEF ConnectInput, Op
<1> HIDE DEF op
<1>2. CASE i \in refusing
  <2>1. ApplyOp(run, op, refusing) = Report(run, i, "failed")
    BY <1>1, <1>2 DEF ApplyOp, Adds
  <2>2. QED
    BY <1>2, <2>1 DEF op, Report, Runs
<1>3. CASE i \notin refusing
  <2>1. ApplyOp(run, op, refusing) = Report([run EXCEPT !.port.inputs[i] = c], i, "ready")
    BY <1>1, <1>3 DEF ApplyOp, Adds
  <2> DEFINE after == [run EXCEPT !.port.inputs[i] = c]
  <2>2. after = [port |-> [run.port EXCEPT !.inputs = [@ EXCEPT ![i] = c]],
                 statuses |-> run.statuses, stopped |-> run.stopped]
    BY DEF Runs, Ports
  <2> HIDE DEF after
  <2>4. Report(after, i, "ready") =
          [port |-> [run.port EXCEPT !.inputs = [@ EXCEPT ![i] = c]],
           statuses |-> Reported(run.statuses, i, "ready"), stopped |-> run.stopped]
    BY <2>2 DEF Report
  <2>3. QED
    BY <1>3, <2>1, <2>4 DEF op, after
<1>4. QED
  BY <1>2, <1>3

LEMMA DoFailInput ==
    ASSUME NEW run \in Runs, NEW i, NEW refusing
    PROVE  ApplyOp(run, FailInput(i), refusing) =
             [port |-> run.port, statuses |-> Reported(run.statuses, i, "failed"), stopped |-> run.stopped]
<1>1. ApplyOp(run, FailInput(i), refusing) = Report(run, i, "failed")
  BY DEF ApplyOp, FailInput, Op, Adds
<1>2. QED
  BY <1>1 DEF Report, Runs

LEMMA DoAddOutput ==
    ASSUME NEW run \in Runs, NEW o, NEW c, NEW refusing
    PROVE  ApplyOp(run, AddOutput(o, c), refusing) =
             IF o \in refusing
             THEN [port |-> run.port, statuses |-> Reported(run.statuses, o, "failed"), stopped |-> run.stopped]
             ELSE [port |-> [run.port EXCEPT !.outputs = [@ EXCEPT ![o] = c]],
                   statuses |-> Reported(run.statuses, o, "ready"), stopped |-> run.stopped]
<1> DEFINE op == AddOutput(o, c)
<1>1. op.op = "AddOutput" /\ op.id = o /\ op.cfg = c
  BY DEF AddOutput, Op
<1> HIDE DEF op
<1>2. CASE o \in refusing
  <2>1. ApplyOp(run, op, refusing) = Report(run, o, "failed")
    BY <1>1, <1>2 DEF ApplyOp, Adds
  <2>2. QED
    BY <1>2, <2>1 DEF op, Report, Runs
<1>3. CASE o \notin refusing
  <2>1. ApplyOp(run, op, refusing) = Report([run EXCEPT !.port.outputs[o] = c], o, "ready")
    BY <1>1, <1>3 DEF ApplyOp, Adds
  <2> DEFINE after == [run EXCEPT !.port.outputs[o] = c]
  <2>2. after = [port |-> [run.port EXCEPT !.outputs = [@ EXCEPT ![o] = c]],
                 statuses |-> run.statuses, stopped |-> run.stopped]
    BY DEF Runs, Ports
  <2> HIDE DEF after
  <2>4. Report(after, o, "ready") =
          [port |-> [run.port EXCEPT !.outputs = [@ EXCEPT ![o] = c]],
           statuses |-> Reported(run.statuses, o, "ready"), stopped |-> run.stopped]
    BY <2>2 DEF Report
  <2>3. QED
    BY <1>3, <2>1, <2>4 DEF op, after
<1>4. QED
  BY <1>2, <1>3

LEMMA DoAddEncoder ==
    ASSUME NEW run \in Runs, NEW e, NEW c, NEW refusing
    PROVE  ApplyOp(run, AddEncoder(e, c), refusing) =
             IF e \in refusing
             THEN [port |-> run.port, statuses |-> Reported(run.statuses, e, "failed"), stopped |-> run.stopped]
             ELSE [port |-> [run.port EXCEPT !.encoders = [@ EXCEPT ![e] = c], !.dests = [@ EXCEPT ![e] = {}]],
                   statuses |-> Reported(run.statuses, e, "ready"), stopped |-> run.stopped]
<1> DEFINE op == AddEncoder(e, c)
<1>1. op.op = "AddEncoder" /\ op.id = e /\ op.cfg = c
  BY DEF AddEncoder, Op
<1> HIDE DEF op
<1>2. CASE e \in refusing
  <2>1. ApplyOp(run, op, refusing) = Report(run, e, "failed")
    BY <1>1, <1>2 DEF ApplyOp, Adds
  <2>2. QED
    BY <1>2, <2>1 DEF op, Report, Runs
<1>3. CASE e \notin refusing
  <2>1. ApplyOp(run, op, refusing) = Report(SetEncoder(run, e, c), e, "ready")
    BY <1>1, <1>3 DEF ApplyOp, Adds
  <2> DEFINE p == [run.port EXCEPT !.encoders = [@ EXCEPT ![e] = c], !.dests = [@ EXCEPT ![e] = {}]]
  <2>2. SetEncoder(run, e, c) = [port |-> p, statuses |-> run.statuses, stopped |-> run.stopped]
    BY DoSetEncoder
  <2> HIDE DEF p
  <2>3. ApplyOp(run, op, refusing) =
          [port |-> p, statuses |-> Reported(run.statuses, e, "ready"), stopped |-> run.stopped]
    BY <2>1, <2>2, ReportIs
  <2>4. QED
    BY <1>3, <2>3 DEF op, p
<1>4. QED
  BY <1>2, <1>3

LEMMA DoAddDest ==
    ASSUME NEW run \in Runs, NEW o, NEW dto, NEW refusing
    PROVE  ApplyOp(run, AddDest(o, dto), refusing) =
             IF o \in refusing
             THEN [port |-> run.port, statuses |-> Reported(run.statuses, o, "failed"), stopped |-> run.stopped]
             ELSE IF dto.encoder = Absent \/ run.port.encoders[dto.encoder] = Absent
             THEN [port |-> run.port, statuses |-> Reported(run.statuses, o, "down"), stopped |-> run.stopped]
             ELSE [port |-> [run.port EXCEPT !.dests =
                                [@ EXCEPT ![dto.encoder] = {d \in run.port.dests[dto.encoder] : d.id # o}
                                                                 \cup {[id |-> o, cfg |-> dto.cfg]}]],
                   statuses |-> Reported(run.statuses, o, "ready"), stopped |-> run.stopped]
<1> DEFINE op == AddDest(o, dto)
           e == dto.encoder
           next == {d \in run.port.dests[e] : d.id # o} \cup {[id |-> o, cfg |-> dto.cfg]}
           after == [run EXCEPT !.port.dests[e] = next]
<1>1. op.op = "AddDest" /\ op.id = o /\ op.cfg = dto /\ op.enc = e
  BY DEF AddDest, Op
<1> HIDE DEF op, e, next
<1>2. CASE o \in refusing
  <2>1. ApplyOp(run, op, refusing) = Report(run, o, "failed")
    BY <1>1, <1>2 DEF ApplyOp, Adds
  <2>2. QED
    BY <1>2, <2>1 DEF op, Report, Runs
<1>3. CASE o \notin refusing /\ (e = Absent \/ run.port.encoders[e] = Absent)
  <2>1. ApplyOp(run, op, refusing) = Report(run, o, "down")
    BY <1>1, <1>3 DEF ApplyOp, Adds
  <2>2. QED
    BY <1>3, <2>1 DEF op, e, Report, Runs
<1>4. CASE o \notin refusing /\ ~(e = Absent \/ run.port.encoders[e] = Absent)
  <2>1. ApplyOp(run, op, refusing) = Report(after, o, "ready")
    BY <1>1, <1>4 DEF ApplyOp, Adds, next
  <2>2. after = [port |-> [run.port EXCEPT !.dests = [@ EXCEPT ![e] = next]],
                 statuses |-> run.statuses, stopped |-> run.stopped]
    BY DEF Runs, Ports
  <2> HIDE DEF after
  <2>3. Report(after, o, "ready") =
          [port |-> [run.port EXCEPT !.dests = [@ EXCEPT ![e] = next]],
           statuses |-> Reported(run.statuses, o, "ready"), stopped |-> run.stopped]
    BY <2>2 DEF Report
  <2>4. QED
    BY <1>4, <2>1, <2>3 DEF op, e, after, next
<1>5. QED
  BY <1>2, <1>3, <1>4

\* An id is of one kind and has one place in its list.
LEMMA IdFacts ==
    /\ Len(Inputs) \in Nat /\ Len(Outputs) \in Nat /\ Len(Encoders) \in Nat
    /\ Ids(Inputs) \subseteq AllIds /\ Ids(Outputs) \subseteq AllIds /\ Ids(Encoders) \subseteq AllIds
    /\ \A j, k \in 1..Len(Inputs) : Inputs[j] = Inputs[k] => j = k
    /\ \A j, k \in 1..Len(Outputs) : Outputs[j] = Outputs[k] => j = k
    /\ \A j, k \in 1..Len(Encoders) : Encoders[j] = Encoders[k] => j = k
    /\ Ids(Inputs) \cap Ids(Outputs) = {} /\ Ids(Inputs) \cap Ids(Encoders) = {}
    /\ Ids(Outputs) \cap Ids(Encoders) = {} /\ Absent \notin AllIds
<1> DEFINE all == Inputs \o Outputs \o Encoders
           a == Len(Inputs)
           b == Len(Outputs)
           c == Len(Encoders)
<1>1. /\ Inputs \in Seq(AllIds) /\ Outputs \in Seq(AllIds) /\ Encoders \in Seq(AllIds)
      /\ \A j, k \in 1..Len(all) : all[j] = all[k] => j = k
      /\ Absent \notin AllIds
  BY IdsAreDistinct
<1>2. /\ a \in Nat /\ b \in Nat /\ c \in Nat /\ Len(all) = a + b + c
      /\ \A j \in 1..a : all[j] = Inputs[j]
      /\ \A j \in 1..b : all[a + j] = Outputs[j]
      /\ \A j \in 1..c : all[a + b + j] = Encoders[j]
  BY <1>1
<1>3. /\ \A j \in 1..a : Inputs[j] \in AllIds
      /\ \A j \in 1..b : Outputs[j] \in AllIds
      /\ \A j \in 1..c : Encoders[j] \in AllIds
  BY <1>1
<1> HIDE DEF all, a, b, c
<1>4. /\ \A j, k \in 1..a : Inputs[j] = Inputs[k] => j = k
      /\ \A j, k \in 1..b : Outputs[j] = Outputs[k] => j = k
      /\ \A j, k \in 1..c : Encoders[j] = Encoders[k] => j = k
  <2>1. ASSUME NEW j \in 1..a, NEW k \in 1..a, Inputs[j] = Inputs[k] PROVE j = k
    BY <1>1, <1>2, <2>1
  <2>2. ASSUME NEW j \in 1..b, NEW k \in 1..b, Outputs[j] = Outputs[k] PROVE j = k
    <3>1. a + j \in 1..Len(all) /\ a + k \in 1..Len(all) /\ all[a + j] = all[a + k]
      BY <1>2, <2>2
    <3>2. a + j = a + k
      BY <1>1, <3>1
    <3>3. QED
      BY <1>2, <3>2
  <2>3. ASSUME NEW j \in 1..c, NEW k \in 1..c, Encoders[j] = Encoders[k] PROVE j = k
    <3>1. a + b + j \in 1..Len(all) /\ a + b + k \in 1..Len(all) /\ all[a + b + j] = all[a + b + k]
      BY <1>2, <2>3
    <3>2. a + b + j = a + b + k
      BY <1>1, <3>1
    <3>3. QED
      BY <1>2, <3>2
  <2>4. QED
    BY <2>1, <2>2, <2>3
<1>5. \A j \in 1..a, k \in 1..b : Inputs[j] # Outputs[k]
  <2>1. SUFFICES ASSUME NEW j \in 1..a, NEW k \in 1..b, Inputs[j] = Outputs[k] PROVE FALSE
    OBVIOUS
  <2>2. j \in 1..Len(all) /\ a + k \in 1..Len(all) /\ all[j] = all[a + k]
    BY <1>2, <2>1
  <2>3. j = a + k
    BY <1>1, <2>2
  <2>4. QED
    BY <1>2, <2>3
<1>6. \A j \in 1..a, k \in 1..c : Inputs[j] # Encoders[k]
  <2>1. SUFFICES ASSUME NEW j \in 1..a, NEW k \in 1..c, Inputs[j] = Encoders[k] PROVE FALSE
    OBVIOUS
  <2>2. j \in 1..Len(all) /\ a + b + k \in 1..Len(all) /\ all[j] = all[a + b + k]
    BY <1>2, <2>1
  <2>3. j = a + b + k
    BY <1>1, <2>2
  <2>4. QED
    BY <1>2, <2>3
<1>7. \A j \in 1..b, k \in 1..c : Outputs[j] # Encoders[k]
  <2>1. SUFFICES ASSUME NEW j \in 1..b, NEW k \in 1..c, Outputs[j] = Encoders[k] PROVE FALSE
    OBVIOUS
  <2>2. a + j \in 1..Len(all) /\ a + b + k \in 1..Len(all) /\ all[a + j] = all[a + b + k]
    BY <1>2, <2>1
  <2>3. a + j = a + b + k
    BY <1>1, <2>2
  <2>4. QED
    BY <1>2, <2>3
<1>8. QED
  BY <1>1, <1>2, <1>3, <1>4, <1>5, <1>6, <1>7 DEF Ids, a, b, c

\* What a document has of each id is something a port may run.
LEMMA DocFacts ==
    ASSUME NEW d \in Docs
    PROVE  /\ \A i \in Ids(Inputs) : d.inputs[i] \in Configs
           /\ \A o \in Ids(Outputs) : d.outputs[o] \in Configs
           /\ \A e \in Ids(Encoders) : d.encoders[e] \in Configs
           /\ \A o \in Ids(Outputs) : [id |-> o, cfg |-> d.outputs[o].cfg] \in Dests
           /\ \A o \in Streams(d) : o \in Ids(Outputs) /\ d.outputs[o].encoder \in Ids(Encoders) \cup {Absent}
           /\ \A o \in Ids(Outputs) : d.outputs[o] # Absent =>
                 d.outputs[o].rtmp \in BOOLEAN /\ d.outputs[o].enabled \in BOOLEAN
<1>1. /\ \A i \in Ids(Inputs) : d.inputs[i] \in Configs
      /\ \A o \in Ids(Outputs) : d.outputs[o] \in Configs
      /\ \A e \in Ids(Encoders) : d.encoders[e] \in Configs
  BY DEF Configs
<1>2. \A o \in Ids(Outputs) : [id |-> o, cfg |-> d.outputs[o].cfg] \in Dests
  BY DEF Dests
<1>3. CASE d \in Documents
  BY <1>1, <1>2, <1>3, OutputsAreTyped DEF Streams, RtmpDestination, Rtmp
<1>4. CASE d = NoSession
  <2>1. \A o \in Ids(Outputs) : d.outputs[o] = Absent
    BY <1>4 DEF NoSession
  <2>2. QED
    BY <1>1, <1>2, <2>1 DEF Streams, RtmpDestination, Rtmp
<1>5. QED
  BY <1>3, <1>4 DEF Docs

Untouched(run, op, after) ==
    /\ \A i \in Ids(Inputs) : ~OnInput(op, i) => after.port.inputs[i] = run.port.inputs[i]
    /\ \A o \in Ids(Outputs) : ~OnOutput(op, o) => after.port.outputs[o] = run.port.outputs[o]
    /\ \A e \in Ids(Encoders) : ~OnEncoder(op, e) =>
          after.port.encoders[e] = run.port.encoders[e] /\ after.port.dests[e] = run.port.dests[e]
    /\ \A x \in after.stopped \ run.stopped : Stops(op, x)
    /\ run.statuses \subseteq after.statuses

\* Ports that differ in one encoder and its destinations.
SetPort(p, q, e) ==
    /\ q \in Ports /\ q.inputs = p.inputs /\ q.outputs = p.outputs
    /\ \A x \in Ids(Encoders) \ {e} : q.encoders[x] = p.encoders[x] /\ q.dests[x] = p.dests[x]

LEMMA PortSet ==
    ASSUME NEW p \in Ports, NEW e \in Ids(Encoders), NEW c \in Configs
    PROVE  SetPort(p, [p EXCEPT !.encoders = [@ EXCEPT ![e] = c], !.dests = [@ EXCEPT ![e] = {}]], e)
<1> DEFINE encoders == [p.encoders EXCEPT ![e] = c]
           dests == [p.dests EXCEPT ![e] = {}]
           q == [p EXCEPT !.encoders = encoders, !.dests = dests]
<1>1. encoders \in [Ids(Encoders) -> Configs] /\ \A x \in Ids(Encoders) \ {e} : encoders[x] = p.encoders[x]
  BY DEF Ports
<1>2. dests \in [Ids(Encoders) -> SUBSET Dests] /\ \A x \in Ids(Encoders) \ {e} : dests[x] = p.dests[x]
  BY DEF Ports
<1>3. SetPort(p, q, e)
  <2> HIDE DEF encoders, dests
  <2>1. QED
    BY <1>1, <1>2 DEF SetPort, Ports
<1>4. QED
  BY <1>3

\* An operation of a plan changes only what it is on.
LEMMA OpEffect ==
    ASSUME NEW d \in Docs, NEW op \in Ops(d), NEW run \in Runs, NEW refusing
    PROVE  ApplyOp(run, op, refusing) \in Runs /\ Untouched(run, op, ApplyOp(run, op, refusing))
<1> DEFINE after == ApplyOp(run, op, refusing)
<1>1. /\ run = [port |-> run.port, statuses |-> run.statuses, stopped |-> run.stopped]
      /\ run.port \in Ports /\ run.statuses \subseteq Statuses /\ run.stopped \subseteq AllIds
  BY DEF Runs
<1>2. \A x \in AllIds : \A why \in {"ready", "failed", "down"} :
        Reported(run.statuses, x, why) \subseteq Statuses /\ run.statuses \subseteq Reported(run.statuses, x, why)
  <2>1. TAKE x \in AllIds
  <2>2. TAKE why \in {"ready", "failed", "down"}
  <2>3. Status(x, why) \in Statuses
    BY DEF Status, Statuses
  <2>4. QED
    BY <1>1, <2>3 DEF Reported
<1>3. Absent \in Configs
  BY DEF Configs
<1>4. ASSUME NEW i \in Ids(Inputs), op = DestroySource(i) PROVE after \in Runs /\ Untouched(run, op, after)
  <2>1. after = [port |-> [run.port EXCEPT !.inputs = [@ EXCEPT ![i] = Absent]],
                 statuses |-> run.statuses, stopped |-> run.stopped \cup {i}]
    BY <1>4, DoDestroySource
  <2>2. op.op = "DestroySource" /\ op.id = i
    BY <1>4 DEF DestroySource, Op
  <2> HIDE DEF after
  <2>3. QED
    BY <1>1, <1>3, <2>1, <2>2, IdFacts DEF Runs, Ports, Untouched, OnInput, OnOutput, OnEncoder, Stops, Adds
<1>5. ASSUME NEW o \in Ids(Outputs), op = RemoveOutput(o) PROVE after \in Runs /\ Untouched(run, op, after)
  <2>1. after = [port |-> [run.port EXCEPT !.outputs = [@ EXCEPT ![o] = Absent]],
                 statuses |-> run.statuses, stopped |-> run.stopped \cup {o}]
    BY <1>5, DoRemoveOutput
  <2>2. op.op = "RemoveOutput" /\ op.id = o
    BY <1>5 DEF RemoveOutput, Op
  <2> HIDE DEF after
  <2>3. QED
    BY <1>1, <1>3, <2>1, <2>2, IdFacts DEF Runs, Ports, Untouched, OnInput, OnOutput, OnEncoder, Stops, Adds
<1>6. ASSUME NEW e \in Ids(Encoders), op = RemoveEncoder(e) PROVE after \in Runs /\ Untouched(run, op, after)
  <2> DEFINE p == [run.port EXCEPT !.encoders = [@ EXCEPT ![e] = Absent], !.dests = [@ EXCEPT ![e] = {}]]
  <2>1. after = [port |-> p, statuses |-> run.statuses, stopped |-> run.stopped \cup {e}]
    BY <1>6, DoRemoveEncoder
  <2>2. op.op = "RemoveEncoder" /\ op.id = e
    BY <1>6 DEF RemoveEncoder, Op
  <2>3. SetPort(run.port, p, e)
    BY <1>1, <1>3, PortSet
  <2> HIDE DEF after, p
  <2>4. QED
    BY <1>1, <1>3, <2>1, <2>2, <2>3, IdFacts DEF SetPort, Runs, Untouched, OnInput, OnOutput, OnEncoder, Stops, Adds
<1>7. ASSUME NEW e \in Ids(Encoders), NEW o \in Ids(Outputs), op = RemoveDest(e, o)
      PROVE  after \in Runs /\ Untouched(run, op, after)
  <2> DEFINE rest == {x \in run.port.dests[e] : x.id # o}
  <2>1. after = [port |-> [run.port EXCEPT !.dests = [@ EXCEPT ![e] = rest]],
                 statuses |-> run.statuses, stopped |-> run.stopped \cup {o}]
    BY <1>7, DoRemoveDest
  <2>2. op.op = "RemoveDest" /\ op.id = o /\ op.enc = e
    BY <1>7 DEF RemoveDest, Op
  <2>3. rest \subseteq Dests
    BY <1>1 DEF Ports
  <2> HIDE DEF after, rest
  <2>4. QED
    BY <1>1, <1>3, <2>1, <2>2, <2>3, IdFacts DEF Runs, Ports, Untouched, OnInput, OnOutput, OnEncoder, Stops, Adds
<1>8. ASSUME NEW i \in Ids(Inputs), op = ConnectInput(i, d.inputs[i])
      PROVE  after \in Runs /\ Untouched(run, op, after)
  <2> DEFINE c == d.inputs[i]
  <2>1. after = IF i \in refusing
        THEN [port |-> run.port, statuses |-> Reported(run.statuses, i, "failed"), stopped |-> run.stopped]
        ELSE [port |-> [run.port EXCEPT !.inputs = [@ EXCEPT ![i] = c]],
              statuses |-> Reported(run.statuses, i, "ready"), stopped |-> run.stopped]
    BY <1>8, DoConnectInput
  <2>2. op.op = "ConnectInput" /\ op.id = i
    BY <1>8 DEF ConnectInput, Op
  <2>3. c \in Configs /\ \A why \in {"failed", "ready"} :
        Reported(run.statuses, i, why) \subseteq Statuses /\ run.statuses \subseteq Reported(run.statuses, i, why)
    BY <1>2, DocFacts, IdFacts
  <2> HIDE DEF after, c
  <2>4. QED
    BY <1>1, <2>1, <2>2, <2>3, IdFacts DEF Runs, Ports, Untouched, OnInput, OnOutput, OnEncoder, Stops, Adds
<1>9. ASSUME NEW o \in Outlets(d), op = AddOutput(o, d.outputs[o])
      PROVE  after \in Runs /\ Untouched(run, op, after)
  <2> DEFINE c == d.outputs[o]
  <2>1. after = IF o \in refusing
        THEN [port |-> run.port, statuses |-> Reported(run.statuses, o, "failed"), stopped |-> run.stopped]
        ELSE [port |-> [run.port EXCEPT !.outputs = [@ EXCEPT ![o] = c]],
              statuses |-> Reported(run.statuses, o, "ready"), stopped |-> run.stopped]
    BY <1>9, DoAddOutput
  <2>2. op.op = "AddOutput" /\ op.id = o
    BY <1>9 DEF AddOutput, Op
  <2>3. o \in Ids(Outputs)
    BY DEF Outlets
  <2>4. c \in Configs /\ \A why \in {"failed", "ready"} :
        Reported(run.statuses, o, why) \subseteq Statuses /\ run.statuses \subseteq Reported(run.statuses, o, why)
    BY <1>2, <2>3, DocFacts, IdFacts
  <2> HIDE DEF after, c
  <2>5. QED
    BY <1>1, <2>1, <2>2, <2>3, <2>4, IdFacts DEF Runs, Ports, Untouched, OnInput, OnOutput, OnEncoder, Stops, Adds
<1>10. ASSUME NEW e \in Streaming(d), op = AddEncoder(e, d.encoders[e])
       PROVE  after \in Runs /\ Untouched(run, op, after)
  <2> DEFINE c == d.encoders[e]
             p == [run.port EXCEPT !.encoders = [@ EXCEPT ![e] = c], !.dests = [@ EXCEPT ![e] = {}]]
  <2>1. after = IF e \in refusing
        THEN [port |-> run.port, statuses |-> Reported(run.statuses, e, "failed"), stopped |-> run.stopped]
        ELSE [port |-> p, statuses |-> Reported(run.statuses, e, "ready"), stopped |-> run.stopped]
    BY <1>10, DoAddEncoder
  <2>2. op.op = "AddEncoder" /\ op.id = e
    BY <1>10 DEF AddEncoder, Op
  <2>3. e \in Ids(Encoders)
    BY DEF Streaming, EncodersOf
  <2>4. c \in Configs /\ \A why \in {"failed", "ready"} :
        Reported(run.statuses, e, why) \subseteq Statuses /\ run.statuses \subseteq Reported(run.statuses, e, why)
    BY <1>2, <2>3, DocFacts, IdFacts
  <2>5. SetPort(run.port, p, e)
    BY <1>1, <2>3, <2>4, PortSet
  <2> HIDE DEF after, c, p
  <2>6. QED
    BY <1>1, <2>1, <2>2, <2>3, <2>4, <2>5, IdFacts DEF SetPort, Runs, Untouched, OnInput, OnOutput, OnEncoder, Stops, Adds
<1>11. ASSUME NEW o \in Streams(d), op = AddDest(o, d.outputs[o])
       PROVE  after \in Runs /\ Untouched(run, op, after)
  <2> DEFINE dto == d.outputs[o]
             e == dto.encoder
             dest == [id |-> o, cfg |-> dto.cfg]
             with == {x \in run.port.dests[e] : x.id # o} \cup {dest}
  <2>0. after = ApplyOp(run, AddDest(o, dto), refusing)
    BY <1>11
  <2> HIDE DEF dto, after
  <2>1. after = IF o \in refusing
        THEN [port |-> run.port, statuses |-> Reported(run.statuses, o, "failed"), stopped |-> run.stopped]
        ELSE IF e = Absent \/ run.port.encoders[e] = Absent
        THEN [port |-> run.port, statuses |-> Reported(run.statuses, o, "down"), stopped |-> run.stopped]
        ELSE [port |-> [run.port EXCEPT !.dests = [@ EXCEPT ![e] = with]],
              statuses |-> Reported(run.statuses, o, "ready"), stopped |-> run.stopped]
    BY <2>0, DoAddDest
  <2> USE DEF dto
  <2>2. op.op = "AddDest" /\ op.id = o /\ op.enc = e
    BY <1>11 DEF AddDest, Op
  <2>3. o \in Ids(Outputs) /\ e \in Ids(Encoders) \cup {Absent} /\ dest \in Dests
    BY DocFacts
  <2>4. \A why \in {"ready", "failed", "down"} :
        Reported(run.statuses, o, why) \subseteq Statuses /\ run.statuses \subseteq Reported(run.statuses, o, why)
    BY <1>2, <2>3, IdFacts
  <2>5. e \in Ids(Encoders) => with \subseteq Dests
    BY <1>1, <2>3 DEF Ports
  <2> HIDE DEF after, with, dest, e
  <2>6. QED
    BY <1>1, <2>1, <2>2, <2>3, <2>4, <2>5, IdFacts DEF Runs, Ports, Untouched, OnInput, OnOutput, OnEncoder, Stops, Adds
<1>12. ASSUME NEW i \in Ids(Inputs), op = FailInput(i)
       PROVE  after \in Runs /\ Untouched(run, op, after)
  <2>1. after = [port |-> run.port, statuses |-> Reported(run.statuses, i, "failed"), stopped |-> run.stopped]
    BY <1>12, DoFailInput
  <2>2. Reported(run.statuses, i, "failed") \subseteq Statuses /\ run.statuses \subseteq Reported(run.statuses, i, "failed")
    BY <1>2, IdFacts
  <2> HIDE DEF after
  <2>3. QED
    BY <1>1, <2>1, <2>2 DEF Runs, Untouched
<1>13. QED
  BY <1>4, <1>5, <1>6, <1>7, <1>8, <1>9, <1>10, <1>11, <1>12, OpCases
-----------------------------------------------------------------------------
(* What may run, and what the operations of a plan keep of it *)

\* Of an input of document d, of an output, of an encoder and of one of its
\* destinations, what may run.
InputAs(i, d) == {r \in Runs : r.port.inputs[i] # Absent => DesiredEqual(r.port.inputs[i], d.inputs[i])}
OutputAs(o, d) == {r \in Runs : r.port.outputs[o] # Absent => r.port.outputs[o] = d.outputs[o] /\ o \in Outlets(d)}
EncoderAs(e, d) == {r \in Runs :
    /\ r.port.encoders[e] # Absent => r.port.encoders[e] = d.encoders[e] /\ DestsOf(d, e) # {}
    /\ r.port.encoders[e] = Absent => r.port.dests[e] = {}}
DestAs(e, o, d) == {r \in Runs :
    \A x \in r.port.dests[e] : x.id = o => x.cfg = d.outputs[o].cfg /\ o \in DestsOf(d, e)}
Off(e) == {r \in Runs : r.port.encoders[e] = Absent /\ r.port.dests[e] = {}}

\* The operations of a plan that are on one input, output or encoder.
InputOps(d, i) == {DestroySource(i), ConnectInput(i, d.inputs[i]), FailInput(i)}
OutputOps(d, o) == {RemoveOutput(o)} \cup {AddOutput(x, d.outputs[x]) : x \in Outlets(d) \cap {o}}
EncoderOps(d, e) ==
    {RemoveEncoder(e)} \cup {RemoveDest(e, o) : o \in Ids(Outputs)}
      \cup {AddEncoder(x, d.encoders[x]) : x \in Streaming(d) \cap {e}}
      \cup {AddDest(o, d.outputs[o]) : o \in DestsOf(d, e)}
LateOps(d) == {AddDest(o, d.outputs[o]) : o \in Unserved(d)}

\* They are operations of the plan and are on nothing else.
LEMMA OpSets ==
    ASSUME NEW d \in Docs
    PROVE  /\ \A i \in Ids(Inputs) : \A op \in InputOps(d, i) :
                 /\ op \in Ops(d) /\ \A o : ~OnOutput(op, o) /\ ~OnEncoder(op, o)
                 /\ \A x : (OnInput(op, x) \/ Stops(op, x)) => x = i
           /\ \A o \in Ids(Outputs) : \A op \in OutputOps(d, o) :
                 /\ op \in Ops(d) /\ \A i : ~OnInput(op, i) /\ ~OnEncoder(op, i)
                 /\ \A x : (OnOutput(op, x) \/ Stops(op, x)) => x = o
           /\ \A e \in Ids(Encoders) : \A op \in EncoderOps(d, e) :
                 /\ op \in Ops(d) /\ \A i : ~OnInput(op, i) /\ ~OnOutput(op, i)
                 /\ \A x : OnEncoder(op, x) => x = e
           /\ \A op \in LateOps(d) :
                 /\ op \in Ops(d) /\ \A i : ~OnInput(op, i) /\ ~OnOutput(op, i) /\ ~Stops(op, i)
                 /\ \A x \in EncodersOf(d) : ~OnEncoder(op, x)
<1>1. ASSUME NEW i \in Ids(Inputs), NEW op \in InputOps(d, i)
      PROVE  /\ op \in Ops(d) /\ \A o : ~OnOutput(op, o) /\ ~OnEncoder(op, o)
             /\ \A x : (OnInput(op, x) \/ Stops(op, x)) => x = i
  <2>1. op \in Ops(d) /\ op.id = i /\ op.op \in {"DestroySource", "ConnectInput", "FailInput"}
    BY DEF InputOps, Ops, DestroySource, ConnectInput, FailInput, Op
  <2>2. QED
    BY <2>1 DEF OnOutput, OnEncoder, OnInput, Stops
<1>2. ASSUME NEW o \in Ids(Outputs), NEW op \in OutputOps(d, o)
      PROVE  /\ op \in Ops(d) /\ \A i : ~OnInput(op, i) /\ ~OnEncoder(op, i)
             /\ \A x : (OnOutput(op, x) \/ Stops(op, x)) => x = o
  <2>1. op \in Ops(d) /\ op.id = o /\ op.op \in {"RemoveOutput", "AddOutput"}
    BY DEF OutputOps, Ops, RemoveOutput, AddOutput, Op
  <2>2. QED
    BY <2>1 DEF OnOutput, OnEncoder, OnInput, Stops
<1>3. ASSUME NEW e \in Ids(Encoders), NEW op \in EncoderOps(d, e)
      PROVE  /\ op \in Ops(d) /\ \A i : ~OnInput(op, i) /\ ~OnOutput(op, i)
             /\ \A x : OnEncoder(op, x) => x = e
  <2>1. \/ op = RemoveEncoder(e)
        \/ \E o \in Ids(Outputs) : op = RemoveDest(e, o)
        \/ e \in Streaming(d) /\ op = AddEncoder(e, d.encoders[e])
        \/ \E o \in Streams(d) : op = AddDest(o, d.outputs[o]) /\ d.outputs[o].encoder = e
    BY DEF EncoderOps, DestsOf, Streams
  <2>2. op \in Ops(d)
    BY <2>1 DEF Ops
  <2>3. \/ op.op \in {"RemoveEncoder", "AddEncoder"} /\ op.id = e
        \/ op.op \in {"RemoveDest", "AddDest"} /\ op.enc = e
    BY <2>1 DEF RemoveEncoder, RemoveDest, AddEncoder, AddDest, Op
  <2>4. QED
    BY <2>2, <2>3 DEF OnOutput, OnEncoder, OnInput
<1>4. ASSUME NEW op \in LateOps(d)
      PROVE  /\ op \in Ops(d) /\ \A i : ~OnInput(op, i) /\ ~OnOutput(op, i) /\ ~Stops(op, i)
             /\ \A x \in EncodersOf(d) : ~OnEncoder(op, x)
  <2>1. PICK o \in Streams(d) : op = AddDest(o, d.outputs[o]) /\ d.outputs[o].encoder \notin EncodersOf(d)
    BY DEF LateOps, Unserved, Streams
  <2>2. op \in Ops(d)
    BY <2>1 DEF Ops
  <2>3. op.op = "AddDest" /\ op.enc \notin EncodersOf(d)
    BY <2>1 DEF AddDest, Op
  <2>4. QED
    BY <2>2, <2>3 DEF OnOutput, OnEncoder, OnInput, Stops, Adds
<1>5. QED
  BY <1>1, <1>2, <1>3, <1>4

\* What an operation is not on stays as it may be.
LEMMA Elsewhere ==
    ASSUME NEW d \in Docs, NEW op \in Ops(d), NEW c \in Docs, NEW run, NEW refusing
    PROVE  /\ \A i \in Ids(Inputs) : run \in InputAs(i, c) /\ ~OnInput(op, i) =>
                 ApplyOp(run, op, refusing) \in InputAs(i, c)
           /\ \A o \in Ids(Outputs) : run \in OutputAs(o, c) /\ ~OnOutput(op, o) =>
                 ApplyOp(run, op, refusing) \in OutputAs(o, c)
           /\ \A e \in Ids(Encoders) : run \in EncoderAs(e, c) /\ ~OnEncoder(op, e) =>
                 ApplyOp(run, op, refusing) \in EncoderAs(e, c)
           /\ \A e \in Ids(Encoders), o \in Ids(Outputs) : run \in DestAs(e, o, c) /\ ~OnEncoder(op, e) =>
                 ApplyOp(run, op, refusing) \in DestAs(e, o, c)
           /\ \A e \in Ids(Encoders) : run \in Off(e) /\ ~OnEncoder(op, e) =>
                 ApplyOp(run, op, refusing) \in Off(e)
<1> DEFINE after == ApplyOp(run, op, refusing)
<1>1. run \in Runs => after \in Runs /\ Untouched(run, op, after)
  BY OpEffect
<1> HIDE DEF after
<1>2. QED
  BY <1>1 DEF Untouched, InputAs, OutputAs, EncoderAs, DestAs, Off, after

\* The operations of a plan that leads to d keep what may run of d.
LEMMA InputKept ==
    ASSUME NEW d \in Docs, NEW op \in Ops(d), NEW i \in Ids(Inputs), NEW run \in InputAs(i, d), NEW refusing
    PROVE  ApplyOp(run, op, refusing) \in InputAs(i, d)
<1> DEFINE after == ApplyOp(run, op, refusing)
<1>1. /\ run \in Runs /\ run.port \in Ports
      /\ run.port.inputs[i] # Absent => DesiredEqual(run.port.inputs[i], d.inputs[i])
  BY DEF InputAs, Runs
<1>2. after \in Runs
  BY <1>1, OpEffect
<1>3. CASE ~OnInput(op, i)
  BY <1>3, Elsewhere
<1>4. CASE op = DestroySource(i)
  BY <1>1, <1>2, <1>4, DoDestroySource DEF InputAs, Ports
<1>5. CASE op = ConnectInput(i, d.inputs[i])
  BY <1>1, <1>2, <1>5, DoConnectInput DEF InputAs, Ports, DesiredEqual
<1>6. OnInput(op, i) => op = DestroySource(i) \/ op = ConnectInput(i, d.inputs[i])
  BY OpCases DEF OnInput, DestroySource, ConnectInput, FailInput, RemoveOutput, AddOutput, RemoveEncoder, AddEncoder,
                 RemoveDest, AddDest, Op
<1>7. QED
  BY <1>3, <1>4, <1>5, <1>6

LEMMA OutputKept ==
    ASSUME NEW d \in Docs, NEW op \in Ops(d), NEW o \in Ids(Outputs), NEW run \in OutputAs(o, d), NEW refusing
    PROVE  ApplyOp(run, op, refusing) \in OutputAs(o, d)
<1> DEFINE after == ApplyOp(run, op, refusing)
<1>1. /\ run \in Runs /\ run.port \in Ports
      /\ run.port.outputs[o] # Absent => run.port.outputs[o] = d.outputs[o] /\ o \in Outlets(d)
  BY DEF OutputAs, Runs
<1>2. after \in Runs
  BY <1>1, OpEffect
<1>3. CASE ~OnOutput(op, o)
  BY <1>3, Elsewhere
<1>4. CASE op = RemoveOutput(o)
  BY <1>1, <1>2, <1>4, DoRemoveOutput DEF OutputAs, Ports
<1>5. CASE op = AddOutput(o, d.outputs[o]) /\ o \in Outlets(d)
  BY <1>1, <1>2, <1>5, DoAddOutput DEF OutputAs, Ports
<1>6. OnOutput(op, o) => op = RemoveOutput(o) \/ (op = AddOutput(o, d.outputs[o]) /\ o \in Outlets(d))
  BY OpCases DEF OnOutput, DestroySource, ConnectInput, FailInput, RemoveOutput, AddOutput, RemoveEncoder, AddEncoder,
                 RemoveDest, AddDest, Op
<1>7. QED
  BY <1>3, <1>4, <1>5, <1>6

\* The operations on an encoder.
LEMMA EncoderCases ==
    ASSUME NEW d \in Docs, NEW op \in Ops(d), NEW e \in Ids(Encoders), OnEncoder(op, e)
    PROVE  op \in EncoderOps(d, e)
<1>1. CASE op = RemoveEncoder(e) \/ \E o \in Ids(Outputs) : op = RemoveDest(e, o)
  BY <1>1 DEF EncoderOps
<1>2. CASE e \in Streaming(d) /\ op = AddEncoder(e, d.encoders[e])
  BY <1>2 DEF EncoderOps
<1>3. CASE \E o \in Streams(d) : op = AddDest(o, d.outputs[o]) /\ d.outputs[o].encoder = e
  BY <1>3 DEF EncoderOps, Streams, DestsOf
<1>4. QED
  BY <1>1, <1>2, <1>3, OpCases
  DEF OnEncoder, DestroySource, ConnectInput, FailInput, RemoveOutput, AddOutput, RemoveEncoder, AddEncoder,
      RemoveDest, AddDest, Op

\* The effect of an operation on an encoder, on that encoder and its destinations.
LEMMA RemoveEncoderDoes ==
    ASSUME NEW d \in Docs, NEW e \in Ids(Encoders), NEW run \in Runs, NEW refusing,
           NEW after, after = ApplyOp(run, RemoveEncoder(e), refusing)
    PROVE  after \in Off(e)
<1>1. run.port \in Ports
  BY DEF Runs
<1>2. RemoveEncoder(e) \in Ops(d)
  BY DEF Ops
<1>3. after \in Runs
  BY <1>2, OpEffect
<1>4. after = [port |-> [run.port EXCEPT !.encoders = [@ EXCEPT ![e] = Absent], !.dests = [@ EXCEPT ![e] = {}]],
               statuses |-> run.statuses, stopped |-> run.stopped \cup {e}]
  BY DoRemoveEncoder
<1>5. \A p \in Ports : LET q == [p EXCEPT !.encoders = [@ EXCEPT ![e] = Absent], !.dests = [@ EXCEPT ![e] = {}]]
                     IN  q.encoders[e] = Absent /\ q.dests[e] = {}
  BY DEF Ports
<1>6. after.port = [run.port EXCEPT !.encoders = [@ EXCEPT ![e] = Absent], !.dests = [@ EXCEPT ![e] = {}]]
  BY <1>4
<1>7. after.port.encoders[e] = Absent /\ after.port.dests[e] = {}
  BY <1>1, <1>5, <1>6
<1>8. QED
  BY <1>3, <1>7 DEF Off

LEMMA RemoveDestDoes ==
    ASSUME NEW d \in Docs, NEW e \in Ids(Encoders), NEW o \in Ids(Outputs), NEW run \in Runs, NEW refusing,
           NEW after, after = ApplyOp(run, RemoveDest(e, o), refusing)
    PROVE  /\ after \in Runs /\ after.port.encoders[e] = run.port.encoders[e]
           /\ after.port.dests[e] = {x \in run.port.dests[e] : x.id # o}
<1> DEFINE rest == {x \in run.port.dests[e] : x.id # o}
<1>1. run.port \in Ports
  BY DEF Runs
<1>2. RemoveDest(e, o) \in Ops(d)
  BY DEF Ops
<1>3. after \in Runs
  BY <1>2, OpEffect
<1>4. after = [port |-> [run.port EXCEPT !.dests = [@ EXCEPT ![e] = rest]],
               statuses |-> run.statuses, stopped |-> run.stopped \cup {o}]
  BY DoRemoveDest
<1> HIDE DEF rest
<1>5. after.port.encoders[e] = run.port.encoders[e] /\ after.port.dests[e] = rest
  BY <1>1, <1>4 DEF Ports
<1>6. QED
  BY <1>3, <1>5 DEF rest

EncoderAdded(run, after, d, e, refusing) ==
    /\ after \in Runs
    /\ e \notin refusing => after.port.encoders[e] = d.encoders[e] /\ after.port.dests[e] = {}
    /\ e \in refusing => after.port = run.port

LEMMA AddEncoderDoes ==
    ASSUME NEW d \in Docs, NEW e \in Streaming(d), NEW run \in Runs, NEW refusing
    PROVE  EncoderAdded(run, ApplyOp(run, AddEncoder(e, d.encoders[e]), refusing), d, e, refusing)
<1> DEFINE c == d.encoders[e]
           after == ApplyOp(run, AddEncoder(e, c), refusing)
<1>1. run.port \in Ports /\ e \in Ids(Encoders)
  BY DEF Runs, Streaming, EncodersOf
<1>2. AddEncoder(e, c) \in Ops(d)
  BY DEF Ops
<1>3. after \in Runs
  BY <1>2, OpEffect
<1>4. after = IF e \in refusing
      THEN [port |-> run.port, statuses |-> Reported(run.statuses, e, "failed"), stopped |-> run.stopped]
      ELSE [port |-> [run.port EXCEPT !.encoders = [@ EXCEPT ![e] = c], !.dests = [@ EXCEPT ![e] = {}]],
            statuses |-> Reported(run.statuses, e, "ready"), stopped |-> run.stopped]
  BY DoAddEncoder
<1> HIDE DEF c, after
<1>5. /\ e \notin refusing => after.port.encoders[e] = c /\ after.port.dests[e] = {}
      /\ e \in refusing => after.port = run.port
  BY <1>1, <1>4 DEF Ports
<1>6. QED
  BY <1>3, <1>5 DEF c, after, EncoderAdded

DestAdded(run, after, d, e, o, refusing) ==
    /\ after \in Runs /\ after.port.encoders[e] = run.port.encoders[e]
    /\ run.port.encoders[e] = Absent => after.port.dests[e] = run.port.dests[e]
    /\ \/ after.port.dests[e] = run.port.dests[e]
       \/ after.port.dests[e] = {x \in run.port.dests[e] : x.id # o} \cup {[id |-> o, cfg |-> d.outputs[o].cfg]}
    /\ o \notin refusing =>
          \/ InTrouble(after.statuses, o) /\ run.port.encoders[e] = Absent
          \/ [id |-> o, cfg |-> d.outputs[o].cfg] \in after.port.dests[e]

LEMMA AddDestDoes ==
    ASSUME NEW d \in Docs, NEW e \in Ids(Encoders), NEW o \in DestsOf(d, e), NEW run \in Runs, NEW refusing
    PROVE  DestAdded(run, ApplyOp(run, AddDest(o, d.outputs[o]), refusing), d, e, o, refusing)
<1> DEFINE dto == d.outputs[o]
           after == ApplyOp(run, AddDest(o, dto), refusing)
           dest == [id |-> o, cfg |-> dto.cfg]
           with == {x \in run.port.dests[e] : x.id # o} \cup {dest}
<1>0. run.port \in Ports
  BY DEF Runs
<1>1. AddDest(o, dto) \in Ops(d) /\ dto.encoder = e /\ e # Absent
  BY IdFacts DEF Ops, Streams, DestsOf
<1>2. after \in Runs
  BY <1>1, OpEffect
<1> HIDE DEF dto
<1>3. after = ApplyOp(run, AddDest(o, dto), refusing)
  OBVIOUS
<1>4. after = IF o \in refusing
      THEN [port |-> run.port, statuses |-> Reported(run.statuses, o, "failed"), stopped |-> run.stopped]
      ELSE IF run.port.encoders[e] = Absent
      THEN [port |-> run.port, statuses |-> Reported(run.statuses, o, "down"), stopped |-> run.stopped]
      ELSE [port |-> [run.port EXCEPT !.dests = [@ EXCEPT ![e] = with]],
            statuses |-> Reported(run.statuses, o, "ready"), stopped |-> run.stopped]
  BY <1>1, <1>3, DoAddDest
<1>5. dest \in with
  OBVIOUS
<1> HIDE DEF with, dest, after
<1>9. InTrouble(Reported(run.statuses, o, "down"), o)
  <2>1. CASE InTrouble(run.statuses, o)
    BY <2>1 DEF Reported
  <2>2. CASE ~InTrouble(run.statuses, o)
    <3>1. Status(o, "down") \in Reported(run.statuses, o, "down")
      BY <2>2 DEF Reported
    <3>2. Status(o, "down").id = StatusId[o] /\ Status(o, "down").why # "ready"
      BY DEF Status
    <3>3. QED
      BY <3>1, <3>2 DEF InTrouble
  <2>3. QED
    BY <2>1, <2>2
<1>6. /\ after.port.encoders[e] = run.port.encoders[e]
      /\ run.port.encoders[e] = Absent => after.port.dests[e] = run.port.dests[e]
      /\ after.port.dests[e] = run.port.dests[e] \/ after.port.dests[e] = with
      /\ o \notin refusing =>
            (InTrouble(after.statuses, o) /\ run.port.encoders[e] = Absent) \/ dest \in after.port.dests[e]
  BY <1>0, <1>4, <1>5, <1>9 DEF Ports
<1>7. DestAdded(run, after, d, e, o, refusing)
  BY <1>2, <1>6 DEF with, dest, dto, DestAdded
<1>8. QED
  BY <1>7 DEF after, dto

\* The kinds of operations on an encoder.
LEMMA EncoderOpCases ==
    ASSUME NEW d \in Docs, NEW e \in Ids(Encoders), NEW op \in EncoderOps(d, e)
    PROVE  \/ op = RemoveEncoder(e)
           \/ \E o \in Ids(Outputs) : op = RemoveDest(e, o)
           \/ e \in Streaming(d) /\ op = AddEncoder(e, d.encoders[e])
           \/ \E o \in DestsOf(d, e) : op = AddDest(o, d.outputs[o])
BY DEF EncoderOps

\* They keep what may run of an encoder and of a destination.
LEMMA EncoderKept ==
    ASSUME NEW d \in Docs, NEW op \in Ops(d), NEW e \in Ids(Encoders), NEW run \in EncoderAs(e, d), NEW refusing
    PROVE  ApplyOp(run, op, refusing) \in EncoderAs(e, d)
<1>1. CASE ~OnEncoder(op, e)
  BY <1>1, Elsewhere
<1>2. CASE OnEncoder(op, e)
  <2>1. op \in EncoderOps(d, e) /\ run \in Runs
    BY <1>2, EncoderCases DEF EncoderAs
  <2>2. /\ run.port.encoders[e] # Absent => run.port.encoders[e] = d.encoders[e] /\ DestsOf(d, e) # {}
        /\ run.port.encoders[e] = Absent => run.port.dests[e] = {}
    BY DEF EncoderAs
  <2>3. CASE op = RemoveEncoder(e)
    BY <2>1, <2>3, RemoveEncoderDoes DEF Off, EncoderAs
  <2>4. ASSUME NEW o \in Ids(Outputs), op = RemoveDest(e, o) PROVE ApplyOp(run, op, refusing) \in EncoderAs(e, d)
    <3> DEFINE after == ApplyOp(run, op, refusing)
    <3>0. after = ApplyOp(run, RemoveDest(e, o), refusing)
      BY <2>4
    <3> HIDE DEF after
    <3>1. /\ after \in Runs /\ after.port.encoders[e] = run.port.encoders[e]
          /\ after.port.dests[e] = {x \in run.port.dests[e] : x.id # o}
      BY <2>1, <2>4, <3>0, RemoveDestDoes
    <3>2. QED
      BY <2>2, <3>1 DEF EncoderAs, after
  <2>5. ASSUME e \in Streaming(d), op = AddEncoder(e, d.encoders[e]) PROVE ApplyOp(run, op, refusing) \in EncoderAs(e, d)
    <3> DEFINE after == ApplyOp(run, op, refusing)
    <3>0. after = ApplyOp(run, AddEncoder(e, d.encoders[e]), refusing)
      BY <2>5
    <3> HIDE DEF after
    <3>1. EncoderAdded(run, after, d, e, refusing)
      BY <2>1, <2>5, <3>0, AddEncoderDoes
    <3>2. DestsOf(d, e) # {}
      BY <2>5 DEF Streaming
    <3>3. QED
      BY <2>2, <3>1, <3>2 DEF EncoderAs, after, EncoderAdded
  <2>6. ASSUME NEW o \in DestsOf(d, e), op = AddDest(o, d.outputs[o]) PROVE ApplyOp(run, op, refusing) \in EncoderAs(e, d)
    <3> DEFINE after == ApplyOp(run, op, refusing)
    <3>0. after = ApplyOp(run, AddDest(o, d.outputs[o]), refusing)
      BY <2>6
    <3> HIDE DEF after
    <3>1. DestAdded(run, after, d, e, o, refusing)
      BY <2>1, <2>6, <3>0, AddDestDoes
    <3>2. QED
      BY <2>2, <3>1 DEF EncoderAs, after, DestAdded
  <2>7. QED
    BY <2>1, <2>3, <2>4, <2>5, <2>6, EncoderOpCases
<1>3. QED
  BY <1>1, <1>2

LEMMA DestKept ==
    ASSUME NEW d \in Docs, NEW op \in Ops(d), NEW e \in Ids(Encoders), NEW o \in Ids(Outputs),
           NEW run \in DestAs(e, o, d), NEW refusing
    PROVE  ApplyOp(run, op, refusing) \in DestAs(e, o, d)
<1>1. CASE ~OnEncoder(op, e)
  BY <1>1, Elsewhere
<1>2. CASE OnEncoder(op, e)
  <2> DEFINE after == ApplyOp(run, op, refusing)
  <2>1. op \in EncoderOps(d, e) /\ run \in Runs
    BY <1>2, EncoderCases DEF DestAs
  <2>2. \A x \in run.port.dests[e] : x.id = o => x.cfg = d.outputs[o].cfg /\ o \in DestsOf(d, e)
    BY DEF DestAs
  <2>3. CASE op = RemoveEncoder(e)
    <3>0. after = ApplyOp(run, RemoveEncoder(e), refusing)
      BY <2>3
    <3> HIDE DEF after
    <3>1. after \in Off(e)
      BY <2>1, <2>3, <3>0, RemoveEncoderDoes
    <3>2. QED
      BY <3>1 DEF Off, DestAs, after
  <2>4. ASSUME NEW y \in Ids(Outputs), op = RemoveDest(e, y) PROVE after \in DestAs(e, o, d)
    <3>0. after = ApplyOp(run, RemoveDest(e, y), refusing)
      BY <2>4
    <3> HIDE DEF after
    <3>1. after \in Runs /\ after.port.dests[e] = {x \in run.port.dests[e] : x.id # y}
      BY <2>1, <2>4, <3>0, RemoveDestDoes
    <3>2. QED
      BY <2>2, <3>1 DEF DestAs, after
  <2>5. ASSUME e \in Streaming(d), op = AddEncoder(e, d.encoders[e]) PROVE after \in DestAs(e, o, d)
    <3>0. after = ApplyOp(run, AddEncoder(e, d.encoders[e]), refusing)
      BY <2>5
    <3> HIDE DEF after
    <3>1. EncoderAdded(run, after, d, e, refusing)
      BY <2>1, <2>5, <3>0, AddEncoderDoes
    <3>2. QED
      BY <2>2, <3>1 DEF DestAs, after, EncoderAdded
  <2>6. ASSUME NEW y \in DestsOf(d, e), op = AddDest(y, d.outputs[y]) PROVE after \in DestAs(e, o, d)
    <3>0. after = ApplyOp(run, AddDest(y, d.outputs[y]), refusing)
      BY <2>6
    <3> HIDE DEF after
    <3>1. DestAdded(run, after, d, e, y, refusing)
      BY <2>1, <2>6, <3>0, AddDestDoes
    <3>2. QED
      BY <2>2, <3>1 DEF DestAs, after, DestAdded
  <2>7. QED
    BY <2>1, <2>3, <2>4, <2>5, <2>6, EncoderOpCases
<1>3. QED
  BY <1>1, <1>2

-----------------------------------------------------------------------------
(* From what may run of one document to what may run of the next *)

\* What a list consists of.
LEMMA SeqOne == ASSUME NEW S, NEW x \in S PROVE <<x>> \in Seq(S)
OBVIOUS

LEMMA SeqJoin == ASSUME NEW S, NEW s \in Seq(S), NEW t \in Seq(S) PROVE s \o t \in Seq(S)
OBVIOUS

LEMMA SeqWhen ==
    ASSUME NEW S, NEW condition, NEW s, condition => s \in Seq(S)
    PROVE  When(condition, s) \in Seq(S)
<1>1. <<>> \in Seq(S)
  OBVIOUS
<1>2. QED
  BY <1>1 DEF When

LEMMA SeqWider == ASSUME NEW T, NEW S, S \subseteq T, NEW s \in Seq(S) PROVE s \in Seq(T)
OBVIOUS

\* An operation that is only there under a condition.
LEMMA LeadsWhen ==
    ASSUME NEW A, NEW B, NEW refusing, NEW condition, NEW s,
           condition => Leads(A, s, refusing, B), ~condition => A \subseteq B
    PROVE  Leads(A, When(condition, s), refusing, B)
<1>1. CASE condition
  BY <1>1 DEF When
<1>2. CASE ~condition
  BY <1>2, LeadsNone DEF When
<1>3. QED
  BY <1>1, <1>2

\* From more than A leads on to less than B.
LEMMA LeadsIn ==
    ASSUME NEW A, NEW B, NEW refusing, NEW C, NEW D, NEW s, Leads(A, s, refusing, B), C \subseteq A, B \subseteq D
    PROVE  Leads(C, s, refusing, D)
BY DEF Leads

\* Every list of operations of a plan keeps what its document wants.
LEMMA ListKeeps ==
    ASSUME NEW d \in Docs, NEW s \in Seq(Ops(d)), NEW refusing
    PROVE  /\ \A i \in Ids(Inputs) : Leads(InputAs(i, d), s, refusing, InputAs(i, d))
           /\ \A o \in Ids(Outputs) : Leads(OutputAs(o, d), s, refusing, OutputAs(o, d))
           /\ \A e \in Ids(Encoders) : Leads(EncoderAs(e, d), s, refusing, EncoderAs(e, d))
           /\ \A e \in Ids(Encoders), o \in Ids(Outputs) : Leads(DestAs(e, o, d), s, refusing, DestAs(e, o, d))
           /\ Leads(Runs, s, refusing, Runs)
<1> DEFINE O == Ops(d)
<1>0. s \in Seq(O)
  OBVIOUS
<1>1. \A op \in O : \A r \in Runs : ApplyOp(r, op, refusing) \in Runs
  BY OpEffect
<1>2. \A i \in Ids(Inputs) : \A op \in O : \A r \in InputAs(i, d) : ApplyOp(r, op, refusing) \in InputAs(i, d)
  BY InputKept
<1>3. \A o \in Ids(Outputs) : \A op \in O : \A r \in OutputAs(o, d) : ApplyOp(r, op, refusing) \in OutputAs(o, d)
  BY OutputKept
<1>4. \A e \in Ids(Encoders) : \A op \in O : \A r \in EncoderAs(e, d) : ApplyOp(r, op, refusing) \in EncoderAs(e, d)
  BY EncoderKept
<1>5. \A e \in Ids(Encoders), o \in Ids(Outputs) : \A op \in O : \A r \in DestAs(e, o, d) :
         ApplyOp(r, op, refusing) \in DestAs(e, o, d)
  BY DestKept
<1> HIDE DEF O
<1>6. QED
  BY <1>0, <1>1, <1>2, <1>3, <1>4, <1>5, LeadsBack, Zenon

\* Operations that are not on it leave alone what any document wants.
LEMMA ListElsewhere ==
    ASSUME NEW d \in Docs, NEW c \in Docs, NEW O, O \subseteq Ops(d), NEW s \in Seq(O), NEW refusing
    PROVE  /\ \A i \in Ids(Inputs) : (\A op \in O : ~OnInput(op, i)) =>
                 Leads(InputAs(i, c), s, refusing, InputAs(i, c))
           /\ \A o \in Ids(Outputs) : (\A op \in O : ~OnOutput(op, o)) =>
                 Leads(OutputAs(o, c), s, refusing, OutputAs(o, c))
           /\ \A e \in Ids(Encoders) : (\A op \in O : ~OnEncoder(op, e)) =>
                 /\ Leads(EncoderAs(e, c), s, refusing, EncoderAs(e, c))
                 /\ \A o \in Ids(Outputs) : Leads(DestAs(e, o, c), s, refusing, DestAs(e, o, c))
                 /\ Leads(Off(e), s, refusing, Off(e))
<1>1. ASSUME NEW i \in Ids(Inputs), \A op \in O : ~OnInput(op, i)
      PROVE  Leads(InputAs(i, c), s, refusing, InputAs(i, c))
  <2>1. \A op \in O : \A r \in InputAs(i, c) : ApplyOp(r, op, refusing) \in InputAs(i, c)
    BY <1>1, Elsewhere, Zenon
  <2>2. QED
    BY <2>1, LeadsBack, Zenon
<1>2. ASSUME NEW o \in Ids(Outputs), \A op \in O : ~OnOutput(op, o)
      PROVE  Leads(OutputAs(o, c), s, refusing, OutputAs(o, c))
  <2>1. \A op \in O : \A r \in OutputAs(o, c) : ApplyOp(r, op, refusing) \in OutputAs(o, c)
    BY <1>2, Elsewhere, Zenon
  <2>2. QED
    BY <2>1, LeadsBack, Zenon
<1>3. ASSUME NEW e \in Ids(Encoders), \A op \in O : ~OnEncoder(op, e)
      PROVE  /\ Leads(EncoderAs(e, c), s, refusing, EncoderAs(e, c))
             /\ \A o \in Ids(Outputs) : Leads(DestAs(e, o, c), s, refusing, DestAs(e, o, c))
             /\ Leads(Off(e), s, refusing, Off(e))
  <2>1. \A op \in O : \A r \in EncoderAs(e, c) : ApplyOp(r, op, refusing) \in EncoderAs(e, c)
    BY <1>3, Elsewhere, Zenon
  <2>2. \A o \in Ids(Outputs) : \A op \in O : \A r \in DestAs(e, o, c) : ApplyOp(r, op, refusing) \in DestAs(e, o, c)
    BY <1>3, Elsewhere, Zenon
  <2>3. \A op \in O : \A r \in Off(e) : ApplyOp(r, op, refusing) \in Off(e)
    BY <1>3, Elsewhere, Zenon
  <2>4. QED
    BY <2>1, <2>2, <2>3, LeadsBack, Zenon
<1>4. QED
  BY <1>1, <1>2, <1>3

\* The inputs that a plan changes, in pieces.
Changes(p, n) ==
    [x \in ChangedInputs(p, n) |->
        When(p.inputs[x] # Absent /\ ~FileGone(p.inputs[x]), <<DestroySource(x)>>) \o <<StartInput(x, n.inputs[x])>>]
GoneInputs(p, n) == {x \in Ids(Inputs) : p.inputs[x] # Absent /\ n.inputs[x] = Absent}
Removals(p, n) == [x \in GoneInputs(p, n) |-> <<DestroySource(x)>>]

LEMMA PlanInputsParts ==
    ASSUME NEW p, NEW n
    PROVE  /\ PlanInputs(p, n) = Each(Inputs, Changes(p, n)) \o Each(Inputs, Removals(p, n))
           /\ DOMAIN Changes(p, n) = ChangedInputs(p, n) /\ DOMAIN Removals(p, n) = GoneInputs(p, n)
           /\ \A x \in ChangedInputs(p, n) : Changes(p, n)[x] =
                 When(p.inputs[x] # Absent /\ ~FileGone(p.inputs[x]), <<DestroySource(x)>>)
                   \o <<StartInput(x, n.inputs[x])>>
           /\ \A x \in GoneInputs(p, n) : Removals(p, n)[x] = <<DestroySource(x)>>
           /\ ChangedInputs(p, n) \subseteq Ids(Inputs) /\ GoneInputs(p, n) \subseteq Ids(Inputs)
           /\ \A x \in ChangedInputs(p, n) : x \notin GoneInputs(p, n) /\ ~DesiredEqual(p.inputs[x], n.inputs[x])
           /\ \A x \in GoneInputs(p, n) : ~DesiredEqual(p.inputs[x], n.inputs[x])
BY DEF PlanInputs, Changes, Removals, GoneInputs, ChangedInputs, DesiredEqual

\* An input starts, or is reported as failed.
LEMMA StartsOrFails ==
    ASSUME NEW i, NEW c
    PROVE  StartInput(i, c) \in {ConnectInput(i, c), FailInput(i)}
BY DEF StartInput

\* What the pieces consist of.
LEMMA InputPieces ==
    ASSUME NEW p, NEW n, NEW O,
           \A i \in Ids(Inputs) : ~DesiredEqual(p.inputs[i], n.inputs[i]) =>
              DestroySource(i) \in O /\ ConnectInput(i, n.inputs[i]) \in O /\ FailInput(i) \in O
    PROVE  /\ \A x \in ChangedInputs(p, n) :
                 /\ When(p.inputs[x] # Absent /\ ~FileGone(p.inputs[x]), <<DestroySource(x)>>) \in Seq(O)
                 /\ <<StartInput(x, n.inputs[x])>> \in Seq(O)
                 /\ Changes(p, n)[x] \in Seq(O)
           /\ \A x \in GoneInputs(p, n) : Removals(p, n)[x] \in Seq(O)
           /\ Each(Inputs, Changes(p, n)) \in Seq(O) /\ Each(Inputs, Removals(p, n)) \in Seq(O)
<1>1. \A x \in ChangedInputs(p, n) \cup GoneInputs(p, n) :
         DestroySource(x) \in O /\ ConnectInput(x, n.inputs[x]) \in O /\ FailInput(x) \in O
  BY PlanInputsParts
<1>2. \A x \in ChangedInputs(p, n) :
         /\ When(p.inputs[x] # Absent /\ ~FileGone(p.inputs[x]), <<DestroySource(x)>>) \in Seq(O)
         /\ <<StartInput(x, n.inputs[x])>> \in Seq(O)
  <2>1. TAKE x \in ChangedInputs(p, n)
  <2>2. <<DestroySource(x)>> \in Seq(O)
    BY <1>1, SeqOne, Zenon
  <2>3. StartInput(x, n.inputs[x]) \in O
    BY <1>1, StartsOrFails
  <2>4. <<StartInput(x, n.inputs[x])>> \in Seq(O)
    BY <2>3, SeqOne, Zenon
  <2>5. QED
    BY <2>2, <2>4, SeqWhen, Zenon
<1>3. \A x \in ChangedInputs(p, n) : Changes(p, n)[x] \in Seq(O)
  <2>1. TAKE x \in ChangedInputs(p, n)
  <2>2. When(p.inputs[x] # Absent /\ ~FileGone(p.inputs[x]), <<DestroySource(x)>>) \o <<StartInput(x, n.inputs[x])>>
          \in Seq(O)
    BY <1>2, SeqJoin, Zenon
  <2>3. QED
    BY <2>2, PlanInputsParts, Zenon
<1>4. \A x \in GoneInputs(p, n) : Removals(p, n)[x] \in Seq(O)
  <2>1. TAKE x \in GoneInputs(p, n)
  <2>2. <<DestroySource(x)>> \in Seq(O)
    BY <1>1, SeqOne, Zenon
  <2>3. QED
    BY <2>2, PlanInputsParts, Zenon
<1>5. (\A x \in DOMAIN Changes(p, n) : Changes(p, n)[x] \in Seq(O)) /\ (\A x \in DOMAIN Removals(p, n) : Removals(p, n)[x] \in Seq(O))
  BY <1>3, <1>4, PlanInputsParts
<1>6. Each(Inputs, Changes(p, n)) \in Seq(O) /\ Each(Inputs, Removals(p, n)) \in Seq(O)
  BY <1>5, IdFacts, EachInSeq, Zenon
<1>7. QED
  BY <1>2, <1>3, <1>4, <1>6

LEMMA PlanInputsInSeq ==
    ASSUME NEW p \in Docs, NEW n \in Docs, NEW O,
           \A i \in Ids(Inputs) : ~DesiredEqual(p.inputs[i], n.inputs[i]) =>
              DestroySource(i) \in O /\ ConnectInput(i, n.inputs[i]) \in O /\ FailInput(i) \in O
    PROVE  PlanInputs(p, n) \in Seq(O)
<1>1. Each(Inputs, Changes(p, n)) \in Seq(O) /\ Each(Inputs, Removals(p, n)) \in Seq(O)
  BY InputPieces
<1>2. Each(Inputs, Changes(p, n)) \o Each(Inputs, Removals(p, n)) \in Seq(O)
  BY <1>1, SeqJoin, Zenon
<1>3. QED
  BY <1>2, PlanInputsParts, Zenon

\* A source that is destroyed is gone, whatever ran.
LEMMA Destroyed ==
    ASSUME NEW n \in Docs, NEW i \in Ids(Inputs), NEW refusing
    PROVE  Leads(Runs, <<DestroySource(i)>>, refusing, InputAs(i, n))
<1>1. DestroySource(i) \in Ops(n)
  BY DEF Ops
<1>2. ASSUME NEW run \in Runs PROVE ApplyOp(run, DestroySource(i), refusing) \in InputAs(i, n)
  <2>1. run.port \in Ports
    BY DEF Runs
  <2>2. ApplyOp(run, DestroySource(i), refusing) \in Runs
    BY <1>1, OpEffect
  <2>3. ApplyOp(run, DestroySource(i), refusing).port.inputs[i] = Absent
    BY <2>1, DoDestroySource DEF Ports
  <2>4. QED
    BY <2>2, <2>3 DEF InputAs
<1>3. QED
  BY <1>2, LeadsOne

\* The inputs of a plan: from any run, an input whose source the plan takes down becomes
\* one of the next document, and one whose source it does not spare is carried over.
LEMMA InputsLed ==
    ASSUME NEW p \in Docs, NEW n \in Docs, NEW i \in Ids(Inputs), NEW refusing
    PROVE  /\ i \notin Spared(p, n) => Leads(InputAs(i, p), PlanInputs(p, n), refusing, InputAs(i, n))
           /\ i \in TakenDown(p, n) => Leads(Runs, PlanInputs(p, n), refusing, InputAs(i, n))
<1> DEFINE D == ChangedInputs(p, n)
           E == GoneInputs(p, n)
           f == Changes(p, n)
           g == Removals(p, n)
           O == Ops(n)
<1>1. /\ PlanInputs(p, n) = Each(Inputs, f) \o Each(Inputs, g)
      /\ D \subseteq Ids(Inputs) /\ E \subseteq Ids(Inputs) /\ DOMAIN f = D /\ DOMAIN g = E
      /\ \A x \in D : f[x] =
            When(p.inputs[x] # Absent /\ ~FileGone(p.inputs[x]), <<DestroySource(x)>>) \o <<StartInput(x, n.inputs[x])>>
      /\ \A x \in E : g[x] = <<DestroySource(x)>>
      /\ \A x \in D : x \notin E
  BY PlanInputsParts
<1>2. \A x \in Ids(Inputs) : /\ DestroySource(x) \in InputOps(n, x) /\ ConnectInput(x, n.inputs[x]) \in InputOps(n, x)
                             /\ FailInput(x) \in InputOps(n, x)
  BY DEF InputOps
<1>3. \A x \in Ids(Inputs) : InputOps(n, x) \subseteq O /\ \A op \in InputOps(n, x) : OnInput(op, i) => i = x
  BY OpSets
<1>4. \A x \in Ids(Inputs) : DestroySource(x) \in O /\ ConnectInput(x, n.inputs[x]) \in O /\ FailInput(x) \in O
  BY <1>2, <1>3
<1>5. /\ \A x \in D : /\ When(p.inputs[x] # Absent /\ ~FileGone(p.inputs[x]), <<DestroySource(x)>>) \in Seq(O)
                      /\ <<StartInput(x, n.inputs[x])>> \in Seq(O) /\ f[x] \in Seq(O)
      /\ \A x \in E : g[x] \in Seq(O)
      /\ Each(Inputs, f) \in Seq(O) /\ Each(Inputs, g) \in Seq(O)
  BY <1>4, InputPieces, Zenon
<1>6. /\ \A x \in D : f[x] \in Seq(InputOps(n, x))
      /\ \A x \in E : g[x] \in Seq(InputOps(n, x))
  <2>1. ASSUME NEW x \in D PROVE f[x] \in Seq(InputOps(n, x))
    <3>1. /\ <<DestroySource(x)>> \in Seq(InputOps(n, x)) /\ <<ConnectInput(x, n.inputs[x])>> \in Seq(InputOps(n, x))
          /\ <<FailInput(x)>> \in Seq(InputOps(n, x))
      BY <1>1, <1>2, SeqOne
    <3>2. <<StartInput(x, n.inputs[x])>> \in Seq(InputOps(n, x))
      BY <3>1, StartsOrFails
    <3>3. When(p.inputs[x] # Absent /\ ~FileGone(p.inputs[x]), <<DestroySource(x)>>) \in Seq(InputOps(n, x))
      BY <3>1, SeqWhen, Zenon
    <3>4. When(p.inputs[x] # Absent /\ ~FileGone(p.inputs[x]), <<DestroySource(x)>>) \o <<StartInput(x, n.inputs[x])>>
            \in Seq(InputOps(n, x))
      BY <3>2, <3>3, SeqJoin, Zenon
    <3>5. QED
      BY <1>1, <3>4, Zenon
  <2>2. ASSUME NEW x \in E PROVE g[x] \in Seq(InputOps(n, x))
    BY <1>1, <1>2, SeqOne
  <2>3. QED
    BY <2>1, <2>2
<1> HIDE DEF O, D, E, f, g
\* The other inputs leave input i alone.
<1>7. \A x \in Ids(Inputs) \ {i} : \A s \in Seq(InputOps(n, x)) :
          /\ Leads(InputAs(i, p), s, refusing, InputAs(i, p))
          /\ Leads(InputAs(i, n), s, refusing, InputAs(i, n))
          /\ Leads(Runs, s, refusing, Runs)
  <2>1. TAKE x \in Ids(Inputs) \ {i}
  <2>2. InputOps(n, x) \subseteq Ops(n) /\ \A op \in InputOps(n, x) : ~OnInput(op, i)
    BY <1>3 DEF O
  <2>3. TAKE s \in Seq(InputOps(n, x))
  <2>4. s \in Seq(Ops(n))
    BY <2>2, <2>3, SeqWider, Zenon
  <2>5. QED
    BY <2>2, <2>3, <2>4, ListElsewhere, ListKeeps, Zenon
<1>8. \A s \in Seq(O) : Leads(InputAs(i, n), s, refusing, InputAs(i, n)) /\ Leads(Runs, s, refusing, Runs)
  BY ListKeeps DEF O
<1>9. Leads(Runs, <<DestroySource(i)>>, refusing, InputAs(i, n)) /\ InputAs(i, p) \subseteq Runs
  BY Destroyed DEF InputAs
<1>10. /\ i \in Spared(p, n) <=> i \in D /\ p.inputs[i] # Absent /\ FileGone(p.inputs[i])
       /\ i \in TakenDown(p, n) <=> p.inputs[i] # Absent /\ ~DesiredEqual(p.inputs[i], n.inputs[i]) /\ i \notin Spared(p, n)
       /\ i \in D <=> n.inputs[i] # Absent /\ ~DesiredEqual(p.inputs[i], n.inputs[i])
       /\ i \in E <=> p.inputs[i] # Absent /\ n.inputs[i] = Absent
  BY DEF Spared, TakenDown, ChangedInputs, D, E, GoneInputs
\* What leads to the next document at input i leads there in the whole list.
<1>11. ASSUME NEW A, A = Runs \/ A = InputAs(i, p), i \in D, Leads(A, f[i], refusing, InputAs(i, n))
       PROVE  Leads(A, PlanInputs(p, n), refusing, InputAs(i, n))
  <2>1. \A x \in DOMAIN f : x # i => Leads(A, f[x], refusing, A) /\ Leads(InputAs(i, n), f[x], refusing, InputAs(i, n))
    BY <1>1, <1>6, <1>7, <1>11
  <2>2. Leads(A, Each(Inputs, f), refusing, InputAs(i, n))
    BY <1>1, <1>5, <1>11, <2>1, IdFacts, EachReaches, Zenon
  <2>3. QED
    BY <1>1, <1>5, <1>8, <2>2, LeadsOn, Zenon
<1>12. ASSUME i \in D, p.inputs[i] # Absent, ~FileGone(p.inputs[i])
       PROVE  Leads(Runs, f[i], refusing, InputAs(i, n))
  <2>1. f[i] = <<DestroySource(i)>> \o <<StartInput(i, n.inputs[i])>>
    BY <1>1, <1>12 DEF When
  <2>2. <<DestroySource(i)>> \in Seq(O) /\ <<StartInput(i, n.inputs[i])>> \in Seq(O)
    BY <1>4, <1>5, <1>12, SeqOne, Zenon
  <2>3. Leads(InputAs(i, n), <<StartInput(i, n.inputs[i])>>, refusing, InputAs(i, n))
    BY <1>8, <2>2
  <2>4. Leads(Runs, <<DestroySource(i)>> \o <<StartInput(i, n.inputs[i])>>, refusing, InputAs(i, n))
    BY <1>9, <2>2, <2>3, LeadsOn, Zenon
  <2>5. QED
    BY <2>1, <2>4
<1>13. ASSUME i \in D, p.inputs[i] = Absent
       PROVE  Leads(InputAs(i, p), f[i], refusing, InputAs(i, n))
  <2>1. InputAs(i, p) \subseteq InputAs(i, n)
    BY <1>13 DEF InputAs, DesiredEqual
  <2>2. Leads(InputAs(i, n), f[i], refusing, InputAs(i, n))
    BY <1>5, <1>8, <1>13
  <2>3. QED
    BY <2>1, <2>2, LeadsIn, Zenon
<1>14. ASSUME i \in E PROVE Leads(Runs, PlanInputs(p, n), refusing, InputAs(i, n))
  <2>1. Leads(Runs, g[i], refusing, InputAs(i, n))
    BY <1>1, <1>9, <1>14
  <2>2. \A x \in DOMAIN g : x # i => /\ Leads(Runs, g[x], refusing, Runs)
                                     /\ Leads(InputAs(i, n), g[x], refusing, InputAs(i, n))
    BY <1>1, <1>6, <1>7
  <2>3. Leads(Runs, Each(Inputs, g), refusing, InputAs(i, n))
    BY <1>1, <1>5, <1>14, <2>1, <2>2, IdFacts, EachReaches, Zenon
  <2>4. Leads(Runs, Each(Inputs, f), refusing, Runs)
    BY <1>5, <1>8
  <2>5. QED
    BY <1>1, <1>5, <2>3, <2>4, LeadsOn, Zenon
<1>15. ASSUME i \in TakenDown(p, n) PROVE Leads(Runs, PlanInputs(p, n), refusing, InputAs(i, n))
  <2>1. CASE i \in D
    <3>1. Leads(Runs, f[i], refusing, InputAs(i, n))
      BY <1>10, <1>12, <1>15, <2>1
    <3>2. QED
      BY <1>11, <2>1, <3>1
  <2>2. CASE i \notin D
    BY <1>10, <1>14, <1>15, <2>2
  <2>3. QED
    BY <2>1, <2>2
<1>16. ASSUME i \notin Spared(p, n) PROVE Leads(InputAs(i, p), PlanInputs(p, n), refusing, InputAs(i, n))
  <2>1. CASE i \in TakenDown(p, n)
    BY <1>9, <1>15, <2>1, LeadsIn, Zenon
  <2>2. CASE i \in D /\ p.inputs[i] = Absent
    BY <1>11, <1>13, <2>2
  <2>3. CASE i \notin D /\ i \notin TakenDown(p, n)
    <3>1. InputAs(i, p) \subseteq InputAs(i, n)
      BY <1>10, <1>16, <2>3 DEF InputAs, DesiredEqual
    <3>2. Leads(InputAs(i, n), PlanInputs(p, n), refusing, InputAs(i, n))
      BY <1>1, <1>5, <1>8, LeadsOn, Zenon
    <3>3. QED
      BY <3>1, <3>2, LeadsIn, Zenon
  <2>4. QED
    BY <1>10, <1>16, <2>1, <2>2, <2>3
<1>17. QED
  BY <1>15, <1>16

\* The operations for one output are on that output.
LEMMA OutputParts ==
    ASSUME NEW p \in Docs, NEW n \in Docs, NEW x \in Ids(Outputs)
    PROVE  /\ PlanOutput(p.outputs[x], n.outputs[x], x) \in Seq(OutputOps(n, x))
           /\ PlanGoneOutput(p.outputs[x], n.outputs[x], x) \in Seq(OutputOps(n, x))
<1> DEFINE O == OutputOps(n, x)
<1>1. RemoveOutput(x) \in O /\ (x \in Outlets(n) => AddOutput(x, n.outputs[x]) \in O)
  BY DEF OutputOps
<1> HIDE DEF O
<1>2. <<>> \in Seq(O)
  OBVIOUS
<1>3. <<RemoveOutput(x)>> \in Seq(O)
  BY <1>1, SeqOne
<1>4. \A c : When(c, <<RemoveOutput(x)>>) \in Seq(O)
  BY <1>3, SeqWhen, Zenon
<1>5. ASSUME n.outputs[x] # Absent, ~Rtmp(n.outputs[x]), n.outputs[x].enabled
      PROVE  \A c : When(c, <<RemoveOutput(x)>>) \o <<AddOutput(x, n.outputs[x])>> \in Seq(O)
  <2>1. <<AddOutput(x, n.outputs[x])>> \in Seq(O)
    BY <1>1, <1>5, SeqOne DEF Outlets
  <2>2. QED
    BY <1>4, <2>1, SeqJoin, Zenon
<1>6. PlanOutput(p.outputs[x], n.outputs[x], x) \in Seq(O)
  BY <1>2, <1>4, <1>5, Zenon DEF PlanOutput
<1>7. QED
  BY <1>4, <1>6, Zenon DEF PlanGoneOutput, O

LEMMA OutputsInSeq ==
    ASSUME NEW p \in Docs, NEW n \in Docs, NEW O,
           \A x \in Ids(Outputs) : /\ PlanOutput(p.outputs[x], n.outputs[x], x) \in Seq(O)
                                   /\ PlanGoneOutput(p.outputs[x], n.outputs[x], x) \in Seq(O)
    PROVE  /\ Each(Outputs, [x \in Ids(Outputs) |-> PlanOutput(p.outputs[x], n.outputs[x], x)]) \in Seq(O)
           /\ Each(Outputs, [x \in Ids(Outputs) |-> PlanGoneOutput(p.outputs[x], n.outputs[x], x)]) \in Seq(O)
<1> DEFINE f == [x \in Ids(Outputs) |-> PlanOutput(p.outputs[x], n.outputs[x], x)]
           g == [x \in Ids(Outputs) |-> PlanGoneOutput(p.outputs[x], n.outputs[x], x)]
<1>1. (\A x \in DOMAIN f : f[x] \in Seq(O)) /\ (\A x \in DOMAIN g : g[x] \in Seq(O))
  OBVIOUS
<1> HIDE DEF f, g
<1>2. Each(Outputs, f) \in Seq(O) /\ Each(Outputs, g) \in Seq(O)
  BY <1>1, IdFacts, EachInSeq, Zenon
<1>3. QED
  BY <1>2 DEF f, g

LEMMA OutputsLed ==
    ASSUME NEW p \in Docs, NEW n \in Docs, NEW o \in Ids(Outputs), NEW refusing
    PROVE  /\ o \notin Turned(p, n) => Leads(OutputAs(o, p), PlanOutputs(p, n), refusing, OutputAs(o, n))
           /\ o \in Turned(p, n) => Leads(OutputAs(o, p), PlanOutputs(p, n), refusing, OutputAs(o, p))
<1> DEFINE P == p.outputs[o]
           N == n.outputs[o]
           f == [x \in Ids(Outputs) |-> PlanOutput(p.outputs[x], n.outputs[x], x)]
           g == [x \in Ids(Outputs) |-> PlanGoneOutput(p.outputs[x], n.outputs[x], x)]
           O == Ops(n)
<1>1. PlanOutputs(p, n) = Each(Outputs, f) \o Each(Outputs, g)
  BY DEF PlanOutputs
<1>2. /\ DOMAIN f = Ids(Outputs) /\ DOMAIN g = Ids(Outputs)
      /\ \A x \in Ids(Outputs) : f[x] \in Seq(OutputOps(n, x)) /\ g[x] \in Seq(OutputOps(n, x))
      /\ f[o] = PlanOutput(P, N, o) /\ g[o] = PlanGoneOutput(P, N, o)
  BY OutputParts
<1> HIDE DEF f, g
<1>3. \A x \in Ids(Outputs) : OutputOps(n, x) \subseteq O /\ \A op \in OutputOps(n, x) : OnOutput(op, o) => o = x
  BY OpSets
<1>4. \A x \in Ids(Outputs) : f[x] \in Seq(O) /\ g[x] \in Seq(O)
  BY <1>2, <1>3, SeqWider, Zenon
<1>5. Each(Outputs, f) \in Seq(O) /\ Each(Outputs, g) \in Seq(O)
  BY <1>2, <1>4, IdFacts, EachInSeq, Zenon
<1> HIDE DEF O
<1>6. /\ Leads(OutputAs(o, n), Each(Outputs, f), refusing, OutputAs(o, n))
      /\ Leads(OutputAs(o, n), Each(Outputs, g), refusing, OutputAs(o, n))
  BY <1>5, ListKeeps DEF O
<1>7. \A x \in Ids(Outputs) \ {o} : \A s \in Seq(OutputOps(n, x)) :
          /\ Leads(OutputAs(o, p), s, refusing, OutputAs(o, p))
          /\ Leads(OutputAs(o, n), s, refusing, OutputAs(o, n))
  <2>1. TAKE x \in Ids(Outputs) \ {o}
  <2>2. OutputOps(n, x) \subseteq Ops(n) /\ \A op \in OutputOps(n, x) : ~OnOutput(op, o)
    BY <1>3 DEF O
  <2>3. QED
    BY <2>2, ListElsewhere, Zenon
<1>8. Leads(OutputAs(o, p), <<RemoveOutput(o)>>, refusing, OutputAs(o, n))
  <2>1. ASSUME NEW run \in Runs PROVE ApplyOp(run, RemoveOutput(o), refusing) \in OutputAs(o, n)
    <3>1. RemoveOutput(o) \in Ops(n)
      BY DEF Ops
    <3>2. run.port \in Ports
      BY DEF Runs
    <3>3. QED
      BY <3>1, <3>2, OpEffect, DoRemoveOutput DEF Ports, OutputAs
  <2>2. QED
    BY <2>1, LeadsOne DEF OutputAs
<1>9. (P = Absent \/ Rtmp(P) \/ ~P.enabled) => OutputAs(o, p) \subseteq OutputAs(o, n)
  BY DEF OutputAs, Outlets
\* What the loop over the next outputs does to others than o, and to o.
<1>10. ASSUME Leads(OutputAs(o, p), f[o], refusing, OutputAs(o, n))
       PROVE  Leads(OutputAs(o, p), PlanOutputs(p, n), refusing, OutputAs(o, n))
  <2>1. \A x \in DOMAIN f : x # o => /\ Leads(OutputAs(o, p), f[x], refusing, OutputAs(o, p))
                                     /\ Leads(OutputAs(o, n), f[x], refusing, OutputAs(o, n))
    BY <1>2, <1>7
  <2>2. Leads(OutputAs(o, p), Each(Outputs, f), refusing, OutputAs(o, n))
    BY <1>2, <1>4, <1>10, <2>1, IdFacts, EachReaches, Zenon
  <2>3. QED
    BY <1>1, <1>5, <1>6, <2>2, LeadsOn, Zenon
<1>11. ASSUME f[o] = <<>> PROVE Leads(OutputAs(o, p), Each(Outputs, f), refusing, OutputAs(o, p))
  <2>1. Leads(OutputAs(o, p), <<>>, refusing, OutputAs(o, p))
    BY LeadsNone
  <2>2. \A x \in DOMAIN f : Leads(OutputAs(o, p), f[x], refusing, OutputAs(o, p))
    BY <1>2, <1>7, <1>11, <2>1, Zenon
  <2>3. QED
    BY <1>2, <1>4, <2>2, IdFacts, EachKeeps, Zenon
<1>12. ASSUME f[o] = <<>>, Leads(OutputAs(o, p), g[o], refusing, OutputAs(o, n))
       PROVE  Leads(OutputAs(o, p), PlanOutputs(p, n), refusing, OutputAs(o, n))
  <2>1. \A x \in DOMAIN g : x # o => /\ Leads(OutputAs(o, p), g[x], refusing, OutputAs(o, p))
                                     /\ Leads(OutputAs(o, n), g[x], refusing, OutputAs(o, n))
    BY <1>2, <1>7
  <2>2. Leads(OutputAs(o, p), Each(Outputs, g), refusing, OutputAs(o, n))
    BY <1>2, <1>4, <1>12, <2>1, IdFacts, EachReaches, Zenon
  <2>3. QED
    BY <1>1, <1>5, <1>11, <1>12, <2>2, LeadsOn, Zenon
<1>13. CASE o \in Turned(p, n)
  <2>1. f[o] = <<>> /\ g[o] = <<>>
    <3>1. P # Absent /\ P.enabled /\ Rtmp(N) /\ N # Absent
      BY <1>13 DEF Turned, Rtmp
    <3> HIDE DEF P, N
    <3>2. QED
      BY <1>2, <3>1 DEF PlanOutput, PlanGoneOutput, When
  <2>2. Leads(OutputAs(o, p), <<>>, refusing, OutputAs(o, p))
    BY LeadsNone
  <2>3. \A x \in DOMAIN g : Leads(OutputAs(o, p), g[x], refusing, OutputAs(o, p))
    BY <1>2, <1>7, <2>1, <2>2, Zenon
  <2>4. Leads(OutputAs(o, p), Each(Outputs, g), refusing, OutputAs(o, p))
    BY <1>2, <1>4, <2>3, IdFacts, EachKeeps, Zenon
  <2>5. Leads(OutputAs(o, p), PlanOutputs(p, n), refusing, OutputAs(o, p))
    BY <1>1, <1>5, <1>11, <2>1, <2>4, LeadsOn, Zenon
  <2>6. QED
    BY <1>13, <2>5
<1>14. ASSUME o \notin Turned(p, n) PROVE Leads(OutputAs(o, p), PlanOutputs(p, n), refusing, OutputAs(o, n))
  <2>1. CASE N = Absent \/ Rtmp(N)
    <3>1. f[o] = <<>>
      BY <1>2, <2>1 DEF PlanOutput
    <3>2. ~(P # Absent /\ ~Rtmp(P) /\ ~(N # Absent /\ P.enabled)) => P = Absent \/ Rtmp(P) \/ ~P.enabled
      BY <1>14, <2>1 DEF Turned
    <3>3. Leads(OutputAs(o, p), PlanGoneOutput(P, N, o), refusing, OutputAs(o, n))
      BY <1>8, <1>9, <3>2, LeadsWhen, Zenon DEF PlanGoneOutput
    <3>4. QED
      BY <1>2, <1>12, <3>1, <3>3, Zenon
  <2>2. CASE N # Absent /\ ~Rtmp(N) /\ ~N.enabled
    <3>1. f[o] = When(P # Absent, <<RemoveOutput(o)>>)
      BY <1>2, <2>2 DEF PlanOutput
    <3>2. Leads(OutputAs(o, p), When(P # Absent, <<RemoveOutput(o)>>), refusing, OutputAs(o, n))
      BY <1>8, <1>9, LeadsWhen, Zenon
    <3>3. QED
      BY <1>10, <3>1, <3>2, Zenon
  <2>3. CASE N # Absent /\ ~Rtmp(N) /\ N.enabled /\ P = N
    <3>1. f[o] = <<>>
      BY <1>2, <2>3 DEF PlanOutput
    <3>2. OutputAs(o, p) \subseteq OutputAs(o, n)
      BY <2>3 DEF OutputAs, Outlets
    <3>3. QED
      BY <1>10, <3>1, <3>2, LeadsNone, Zenon
  <2>4. CASE N # Absent /\ ~Rtmp(N) /\ N.enabled /\ P # N
    <3>1. f[o] = When(P # Absent, <<RemoveOutput(o)>>) \o <<AddOutput(o, N)>>
      BY <1>2, <2>4 DEF PlanOutput
    <3>2. Leads(OutputAs(o, p), When(P # Absent, <<RemoveOutput(o)>>), refusing, OutputAs(o, n))
      BY <1>8, <1>9, LeadsWhen, Zenon
    <3>3. RemoveOutput(o) \in O /\ AddOutput(o, N) \in O
      BY <2>4 DEF O, Ops, Outlets
    <3>4. When(P # Absent, <<RemoveOutput(o)>>) \in Seq(O) /\ <<AddOutput(o, N)>> \in Seq(O)
      BY <3>3, SeqOne, SeqWhen, Zenon
    <3>5. Leads(OutputAs(o, n), <<AddOutput(o, N)>>, refusing, OutputAs(o, n))
      BY <3>4, ListKeeps DEF O
    <3>6. Leads(OutputAs(o, p), When(P # Absent, <<RemoveOutput(o)>>) \o <<AddOutput(o, N)>>, refusing, OutputAs(o, n))
      BY <3>2, <3>4, <3>5, LeadsOn, Zenon
    <3>7. QED
      BY <1>10, <3>1, <3>6, Zenon
  <2>5. QED
    BY <2>1, <2>2, <2>3, <2>4
<1>15. QED
  BY <1>13, <1>14

\* An encoder and its destinations as document d wants them.
StreamAs(e, d) == {r \in EncoderAs(e, d) : \A o \in Ids(Outputs) : r \in DestAs(e, o, d)}

\* An encoder that is off is as any document wants it.
LEMMA StreamFacts ==
    ASSUME NEW e \in Ids(Encoders), NEW p \in Docs
    PROVE  /\ Off(e) \subseteq StreamAs(e, p) /\ StreamAs(e, p) \subseteq Runs
           /\ p.encoders[e] = Absent => StreamAs(e, p) \subseteq Off(e)
BY DEF StreamAs, EncoderAs, DestAs, Off

LEMMA StreamKept ==
    ASSUME NEW d \in Docs, NEW s \in Seq(Ops(d)), NEW refusing, NEW e \in Ids(Encoders)
    PROVE  Leads(StreamAs(e, d), s, refusing, StreamAs(e, d))
<1>1. Leads(EncoderAs(e, d), s, refusing, EncoderAs(e, d))
  BY ListKeeps
<1>2. \A o \in Ids(Outputs) : Leads(DestAs(e, o, d), s, refusing, DestAs(e, o, d))
  BY ListKeeps
<1>3. QED
  BY <1>1, <1>2, Zenon DEF Leads, StreamAs

LEMMA StreamElsewhere ==
    ASSUME NEW d \in Docs, NEW c \in Docs, NEW O, O \subseteq Ops(d), NEW s \in Seq(O), NEW refusing,
           NEW e \in Ids(Encoders), \A op \in O : ~OnEncoder(op, e)
    PROVE  Leads(StreamAs(e, c), s, refusing, StreamAs(e, c))
<1>1. Leads(EncoderAs(e, c), s, refusing, EncoderAs(e, c))
  BY ListElsewhere, Zenon
<1>2. \A o \in Ids(Outputs) : Leads(DestAs(e, o, c), s, refusing, DestAs(e, o, c))
  BY ListElsewhere, Zenon
<1>3. QED
  BY <1>1, <1>2, Zenon DEF Leads, StreamAs

\* What the lists for one encoder consist of.
LEMMA AddDestsInSeq ==
    ASSUME NEW n \in Docs, NEW e, NEW O, \A o \in DestsOf(n, e) : AddDest(o, n.outputs[o]) \in O
    PROVE  AddDests(n, e) \in Seq(O)
<1> DEFINE f == [o \in DestsOf(n, e) |-> <<AddDest(o, n.outputs[o])>>]
<1>1. \A x \in DOMAIN f : f[x] \in Seq(O)
  <2>1. \A x \in DestsOf(n, e) : <<AddDest(x, n.outputs[x])>> \in Seq(O)
    BY SeqOne, Zenon
  <2>2. QED
    BY <2>1
<1> HIDE DEF f
<1>2. Each(Outputs, f) \in Seq(O)
  BY <1>1, IdFacts, EachInSeq, Zenon
<1>3. QED
  BY <1>2 DEF f, AddDests

LEMMA RemoveStreamInSeq ==
    ASSUME NEW p \in Docs, NEW e, NEW O, \A o \in DestsOf(p, e) : RemoveDest(e, o) \in O, RemoveEncoder(e) \in O
    PROVE  RemoveStream(p, e) \in Seq(O)
<1> DEFINE f == [o \in DestsOf(p, e) |-> <<RemoveDest(e, o)>>]
<1>1. \A x \in DOMAIN f : f[x] \in Seq(O)
  <2>1. \A x \in DestsOf(p, e) : <<RemoveDest(e, x)>> \in Seq(O)
    BY SeqOne, Zenon
  <2>2. QED
    BY <2>1
<1> HIDE DEF f
<1>2. Each(Outputs, f) \in Seq(O)
  BY <1>1, IdFacts, EachInSeq, Zenon
<1>3. <<RemoveEncoder(e)>> \in Seq(O)
  BY SeqOne
<1>4. Each(Outputs, f) \o <<RemoveEncoder(e)>> \in Seq(O)
  BY <1>2, <1>3, SeqJoin, Zenon
<1>5. QED
  BY <1>4 DEF f, RemoveStream

LEMMA KeepDestInSeq ==
    ASSUME NEW P, NEW N, NEW e, NEW o, NEW O,
           RtmpDestination(P) /\ ~SameDest(P, N) => RemoveDest(e, o) \in O,
           ~(RtmpDestination(P) /\ SameDest(P, N)) => AddDest(o, N) \in O
    PROVE  KeepDest(P, N, e, o) \in Seq(O)
<1>1. CASE RtmpDestination(P) /\ SameDest(P, N)
  BY <1>1 DEF KeepDest
<1>2. CASE ~(RtmpDestination(P) /\ SameDest(P, N))
  <2>1. RtmpDestination(P) => <<RemoveDest(e, o)>> \in Seq(O)
    BY <1>2, SeqOne, Zenon
  <2>2. When(RtmpDestination(P), <<RemoveDest(e, o)>>) \in Seq(O) /\ <<AddDest(o, N)>> \in Seq(O)
    BY <1>2, <2>1, SeqOne, SeqWhen, Zenon
  <2>3. When(RtmpDestination(P), <<RemoveDest(e, o)>>) \o <<AddDest(o, N)>> \in Seq(O)
    BY <2>2, SeqJoin, Zenon
  <2>4. QED
    BY <1>2, <2>3 DEF KeepDest
<1>3. QED
  BY <1>1, <1>2

\* The two loops of diff_streams over the destinations of an encoder that stays.
KeptDests(p, n, e) == Each(Outputs, [o \in DestsOf(n, e) |-> KeepDest(p.outputs[o], n.outputs[o], e, o)])
GoneDests(p, n, e) == Each(Outputs, [o \in DestsOf(p, e) \ DestsOf(n, e) |-> <<RemoveDest(e, o)>>])

LEMMA KeptDestsInSeq ==
    ASSUME NEW p \in Docs, NEW n \in Docs, NEW e, NEW O,
           \A o \in DestsOf(n, e) : KeepDest(p.outputs[o], n.outputs[o], e, o) \in Seq(O)
    PROVE  KeptDests(p, n, e) \in Seq(O)
<1> DEFINE f == [o \in DestsOf(n, e) |-> KeepDest(p.outputs[o], n.outputs[o], e, o)]
<1>1. \A x \in DOMAIN f : f[x] \in Seq(O)
  OBVIOUS
<1> HIDE DEF f
<1>2. Each(Outputs, f) \in Seq(O)
  BY <1>1, IdFacts, EachInSeq, Zenon
<1>3. QED
  BY <1>2 DEF f, KeptDests

LEMMA GoneDestsInSeq ==
    ASSUME NEW p \in Docs, NEW n \in Docs, NEW e, NEW O,
           \A o \in DestsOf(p, e) \ DestsOf(n, e) : RemoveDest(e, o) \in O
    PROVE  GoneDests(p, n, e) \in Seq(O)
<1> DEFINE g == [o \in DestsOf(p, e) \ DestsOf(n, e) |-> <<RemoveDest(e, o)>>]
<1>1. \A x \in DOMAIN g : g[x] \in Seq(O)
  <2>1. \A x \in DestsOf(p, e) \ DestsOf(n, e) : <<RemoveDest(e, x)>> \in Seq(O)
    BY SeqOne, Zenon
  <2>2. QED
    BY <2>1
<1> HIDE DEF g
<1>2. Each(Outputs, g) \in Seq(O)
  BY <1>1, IdFacts, EachInSeq, Zenon
<1>3. QED
  BY <1>2 DEF g, GoneDests

Restarted(p, n, e) == When(p.encoders[e] # Absent, <<RemoveEncoder(e)>>) \o <<AddEncoder(e, n.encoders[e])>>

\* diff_streams for one encoder: taken down, started anew, or changed in its destinations.
LEMMA StreamOpsCases ==
    ASSUME NEW p, NEW n, NEW e
    PROVE  /\ DestsOf(n, e) = {} => StreamOps(p, n, e) = When(p.encoders[e] # Absent, RemoveStream(p, e))
           /\ DestsOf(n, e) # {} /\ p.encoders[e] # n.encoders[e] =>
                 StreamOps(p, n, e) = Restarted(p, n, e) \o AddDests(n, e)
           /\ DestsOf(n, e) # {} /\ p.encoders[e] = n.encoders[e] =>
                 StreamOps(p, n, e) = KeptDests(p, n, e) \o GoneDests(p, n, e)
BY Zenon DEF StreamOps, KeptDests, GoneDests, Restarted

LEMMA StreamOpsInSeq ==
    ASSUME NEW p \in Docs, NEW n \in Docs, NEW e, NEW O,
           DestsOf(n, e) = {} /\ p.encoders[e] # Absent =>
              (\A o \in DestsOf(p, e) : RemoveDest(e, o) \in O) /\ RemoveEncoder(e) \in O,
           DestsOf(n, e) # {} /\ p.encoders[e] # n.encoders[e] =>
              /\ RemoveEncoder(e) \in O /\ AddEncoder(e, n.encoders[e]) \in O
              /\ \A o \in DestsOf(n, e) : AddDest(o, n.outputs[o]) \in O,
           DestsOf(n, e) # {} /\ p.encoders[e] = n.encoders[e] =>
              /\ \A o \in DestsOf(n, e) : KeepDest(p.outputs[o], n.outputs[o], e, o) \in Seq(O)
              /\ \A o \in DestsOf(p, e) \ DestsOf(n, e) : RemoveDest(e, o) \in O
    PROVE  StreamOps(p, n, e) \in Seq(O)
<1>1. CASE DestsOf(n, e) = {}
  <2>1. p.encoders[e] # Absent => RemoveStream(p, e) \in Seq(O)
    BY <1>1, RemoveStreamInSeq, Zenon
  <2>2. When(p.encoders[e] # Absent, RemoveStream(p, e)) \in Seq(O)
    BY <2>1, SeqWhen, Zenon
  <2>3. QED
    BY <1>1, <2>2, StreamOpsCases, Zenon
<1>2. CASE DestsOf(n, e) # {} /\ p.encoders[e] # n.encoders[e]
  <2>1. <<RemoveEncoder(e)>> \in Seq(O) /\ <<AddEncoder(e, n.encoders[e])>> \in Seq(O)
    BY <1>2, SeqOne, Zenon
  <2>2. When(p.encoders[e] # Absent, <<RemoveEncoder(e)>>) \in Seq(O)
    BY <2>1, SeqWhen, Zenon
  <2>3. Restarted(p, n, e) \in Seq(O)
    BY <2>1, <2>2, SeqJoin, Zenon DEF Restarted
  <2>4. AddDests(n, e) \in Seq(O)
    BY <1>2, AddDestsInSeq, Zenon
  <2>5. Restarted(p, n, e) \o AddDests(n, e) \in Seq(O)
    BY <2>3, <2>4, SeqJoin, Zenon
  <2>6. QED
    BY <1>2, <2>5, StreamOpsCases, Zenon
<1>3. CASE DestsOf(n, e) # {} /\ p.encoders[e] = n.encoders[e]
  <2>1. KeptDests(p, n, e) \in Seq(O) /\ GoneDests(p, n, e) \in Seq(O)
    BY <1>3, KeptDestsInSeq, GoneDestsInSeq, Zenon
  <2>2. KeptDests(p, n, e) \o GoneDests(p, n, e) \in Seq(O)
    BY <2>1, SeqJoin, Zenon
  <2>3. QED
    BY <1>3, <2>2, StreamOpsCases, Zenon
<1>4. QED
  BY <1>1, <1>2, <1>3

\* The lists for one encoder are on that encoder.
LEMMA EncoderParts ==
    ASSUME NEW p \in Docs, NEW n \in Docs, NEW e \in Ids(Encoders)
    PROVE  /\ RemoveStream(p, e) \in Seq(EncoderOps(n, e))
           /\ e \in EncodersOf(n) => StreamOps(p, n, e) \in Seq(EncoderOps(n, e))
<1> DEFINE O == EncoderOps(n, e)
<1>1. /\ RemoveEncoder(e) \in O /\ \A o \in Ids(Outputs) : RemoveDest(e, o) \in O
      /\ \A o \in DestsOf(n, e) : AddDest(o, n.outputs[o]) \in O
      /\ e \in EncodersOf(n) /\ DestsOf(n, e) # {} => AddEncoder(e, n.encoders[e]) \in O
      /\ DestsOf(p, e) \subseteq Ids(Outputs) /\ DestsOf(n, e) \subseteq Ids(Outputs)
  BY DEF EncoderOps, Streaming, DestsOf
<1> HIDE DEF O
<1>2. RemoveStream(p, e) \in Seq(O)
  BY <1>1, RemoveStreamInSeq, Zenon
<1>3. \A o \in DestsOf(n, e) : KeepDest(p.outputs[o], n.outputs[o], e, o) \in Seq(O)
  <2>1. TAKE o \in DestsOf(n, e)
  <2>2. RemoveDest(e, o) \in O /\ AddDest(o, n.outputs[o]) \in O
    BY <1>1
  <2>3. QED
    BY <2>2, KeepDestInSeq, Zenon
<1>4. \A o \in DestsOf(p, e) : RemoveDest(e, o) \in O
  BY <1>1
<1>5. \A o \in DestsOf(p, e) \ DestsOf(n, e) : RemoveDest(e, o) \in O
  BY <1>4
<1>6. e \in EncodersOf(n) => StreamOps(p, n, e) \in Seq(O)
  BY <1>1, <1>3, <1>4, <1>5, StreamOpsInSeq, Zenon
<1>7. QED
  BY <1>2, <1>6 DEF O

\* Taking the encoder down ends everything on it, whatever ran there.
LEMMA EncoderGoes ==
    ASSUME NEW e \in Ids(Encoders), NEW refusing
    PROVE  /\ Leads(Runs, <<RemoveEncoder(e)>>, refusing, Off(e))
           /\ \A p \in Docs : Leads(Runs, RemoveStream(p, e), refusing, Off(e))
<1>0. NoSession \in Docs
  BY DEF Docs
<1>1. \A run \in Runs : ApplyOp(run, RemoveEncoder(e), refusing) \in Off(e)
  BY <1>0, RemoveEncoderDoes, Zenon
<1>2. Leads(Runs, <<RemoveEncoder(e)>>, refusing, Off(e))
  BY <1>1, LeadsOne, Zenon
<1>3. ASSUME NEW p \in Docs PROVE Leads(Runs, RemoveStream(p, e), refusing, Off(e))
  <2> DEFINE f == [o \in DestsOf(p, e) |-> <<RemoveDest(e, o)>>]
  <2>1. \A x \in DOMAIN f : f[x] \in Seq(Ops(p))
    <3>1. \A x \in DestsOf(p, e) : RemoveDest(e, x) \in Ops(p)
      BY DEF Ops, DestsOf
    <3>2. \A x \in DestsOf(p, e) : <<RemoveDest(e, x)>> \in Seq(Ops(p))
      BY <3>1, SeqOne, Zenon
    <3>3. QED
      BY <3>2
  <2> HIDE DEF f
  <2>2. Each(Outputs, f) \in Seq(Ops(p))
    BY <2>1, IdFacts, EachInSeq, Zenon
  <2>3. Leads(Runs, Each(Outputs, f), refusing, Runs)
    BY <2>2, ListKeeps, Zenon
  <2>4. <<RemoveEncoder(e)>> \in Seq(Ops(p))
    <3>1. RemoveEncoder(e) \in Ops(p)
      BY DEF Ops
    <3>2. QED
      BY <3>1, SeqOne
  <2>5. Leads(Runs, Each(Outputs, f) \o <<RemoveEncoder(e)>>, refusing, Off(e))
    BY <1>2, <2>2, <2>3, <2>4, LeadsOn, Zenon
  <2>6. QED
    BY <2>5 DEF f, RemoveStream
<1>4. QED
  BY <1>2, <1>3

\* One destination of an encoder that stays as it is.
LEMMA DestLed ==
    ASSUME NEW p \in Docs, NEW n \in Docs, NEW e \in Ids(Encoders), NEW o \in DestsOf(n, e), NEW refusing
    PROVE  Leads(DestAs(e, o, p), KeepDest(p.outputs[o], n.outputs[o], e, o), refusing, DestAs(e, o, n))
<1> DEFINE P == p.outputs[o]
           N == n.outputs[o]
           O == Ops(n)
           None == {r \in Runs : \A x \in r.port.dests[e] : x.id # o}
<1>1. o \in Ids(Outputs) /\ N.encoder = e
  BY DEF DestsOf
<1>2. CASE RtmpDestination(P) /\ SameDest(P, N)
  <2>1. DestAs(e, o, p) \subseteq DestAs(e, o, n)
    BY <1>2 DEF DestAs, SameDest
  <2>2. QED
    BY <1>2, <2>1, LeadsNone DEF KeepDest
<1>3. CASE ~(RtmpDestination(P) /\ SameDest(P, N))
  <2>1. None \subseteq DestAs(e, o, n) /\ DestAs(e, o, n) \subseteq Runs
    BY DEF DestAs
  <2>2. ~RtmpDestination(P) => DestAs(e, o, p) \subseteq None
    BY DEF DestAs, DestsOf
  <2>3. Leads(DestAs(e, o, p), <<RemoveDest(e, o)>>, refusing, None)
    <3>1. ASSUME NEW run \in Runs PROVE ApplyOp(run, RemoveDest(e, o), refusing) \in None
      <4> DEFINE after == ApplyOp(run, RemoveDest(e, o), refusing)
      <4>0. after = ApplyOp(run, RemoveDest(e, o), refusing)
        OBVIOUS
      <4> HIDE DEF after
      <4>1. after \in Runs /\ after.port.dests[e] = {x \in run.port.dests[e] : x.id # o}
        BY <1>1, <4>0, RemoveDestDoes
      <4>2. QED
        BY <4>1 DEF after
    <3> HIDE DEF None
    <3>2. QED
      BY <3>1, LeadsOne DEF DestAs
  <2>4. RemoveDest(e, o) \in O /\ AddDest(o, N) \in O
    BY <1>1 DEF Ops, Streams, DestsOf
  <2>5. When(RtmpDestination(P), <<RemoveDest(e, o)>>) \in Seq(O) /\ <<AddDest(o, N)>> \in Seq(O)
    BY <2>4, SeqOne, SeqWhen, Zenon
  <2> HIDE DEF O, None
  <2>6. Leads(DestAs(e, o, p), When(RtmpDestination(P), <<RemoveDest(e, o)>>), refusing, None)
    BY <2>2, <2>3, LeadsWhen, Zenon
  <2>7. Leads(DestAs(e, o, p), When(RtmpDestination(P), <<RemoveDest(e, o)>>), refusing, DestAs(e, o, n))
    BY <2>1, <2>6 DEF Leads
  <2>8. Leads(DestAs(e, o, n), <<AddDest(o, N)>>, refusing, DestAs(e, o, n))
    BY <1>1, <2>5, ListKeeps DEF O
  <2>9. Leads(DestAs(e, o, p), When(RtmpDestination(P), <<RemoveDest(e, o)>>) \o <<AddDest(o, N)>>,
              refusing, DestAs(e, o, n))
    BY <2>5, <2>7, <2>8, LeadsOn, Zenon
  <2>10. KeepDest(P, N, e, o) = When(RtmpDestination(P), <<RemoveDest(e, o)>>) \o <<AddDest(o, N)>>
    BY <1>3 DEF KeepDest
  <2>11. QED
    BY <2>9, <2>10, Zenon
<1>4. QED
  BY <1>2, <1>3

\* All of them, one destination at a time.
LEMMA DestsLed ==
    ASSUME NEW p \in Docs, NEW n \in Docs, NEW e \in Ids(Encoders), NEW o \in Ids(Outputs), NEW refusing
    PROVE  Leads(DestAs(e, o, p), KeptDests(p, n, e) \o GoneDests(p, n, e), refusing, DestAs(e, o, n))
<1> DEFINE f == [x \in DestsOf(n, e) |-> KeepDest(p.outputs[x], n.outputs[x], e, x)]
           g == [x \in DestsOf(p, e) \ DestsOf(n, e) |-> <<RemoveDest(e, x)>>]
           O == Ops(n)
           On(x) == {RemoveDest(e, x), AddDest(x, n.outputs[x])} \cap O
<1>1. KeptDests(p, n, e) = Each(Outputs, f) /\ GoneDests(p, n, e) = Each(Outputs, g)
  BY DEF KeptDests, GoneDests
<1>2. /\ DOMAIN f = DestsOf(n, e) /\ DOMAIN g = DestsOf(p, e) \ DestsOf(n, e)
      /\ \A x \in DOMAIN f : f[x] = KeepDest(p.outputs[x], n.outputs[x], e, x)
      /\ \A x \in DOMAIN g : g[x] = <<RemoveDest(e, x)>>
      /\ DestsOf(p, e) \subseteq Ids(Outputs) /\ DestsOf(n, e) \subseteq Ids(Outputs)
  BY DEF DestsOf
<1> HIDE DEF f, g
<1>3. /\ \A x \in Ids(Outputs) : RemoveDest(e, x) \in On(x) /\ On(x) \subseteq O
      /\ \A x \in DestsOf(n, e) : AddDest(x, n.outputs[x]) \in On(x)
  BY DEF Ops, Streams, DestsOf
<1> HIDE DEF On, O
<1>4. \A x \in DOMAIN f : f[x] \in Seq(On(x))
  <2>1. TAKE x \in DOMAIN f
  <2>2. RemoveDest(e, x) \in On(x) /\ AddDest(x, n.outputs[x]) \in On(x)
    BY <1>2, <1>3
  <2>3. KeepDest(p.outputs[x], n.outputs[x], e, x) \in Seq(On(x))
    BY <2>2, KeepDestInSeq, Zenon
  <2>4. QED
    BY <1>2, <2>3
<1>5. \A x \in DOMAIN g : g[x] \in Seq(On(x))
  <2>1. TAKE x \in DOMAIN g
  <2>2. RemoveDest(e, x) \in On(x)
    BY <1>2, <1>3
  <2>3. <<RemoveDest(e, x)>> \in Seq(On(x))
    BY <2>2, SeqOne
  <2>4. QED
    BY <1>2, <2>3
<1>6. (\A x \in DOMAIN f : f[x] \in Seq(O)) /\ (\A x \in DOMAIN g : g[x] \in Seq(O))
  <2>1. (\A x \in DOMAIN f : On(x) \subseteq O) /\ (\A x \in DOMAIN g : On(x) \subseteq O)
    BY <1>2, <1>3
  <2>2. QED
    BY <1>4, <1>5, <2>1, SeqWider, Zenon
<1>7. Each(Outputs, f) \in Seq(O) /\ Each(Outputs, g) \in Seq(O)
  BY <1>6, IdFacts, EachInSeq, Zenon
<1>8. /\ Leads(DestAs(e, o, n), Each(Outputs, f), refusing, DestAs(e, o, n))
      /\ Leads(DestAs(e, o, n), Each(Outputs, g), refusing, DestAs(e, o, n))
  BY <1>7, ListKeeps DEF O
\* An operation on another destination leaves this one as it is.
<1>9. \A x \in (DestsOf(p, e) \cup DestsOf(n, e)) \ {o} : \A c \in {p, n} : \A s \in Seq(On(x)) :
         Leads(DestAs(e, o, c), s, refusing, DestAs(e, o, c))
  <2>1. TAKE x \in (DestsOf(p, e) \cup DestsOf(n, e)) \ {o}
  <2>2. TAKE c \in {p, n}
  <2>3. x \in Ids(Outputs)
    BY <1>2
  <2>4. ASSUME NEW op \in On(x), NEW run \in DestAs(e, o, c) PROVE ApplyOp(run, op, refusing) \in DestAs(e, o, c)
    <3>1. run \in Runs /\ \A y \in run.port.dests[e] : y.id = o => y.cfg = c.outputs[o].cfg /\ o \in DestsOf(c, e)
      BY DEF DestAs
    <3>2. CASE op = RemoveDest(e, x)
      <4> DEFINE after == ApplyOp(run, op, refusing)
      <4>0. after = ApplyOp(run, RemoveDest(e, x), refusing)
        BY <3>2
      <4> HIDE DEF after
      <4>1. after \in Runs /\ after.port.dests[e] = {y \in run.port.dests[e] : y.id # x}
        BY <2>3, <3>1, <4>0, RemoveDestDoes
      <4>2. QED
        BY <3>1, <4>1 DEF after, DestAs
    <3>3. CASE op = AddDest(x, n.outputs[x]) /\ x \in DestsOf(n, e)
      <4> DEFINE after == ApplyOp(run, op, refusing)
      <4>0. after = ApplyOp(run, AddDest(x, n.outputs[x]), refusing)
        BY <3>3
      <4> HIDE DEF after
      <4>1. DestAdded(run, after, n, e, x, refusing)
        BY <3>1, <3>3, <4>0, AddDestDoes
      <4>2. x # o
        BY <2>1
      <4>3. QED
        BY <3>1, <4>1, <4>2 DEF after, DestAs, DestAdded
    <3>4. CASE ~OnEncoder(op, e)
      BY <2>2, <2>4, <3>4, Elsewhere DEF On, O
    <3>5. op = AddDest(x, n.outputs[x]) /\ OnEncoder(op, e) => x \in DestsOf(n, e)
      <4>1. SUFFICES ASSUME op = AddDest(x, n.outputs[x]), OnEncoder(op, e) PROVE x \in DestsOf(n, e)
        OBVIOUS
      <4>2. op \in EncoderOps(n, e)
        BY <4>1, EncoderCases DEF On, O
      <4>3. QED
        BY <4>1, <4>2, EncoderOpCases DEF AddDest, RemoveDest, RemoveEncoder, AddEncoder, Op
    <3>6. QED
      BY <3>2, <3>3, <3>4, <3>5 DEF On
  <2>5. QED
    BY <2>4, LeadsBack, Zenon
<1>10. CASE o \in DestsOf(n, e)
  <2>1. Leads(DestAs(e, o, p), f[o], refusing, DestAs(e, o, n))
    BY <1>2, <1>10, DestLed, Zenon
  <2>2. \A x \in DOMAIN f : x # o => /\ Leads(DestAs(e, o, p), f[x], refusing, DestAs(e, o, p))
                                     /\ Leads(DestAs(e, o, n), f[x], refusing, DestAs(e, o, n))
    BY <1>2, <1>4, <1>9
  <2>3. Leads(DestAs(e, o, p), Each(Outputs, f), refusing, DestAs(e, o, n))
    BY <1>2, <1>6, <1>10, <2>1, <2>2, IdFacts, EachReaches, Zenon
  <2>4. QED
    BY <1>1, <1>7, <1>8, <2>3, LeadsOn, Zenon
<1>11. CASE o \in DestsOf(p, e) \ DestsOf(n, e)
  <2>1. \A x \in DOMAIN f : Leads(DestAs(e, o, p), f[x], refusing, DestAs(e, o, p))
    BY <1>2, <1>4, <1>9, <1>11
  <2>2. Leads(DestAs(e, o, p), Each(Outputs, f), refusing, DestAs(e, o, p))
    BY <1>6, <2>1, IdFacts, EachKeeps, Zenon
  <2>3. Leads(DestAs(e, o, p), <<RemoveDest(e, o)>>, refusing, DestAs(e, o, n))
    <3>1. ASSUME NEW run \in Runs PROVE ApplyOp(run, RemoveDest(e, o), refusing) \in DestAs(e, o, n)
      <4> DEFINE after == ApplyOp(run, RemoveDest(e, o), refusing)
      <4>0. after = ApplyOp(run, RemoveDest(e, o), refusing)
        OBVIOUS
      <4> HIDE DEF after
      <4>1. after \in Runs /\ after.port.dests[e] = {x \in run.port.dests[e] : x.id # o}
        BY <4>0, RemoveDestDoes
      <4>2. QED
        BY <4>1 DEF after, DestAs
    <3>2. QED
      BY <3>1, LeadsOne DEF DestAs
  <2>4. Leads(DestAs(e, o, p), g[o], refusing, DestAs(e, o, n))
    BY <1>2, <1>11, <2>3, Zenon
  <2>5. \A x \in DOMAIN g : x # o => /\ Leads(DestAs(e, o, p), g[x], refusing, DestAs(e, o, p))
                                     /\ Leads(DestAs(e, o, n), g[x], refusing, DestAs(e, o, n))
    BY <1>2, <1>5, <1>9
  <2>6. Leads(DestAs(e, o, p), Each(Outputs, g), refusing, DestAs(e, o, n))
    BY <1>2, <1>6, <1>11, <2>4, <2>5, IdFacts, EachReaches, Zenon
  <2>7. QED
    BY <1>1, <1>7, <2>2, <2>6, LeadsOn, Zenon
<1>12. CASE o \notin DestsOf(p, e) /\ o \notin DestsOf(n, e)
  <2>1. DestAs(e, o, p) \subseteq DestAs(e, o, n)
    BY <1>12 DEF DestAs
  <2>2. Leads(DestAs(e, o, n), Each(Outputs, f) \o Each(Outputs, g), refusing, DestAs(e, o, n))
    BY <1>7, <1>8, LeadsOn, Zenon
  <2>3. QED
    BY <1>1, <2>1, <2>2, LeadsIn, Zenon
<1>13. QED
  BY <1>10, <1>11, <1>12

\* An encoder of the next document.
LEMMA StreamLed ==
    ASSUME NEW p \in Docs, NEW n \in Docs, NEW e \in EncodersOf(n), NEW refusing
    PROVE  Leads(StreamAs(e, p), StreamOps(p, n, e), refusing, StreamAs(e, n))
<1> DEFINE O == Ops(n)
<1>1. e \in Ids(Encoders)
  BY DEF EncodersOf
<1>2. Off(e) \subseteq StreamAs(e, n) /\ StreamAs(e, p) \subseteq Runs
  BY <1>1, StreamFacts
<1>3. p.encoders[e] = Absent => StreamAs(e, p) \subseteq Off(e)
  BY <1>1, StreamFacts
<1>4. CASE DestsOf(n, e) = {}
  <2>1. Leads(Runs, RemoveStream(p, e), refusing, Off(e))
    BY <1>1, EncoderGoes
  <2>2. Leads(StreamAs(e, p), RemoveStream(p, e), refusing, Off(e))
    BY <1>2, <2>1, LeadsIn, Zenon
  <2>3. Leads(StreamAs(e, p), When(p.encoders[e] # Absent, RemoveStream(p, e)), refusing, Off(e))
    BY <1>3, <2>2, LeadsWhen, Zenon
  <2>4. Leads(StreamAs(e, p), When(p.encoders[e] # Absent, RemoveStream(p, e)), refusing, StreamAs(e, n))
    BY <1>2, <2>3 DEF Leads
  <2>5. QED
    BY <1>4, <2>4, StreamOpsCases
<1>5. CASE DestsOf(n, e) # {} /\ p.encoders[e] # n.encoders[e]
  <2>1. Leads(Runs, <<RemoveEncoder(e)>>, refusing, Off(e))
    BY <1>1, EncoderGoes
  <2>2. Leads(StreamAs(e, p), <<RemoveEncoder(e)>>, refusing, Off(e))
    BY <1>2, <2>1, LeadsIn, Zenon
  <2>3. Leads(StreamAs(e, p), When(p.encoders[e] # Absent, <<RemoveEncoder(e)>>), refusing, Off(e))
    BY <1>3, <2>2, LeadsWhen, Zenon
  <2>4. Leads(StreamAs(e, p), When(p.encoders[e] # Absent, <<RemoveEncoder(e)>>), refusing, StreamAs(e, n))
    BY <1>2, <2>3 DEF Leads
  <2>5. /\ RemoveEncoder(e) \in O /\ AddEncoder(e, n.encoders[e]) \in O
        /\ \A o \in DestsOf(n, e) : AddDest(o, n.outputs[o]) \in O
    BY <1>1, <1>5 DEF Ops, Streaming, Streams, DestsOf
  <2> HIDE DEF O
  <2>6. <<AddEncoder(e, n.encoders[e])>> \in Seq(O) /\ <<RemoveEncoder(e)>> \in Seq(O)
    BY <2>5, SeqOne, Zenon
  <2>7. When(p.encoders[e] # Absent, <<RemoveEncoder(e)>>) \in Seq(O) /\ AddDests(n, e) \in Seq(O)
    BY <2>5, <2>6, SeqWhen, AddDestsInSeq, Zenon
  <2>8. /\ Leads(StreamAs(e, n), <<AddEncoder(e, n.encoders[e])>>, refusing, StreamAs(e, n))
        /\ Leads(StreamAs(e, n), AddDests(n, e), refusing, StreamAs(e, n))
    BY <1>1, <2>6, <2>7, StreamKept DEF O
  <2>9. Leads(StreamAs(e, p), Restarted(p, n, e), refusing, StreamAs(e, n))
    BY <2>4, <2>6, <2>7, <2>8, LeadsOn, Zenon DEF Restarted
  <2>10. Restarted(p, n, e) \in Seq(O)
    BY <2>6, <2>7, SeqJoin, Zenon DEF Restarted
  <2>11. Leads(StreamAs(e, p), Restarted(p, n, e) \o AddDests(n, e), refusing, StreamAs(e, n))
    BY <2>7, <2>8, <2>9, <2>10, LeadsOn, Zenon
  <2>12. StreamOps(p, n, e) = Restarted(p, n, e) \o AddDests(n, e)
    BY <1>5, StreamOpsCases, Zenon
  <2>13. QED
    BY <2>11, <2>12, Zenon
<1>6. CASE DestsOf(n, e) # {} /\ p.encoders[e] = n.encoders[e]
  <2> DEFINE s == KeptDests(p, n, e) \o GoneDests(p, n, e)
  <2>1. StreamOps(p, n, e) = s
    BY <1>6, StreamOpsCases, Zenon
  <2>2. \A o \in Ids(Outputs) : Leads(DestAs(e, o, p), s, refusing, DestAs(e, o, n))
    BY <1>1, DestsLed
  <2>3. EncoderAs(e, p) \subseteq EncoderAs(e, n)
    BY <1>6 DEF EncoderAs
  <2> HIDE DEF s
  <2>4. s \in Seq(Ops(n))
    <3>1. s \in Seq(EncoderOps(n, e)) /\ EncoderOps(n, e) \subseteq Ops(n)
      BY <1>1, <2>1, EncoderParts, OpSets
    <3>2. QED
      BY <3>1, SeqWider, Zenon
  <2>5. Leads(EncoderAs(e, n), s, refusing, EncoderAs(e, n))
    BY <1>1, <2>4, ListKeeps
  <2>6. Leads(StreamAs(e, p), s, refusing, StreamAs(e, n))
    BY <2>2, <2>3, <2>5 DEF Leads, StreamAs
  <2>7. QED
    BY <2>1, <2>6
<1>7. QED
  BY <1>4, <1>5, <1>6

\* The three loops of diff_streams.
NextStreams(p, n) == Each(Encoders, [e \in EncodersOf(n) |-> StreamOps(p, n, e)])
GoneStreams(p, n) == Each(Encoders, [e \in EncodersOf(p) \ EncodersOf(n) |-> RemoveStream(p, e)])
LateDests(n) == Each(Outputs, [o \in Unserved(n) |-> <<AddDest(o, n.outputs[o])>>])

LEMMA PlanStreamsParts ==
    ASSUME NEW p, NEW n
    PROVE  PlanStreams(p, n) = NextStreams(p, n) \o GoneStreams(p, n) \o LateDests(n)
BY DEF PlanStreams, NextStreams, GoneStreams, LateDests

LEMMA NextStreamsInSeq ==
    ASSUME NEW p \in Docs, NEW n \in Docs, NEW O, \A e \in EncodersOf(n) : StreamOps(p, n, e) \in Seq(O)
    PROVE  NextStreams(p, n) \in Seq(O)
<1> DEFINE f == [e \in EncodersOf(n) |-> StreamOps(p, n, e)]
<1>1. \A x \in DOMAIN f : f[x] \in Seq(O)
  OBVIOUS
<1> HIDE DEF f
<1>2. Each(Encoders, f) \in Seq(O)
  BY <1>1, IdFacts, EachInSeq, Zenon
<1>3. QED
  BY <1>2 DEF f, NextStreams

LEMMA GoneStreamsInSeq ==
    ASSUME NEW p \in Docs, NEW n \in Docs, NEW O,
           \A e \in EncodersOf(p) \ EncodersOf(n) : RemoveStream(p, e) \in Seq(O)
    PROVE  GoneStreams(p, n) \in Seq(O)
<1> DEFINE f == [e \in EncodersOf(p) \ EncodersOf(n) |-> RemoveStream(p, e)]
<1>1. \A x \in DOMAIN f : f[x] \in Seq(O)
  OBVIOUS
<1> HIDE DEF f
<1>2. Each(Encoders, f) \in Seq(O)
  BY <1>1, IdFacts, EachInSeq, Zenon
<1>3. QED
  BY <1>2 DEF f, GoneStreams

LEMMA LateDestsInSeq ==
    ASSUME NEW n \in Docs
    PROVE  LateDests(n) \in Seq(LateOps(n))
<1> DEFINE f == [o \in Unserved(n) |-> <<AddDest(o, n.outputs[o])>>]
<1>1. \A x \in DOMAIN f : f[x] \in Seq(LateOps(n))
  <2>1. \A x \in Unserved(n) : AddDest(x, n.outputs[x]) \in LateOps(n)
    BY DEF LateOps
  <2>2. \A x \in Unserved(n) : <<AddDest(x, n.outputs[x])>> \in Seq(LateOps(n))
    BY <2>1, SeqOne, Zenon
  <2>3. QED
    BY <2>2
<1> HIDE DEF f
<1>2. Each(Outputs, f) \in Seq(LateOps(n))
  BY <1>1, IdFacts, EachInSeq, Zenon
<1>3. QED
  BY <1>2 DEF f, LateDests

LEMMA StreamsLed ==
    ASSUME NEW p \in Docs, NEW n \in Docs, NEW e \in Ids(Encoders), NEW refusing
    PROVE  Leads(StreamAs(e, p), PlanStreams(p, n), refusing, StreamAs(e, n))
<1> DEFINE f == [x \in EncodersOf(n) |-> StreamOps(p, n, x)]
           g == [x \in EncodersOf(p) \ EncodersOf(n) |-> RemoveStream(p, x)]
           O == Ops(n)
<1>1. NextStreams(p, n) = Each(Encoders, f) /\ GoneStreams(p, n) = Each(Encoders, g)
  BY DEF NextStreams, GoneStreams
<1>2. /\ DOMAIN f = EncodersOf(n) /\ DOMAIN g = EncodersOf(p) \ EncodersOf(n)
      /\ \A x \in DOMAIN f : f[x] = StreamOps(p, n, x)
      /\ \A x \in DOMAIN g : g[x] = RemoveStream(p, x)
      /\ EncodersOf(p) \subseteq Ids(Encoders) /\ EncodersOf(n) \subseteq Ids(Encoders)
  BY DEF EncodersOf
<1> HIDE DEF f, g
<1>3. \A x \in Ids(Encoders) : EncoderOps(n, x) \subseteq O /\ \A op \in EncoderOps(n, x) : OnEncoder(op, e) => e = x
  BY OpSets
<1>4. (\A x \in DOMAIN f : f[x] \in Seq(EncoderOps(n, x))) /\ (\A x \in DOMAIN g : g[x] \in Seq(EncoderOps(n, x)))
  BY <1>2, EncoderParts
<1>5. (\A x \in DOMAIN f : f[x] \in Seq(O)) /\ (\A x \in DOMAIN g : g[x] \in Seq(O))
  <2>1. (\A x \in DOMAIN f : EncoderOps(n, x) \subseteq O) /\ (\A x \in DOMAIN g : EncoderOps(n, x) \subseteq O)
    BY <1>2, <1>3
  <2>2. QED
    BY <1>4, <2>1, SeqWider, Zenon
<1>6. NextStreams(p, n) \in Seq(O) /\ GoneStreams(p, n) \in Seq(O)
  <2>1. Each(Encoders, f) \in Seq(O) /\ Each(Encoders, g) \in Seq(O)
    BY <1>5, IdFacts, EachInSeq, Zenon
  <2>2. QED
    BY <1>1, <2>1, Zenon
<1>7. LateDests(n) \in Seq(O)
  <2>1. LateOps(n) \subseteq O
    BY OpSets
  <2>2. QED
    BY <2>1, LateDestsInSeq, SeqWider, Zenon
<1>8. /\ Leads(StreamAs(e, n), NextStreams(p, n), refusing, StreamAs(e, n))
      /\ Leads(StreamAs(e, n), GoneStreams(p, n), refusing, StreamAs(e, n))
      /\ Leads(StreamAs(e, n), LateDests(n), refusing, StreamAs(e, n))
  BY <1>6, <1>7, StreamKept
<1>9. \A x \in Ids(Encoders) \ {e} : \A s \in Seq(EncoderOps(n, x)) :
          /\ Leads(StreamAs(e, p), s, refusing, StreamAs(e, p))
          /\ Leads(StreamAs(e, n), s, refusing, StreamAs(e, n))
  <2>1. TAKE x \in Ids(Encoders) \ {e}
  <2>2. EncoderOps(n, x) \subseteq Ops(n) /\ \A op \in EncoderOps(n, x) : ~OnEncoder(op, e)
    BY <1>3
  <2>3. QED
    BY <2>2, StreamElsewhere, Zenon
<1> HIDE DEF O
\* It is enough that the first two loops lead there.
<1>10. ASSUME Leads(StreamAs(e, p), NextStreams(p, n) \o GoneStreams(p, n), refusing, StreamAs(e, n))
       PROVE  Leads(StreamAs(e, p), PlanStreams(p, n), refusing, StreamAs(e, n))
  <2>1. NextStreams(p, n) \o GoneStreams(p, n) \in Seq(O)
    BY <1>6, SeqJoin, Zenon
  <2>2. Leads(StreamAs(e, p), (NextStreams(p, n) \o GoneStreams(p, n)) \o LateDests(n), refusing, StreamAs(e, n))
    BY <1>7, <1>8, <1>10, <2>1, LeadsOn, Zenon
  <2>3. PlanStreams(p, n) = (NextStreams(p, n) \o GoneStreams(p, n)) \o LateDests(n)
    BY PlanStreamsParts, Zenon
  <2>4. QED
    BY <2>2, <2>3, Zenon
<1>11. CASE e \in EncodersOf(n)
  <2>1. Leads(StreamAs(e, p), f[e], refusing, StreamAs(e, n))
    BY <1>2, <1>11, StreamLed
  <2>2. \A x \in DOMAIN f : x # e => /\ Leads(StreamAs(e, p), f[x], refusing, StreamAs(e, p))
                                     /\ Leads(StreamAs(e, n), f[x], refusing, StreamAs(e, n))
    BY <1>2, <1>4, <1>9
  <2>3. Leads(StreamAs(e, p), Each(Encoders, f), refusing, StreamAs(e, n))
    BY <1>2, <1>5, <1>11, <2>1, <2>2, IdFacts, EachReaches, Zenon
  <2>4. Leads(StreamAs(e, p), NextStreams(p, n) \o GoneStreams(p, n), refusing, StreamAs(e, n))
    BY <1>1, <1>6, <1>8, <2>3, LeadsOn, Zenon
  <2>5. QED
    BY <1>10, <2>4
<1>12. CASE e \in EncodersOf(p) \ EncodersOf(n)
  <2>1. \A x \in DOMAIN f : Leads(StreamAs(e, p), f[x], refusing, StreamAs(e, p))
    BY <1>2, <1>4, <1>9, <1>12
  <2>2. Leads(StreamAs(e, p), Each(Encoders, f), refusing, StreamAs(e, p))
    BY <1>5, <2>1, IdFacts, EachKeeps, Zenon
  <2>3. Leads(StreamAs(e, p), g[e], refusing, StreamAs(e, n))
    <3>1. Leads(Runs, RemoveStream(p, e), refusing, Off(e))
      BY EncoderGoes
    <3>2. StreamAs(e, p) \subseteq Runs /\ Off(e) \subseteq StreamAs(e, n)
      BY StreamFacts
    <3>3. Leads(StreamAs(e, p), RemoveStream(p, e), refusing, StreamAs(e, n))
      BY <3>1, <3>2, LeadsIn, Zenon
    <3>4. QED
      BY <1>2, <1>12, <3>3, Zenon
  <2>4. \A x \in DOMAIN g : x # e => /\ Leads(StreamAs(e, p), g[x], refusing, StreamAs(e, p))
                                     /\ Leads(StreamAs(e, n), g[x], refusing, StreamAs(e, n))
    BY <1>2, <1>4, <1>9
  <2>5. Leads(StreamAs(e, p), Each(Encoders, g), refusing, StreamAs(e, n))
    BY <1>2, <1>5, <1>12, <2>3, <2>4, IdFacts, EachReaches, Zenon
  <2>6. Leads(StreamAs(e, p), NextStreams(p, n) \o GoneStreams(p, n), refusing, StreamAs(e, n))
    BY <1>1, <1>6, <2>2, <2>5, LeadsOn, Zenon
  <2>7. QED
    BY <1>10, <2>6
<1>13. CASE e \notin EncodersOf(p) /\ e \notin EncodersOf(n)
  <2>1. StreamAs(e, p) \subseteq StreamAs(e, n)
    <3>1. p.encoders[e] = Absent
      BY <1>13 DEF EncodersOf
    <3>2. QED
      BY <3>1, StreamFacts
  <2>2. Leads(StreamAs(e, n), NextStreams(p, n) \o GoneStreams(p, n), refusing, StreamAs(e, n))
    BY <1>6, <1>8, LeadsOn, Zenon
  <2>3. Leads(StreamAs(e, p), NextStreams(p, n) \o GoneStreams(p, n), refusing, StreamAs(e, n))
    BY <2>1, <2>2, LeadsIn, Zenon
  <2>4. QED
    BY <1>10, <2>3
<1>14. QED
  BY <1>11, <1>12, <1>13
-----------------------------------------------------------------------------
(* The whole plan *)

InOps(d) == UNION {InputOps(d, i) : i \in Ids(Inputs)}
OutOps(d) == UNION {OutputOps(d, o) : o \in Ids(Outputs)}
StrOps(d) == (UNION {EncoderOps(d, e) : e \in Ids(Encoders)}) \cup LateOps(d)

\* Inputs, outputs and streams are apart in a plan.
LEMMA PartOps ==
    ASSUME NEW d \in Docs
    PROVE  /\ InOps(d) \subseteq Ops(d) /\ OutOps(d) \subseteq Ops(d) /\ StrOps(d) \subseteq Ops(d)
           /\ \A op \in InOps(d) : \A x : ~OnOutput(op, x) /\ ~OnEncoder(op, x)
           /\ \A op \in OutOps(d) : \A x : ~OnInput(op, x) /\ ~OnEncoder(op, x)
           /\ \A op \in StrOps(d) : \A x : ~OnInput(op, x) /\ ~OnOutput(op, x)
<1>1. ASSUME NEW op \in InOps(d) PROVE op \in Ops(d) /\ \A x : ~OnOutput(op, x) /\ ~OnEncoder(op, x)
  <2>1. PICK i \in Ids(Inputs) : op \in InputOps(d, i)
    BY DEF InOps
  <2>2. QED
    BY <2>1, OpSets, Zenon
<1>2. ASSUME NEW op \in OutOps(d) PROVE op \in Ops(d) /\ \A x : ~OnInput(op, x) /\ ~OnEncoder(op, x)
  <2>1. PICK o \in Ids(Outputs) : op \in OutputOps(d, o)
    BY DEF OutOps
  <2>2. QED
    BY <2>1, OpSets, Zenon
<1>3. ASSUME NEW op \in StrOps(d) PROVE op \in Ops(d) /\ \A x : ~OnInput(op, x) /\ ~OnOutput(op, x)
  <2>1. CASE \E e \in Ids(Encoders) : op \in EncoderOps(d, e)
    BY <2>1, OpSets, Zenon
  <2>2. CASE op \in LateOps(d)
    BY <2>2, OpSets, Zenon
  <2>3. (\E e \in Ids(Encoders) : op \in EncoderOps(d, e)) \/ op \in LateOps(d)
    BY DEF StrOps
  <2>4. QED
    BY <2>1, <2>2, <2>3
<1>4. QED
  BY <1>1, <1>2, <1>3

\* What the parts of a plan consist of.
LEMMA PlanOutputsInSeq ==
    ASSUME NEW p \in Docs, NEW n \in Docs, NEW O,
           \A x \in Ids(Outputs) : /\ PlanOutput(p.outputs[x], n.outputs[x], x) \in Seq(O)
                                   /\ PlanGoneOutput(p.outputs[x], n.outputs[x], x) \in Seq(O)
    PROVE  PlanOutputs(p, n) \in Seq(O)
<1> DEFINE a == Each(Outputs, [x \in Ids(Outputs) |-> PlanOutput(p.outputs[x], n.outputs[x], x)])
           b == Each(Outputs, [x \in Ids(Outputs) |-> PlanGoneOutput(p.outputs[x], n.outputs[x], x)])
<1>1. a \in Seq(O) /\ b \in Seq(O)
  BY OutputsInSeq
<1>2. PlanOutputs(p, n) = a \o b
  BY DEF PlanOutputs
<1> HIDE DEF a, b
<1>3. a \o b \in Seq(O)
  BY <1>1, SeqJoin, Zenon
<1>4. QED
  BY <1>2, <1>3, Zenon

LEMMA PlanStreamsInSeq ==
    ASSUME NEW p \in Docs, NEW n \in Docs, NEW O, LateOps(n) \subseteq O,
           \A e \in EncodersOf(n) : StreamOps(p, n, e) \in Seq(O),
           \A e \in EncodersOf(p) \ EncodersOf(n) : RemoveStream(p, e) \in Seq(O)
    PROVE  PlanStreams(p, n) \in Seq(O)
<1>1. NextStreams(p, n) \in Seq(O) /\ GoneStreams(p, n) \in Seq(O)
  BY NextStreamsInSeq, GoneStreamsInSeq, Zenon
<1>2. LateDests(n) \in Seq(O)
  BY LateDestsInSeq, SeqWider, Zenon
<1>3. NextStreams(p, n) \o GoneStreams(p, n) \in Seq(O)
  BY <1>1, SeqJoin, Zenon
<1>4. (NextStreams(p, n) \o GoneStreams(p, n)) \o LateDests(n) \in Seq(O)
  BY <1>2, <1>3, SeqJoin, Zenon
<1>5. PlanStreams(p, n) = (NextStreams(p, n) \o GoneStreams(p, n)) \o LateDests(n)
  BY PlanStreamsParts, Zenon
<1>6. QED
  BY <1>4, <1>5, Zenon

\* Each part is on its own kind.
LEMMA PlanParts ==
    ASSUME NEW p \in Docs, NEW n \in Docs
    PROVE  /\ PlanInputs(p, n) \in Seq(InOps(n)) /\ PlanInputs(p, n) \in Seq(Ops(n))
           /\ PlanOutputs(p, n) \in Seq(OutOps(n)) /\ PlanOutputs(p, n) \in Seq(Ops(n))
           /\ PlanStreams(p, n) \in Seq(StrOps(n)) /\ PlanStreams(p, n) \in Seq(Ops(n))
<1>1. PlanInputs(p, n) \in Seq(InOps(n))
  <2>1. \A i \in Ids(Inputs) : /\ DestroySource(i) \in InOps(n) /\ ConnectInput(i, n.inputs[i]) \in InOps(n)
                              /\ FailInput(i) \in InOps(n)
    BY DEF InOps, InputOps
  <2>2. QED
    BY <2>1, PlanInputsInSeq, Zenon
<1>2. PlanOutputs(p, n) \in Seq(OutOps(n))
  <2>1. \A x \in Ids(Outputs) : OutputOps(n, x) \subseteq OutOps(n)
    BY DEF OutOps
  <2>2. \A x \in Ids(Outputs) : /\ PlanOutput(p.outputs[x], n.outputs[x], x) \in Seq(OutOps(n))
                                /\ PlanGoneOutput(p.outputs[x], n.outputs[x], x) \in Seq(OutOps(n))
    <3>1. TAKE x \in Ids(Outputs)
    <3>2. OutputOps(n, x) \subseteq OutOps(n)
      BY <2>1
    <3>3. /\ PlanOutput(p.outputs[x], n.outputs[x], x) \in Seq(OutputOps(n, x))
          /\ PlanGoneOutput(p.outputs[x], n.outputs[x], x) \in Seq(OutputOps(n, x))
      BY OutputParts
    <3>4. QED
      BY <3>2, <3>3, SeqWider
  <2>3. QED
    BY <2>2, PlanOutputsInSeq, Zenon
<1>3. PlanStreams(p, n) \in Seq(StrOps(n))
  <2>0. LateOps(n) \subseteq StrOps(n)
    BY DEF StrOps
  <2>1. \A e \in Ids(Encoders) : EncoderOps(n, e) \subseteq StrOps(n)
    BY DEF StrOps
  <2>2. EncodersOf(n) \subseteq Ids(Encoders) /\ EncodersOf(p) \subseteq Ids(Encoders)
    BY DEF EncodersOf
  <2>3. \A e \in EncodersOf(n) : StreamOps(p, n, e) \in Seq(StrOps(n))
    BY <2>1, <2>2, EncoderParts, SeqWider
  <2>4. \A e \in EncodersOf(p) \ EncodersOf(n) : RemoveStream(p, e) \in Seq(StrOps(n))
    BY <2>1, <2>2, EncoderParts, SeqWider
  <2>5. QED
    BY <2>0, <2>3, <2>4, PlanStreamsInSeq, Zenon
<1>4. QED
  BY <1>1, <1>2, <1>3, PartOps, SeqWider, Zenon

\* A plan is its three parts, one after the other.
LEMMA PlanIs ==
    ASSUME NEW p, NEW n
    PROVE  /\ PlanUpTo("units", p, n) = <<>> /\ PlanUpTo("audio", p, n) = PlanInputs(p, n)
           /\ PlanUpTo("api", p, n) = PlanOf(p, n)
           /\ PlanOf(p, n) = (PlanInputs(p, n) \o PlanOutputs(p, n)) \o PlanStreams(p, n)
BY DEF PlanUpTo, PlanOf

LEMMA PlanInSeq ==
    ASSUME NEW p \in Docs, NEW n \in Docs
    PROVE  PlanOf(p, n) \in Seq(Ops(n))
<1>1. PlanInputs(p, n) \o PlanOutputs(p, n) \in Seq(Ops(n))
  BY PlanParts, SeqJoin, Zenon
<1>2. (PlanInputs(p, n) \o PlanOutputs(p, n)) \o PlanStreams(p, n) \in Seq(Ops(n))
  BY <1>1, PlanParts, SeqJoin, Zenon
<1>3. QED
  BY <1>2, PlanIs, Zenon

\* Three lists, one after the other.
LEMMA LeadsThrough ==
    ASSUME NEW A, NEW B, NEW C, NEW D, NEW refusing, NEW O, NEW s \in Seq(O), NEW t \in Seq(O), NEW u \in Seq(O),
           Leads(A, s, refusing, B), Leads(B, t, refusing, C), Leads(C, u, refusing, D)
    PROVE  Leads(A, (s \o t) \o u, refusing, D)
<1>1. s \o t \in Seq(O)
  BY SeqJoin, Zenon
<1>2. Leads(A, s \o t, refusing, C)
  BY LeadsOn, Zenon
<1>3. QED
  BY <1>1, <1>2, LeadsOn, Zenon

\* The plan from one document to another takes everything that may run of the first
\* to what may run of the second, but for an output that turns to RTMP and for an input
\* whose source it spares; an input whose source it takes down is one of the second
\* whatever ran.
LEMMA PlanLeads ==
    ASSUME NEW p \in Docs, NEW n \in Docs, NEW refusing
    PROVE  /\ \A i \in Ids(Inputs) \ Spared(p, n) :
                 /\ Leads(InputAs(i, p), PlanInputs(p, n), refusing, InputAs(i, n))
                 /\ Leads(InputAs(i, p), PlanOf(p, n), refusing, InputAs(i, n))
           /\ \A i \in TakenDown(p, n) : Leads(Runs, PlanOf(p, n), refusing, InputAs(i, n))
           /\ \A o \in Ids(Outputs) :
                 /\ Leads(OutputAs(o, p), PlanInputs(p, n), refusing, OutputAs(o, p))
                 /\ o \notin Turned(p, n) => Leads(OutputAs(o, p), PlanOf(p, n), refusing, OutputAs(o, n))
                 /\ o \in Turned(p, n) => Leads(OutputAs(o, p), PlanOf(p, n), refusing, OutputAs(o, p))
           /\ \A e \in Ids(Encoders) :
                 /\ Leads(StreamAs(e, p), PlanInputs(p, n), refusing, StreamAs(e, p))
                 /\ Leads(StreamAs(e, p), PlanOf(p, n), refusing, StreamAs(e, n))
<1> DEFINE a == PlanInputs(p, n)
           b == PlanOutputs(p, n)
           c == PlanStreams(p, n)
<1>1. a \in Seq(Ops(n)) /\ b \in Seq(Ops(n)) /\ c \in Seq(Ops(n)) /\ PlanOf(p, n) = (a \o b) \o c
  BY PlanParts, PlanIs, Zenon
<1>2. a \in Seq(InOps(n)) /\ b \in Seq(OutOps(n)) /\ c \in Seq(StrOps(n))
  BY PlanParts, Zenon
<1>3. ASSUME NEW i \in Ids(Inputs), NEW A, Leads(A, a, refusing, InputAs(i, n))
      PROVE  Leads(A, PlanOf(p, n), refusing, InputAs(i, n))
  <2> HIDE DEF a, b, c
  <2>1. Leads(InputAs(i, n), b, refusing, InputAs(i, n)) /\ Leads(InputAs(i, n), c, refusing, InputAs(i, n))
    BY <1>1, ListKeeps, Zenon
  <2>2. Leads(A, (a \o b) \o c, refusing, InputAs(i, n))
    BY <1>1, <1>3, <2>1, LeadsThrough, Zenon
  <2>3. QED
    BY <1>1, <2>2, Zenon
<1>4. ASSUME NEW o \in Ids(Outputs)
      PROVE  /\ Leads(OutputAs(o, p), a, refusing, OutputAs(o, p))
             /\ o \notin Turned(p, n) => Leads(OutputAs(o, p), PlanOf(p, n), refusing, OutputAs(o, n))
             /\ o \in Turned(p, n) => Leads(OutputAs(o, p), PlanOf(p, n), refusing, OutputAs(o, p))
  <2>1. /\ o \notin Turned(p, n) => Leads(OutputAs(o, p), b, refusing, OutputAs(o, n))
        /\ o \in Turned(p, n) => Leads(OutputAs(o, p), b, refusing, OutputAs(o, p))
    BY OutputsLed
  <2> HIDE DEF a, b, c
  <2>2. Leads(OutputAs(o, p), a, refusing, OutputAs(o, p))
    BY <1>2, PartOps, ListElsewhere, Zenon
  <2>3. Leads(OutputAs(o, n), c, refusing, OutputAs(o, n)) /\ Leads(OutputAs(o, p), c, refusing, OutputAs(o, p))
    BY <1>2, PartOps, ListElsewhere, Zenon
  <2>4. QED
    BY <1>1, <2>1, <2>2, <2>3, LeadsThrough, Zenon
<1>5. ASSUME NEW e \in Ids(Encoders)
      PROVE  /\ Leads(StreamAs(e, p), a, refusing, StreamAs(e, p))
             /\ Leads(StreamAs(e, p), PlanOf(p, n), refusing, StreamAs(e, n))
  <2>1. Leads(StreamAs(e, p), c, refusing, StreamAs(e, n))
    BY StreamsLed
  <2> HIDE DEF a, b, c
  <2>2. Leads(StreamAs(e, p), a, refusing, StreamAs(e, p)) /\ Leads(StreamAs(e, p), b, refusing, StreamAs(e, p))
    BY <1>2, PartOps, StreamElsewhere, Zenon
  <2>3. QED
    BY <1>1, <2>1, <2>2, LeadsThrough, Zenon
<1>6. ASSUME NEW i \in Ids(Inputs) \ Spared(p, n)
      PROVE  /\ Leads(InputAs(i, p), a, refusing, InputAs(i, n))
             /\ Leads(InputAs(i, p), PlanOf(p, n), refusing, InputAs(i, n))
  <2>1. Leads(InputAs(i, p), a, refusing, InputAs(i, n))
    BY InputsLed
  <2> HIDE DEF a
  <2>2. QED
    BY <1>3, <2>1
<1>7. ASSUME NEW i \in TakenDown(p, n) PROVE Leads(Runs, PlanOf(p, n), refusing, InputAs(i, n))
  <2>0. i \in Ids(Inputs)
    BY DEF TakenDown
  <2>1. Leads(Runs, a, refusing, InputAs(i, n))
    BY <2>0, InputsLed
  <2> HIDE DEF a
  <2>2. QED
    BY <1>3, <2>0, <2>1
<1>8. QED
  BY <1>4, <1>5, <1>6, <1>7

\* The plan leaves what already is as its document wants it.
LEMMA PlanKeeps ==
    ASSUME NEW p \in Docs, NEW n \in Docs, NEW refusing
    PROVE  /\ \A i \in Ids(Inputs) : Leads(InputAs(i, n), PlanOf(p, n), refusing, InputAs(i, n))
           /\ \A o \in Ids(Outputs) : Leads(OutputAs(o, n), PlanOf(p, n), refusing, OutputAs(o, n))
           /\ \A e \in Ids(Encoders) : Leads(StreamAs(e, n), PlanOf(p, n), refusing, StreamAs(e, n))
BY PlanInSeq, ListKeeps, StreamKept, Zenon

\* What is added to a plan for an encoder that streams.
Reinforced(statuses, n, ops, e) ==
    IF /\ \E i \in DestsOf(n, e) \cup {e} : EncoderDown(statuses, i)
       /\ ~Adding(ops, "AddEncoder", e)
    THEN Rebuild(n, e) ELSE Readd(n, e, ops)

\* Reinforcing is reinforcing each encoder that streams.
LEMMA ReinforceIs ==
    ASSUME NEW statuses, NEW n, NEW ops
    PROVE  ReinforceStreams(statuses, n, ops) =
             Each(Encoders, [e \in Streaming(n) |-> Reinforced(statuses, n, ops, e)])
BY DEF ReinforceStreams, Reinforced, Streaming

\* What it consists of.
LEMMA ReinforcedInSeq ==
    ASSUME NEW statuses, NEW n \in Docs, NEW ops, NEW e, NEW O,
           \A o \in DestsOf(n, e) : AddDest(o, n.outputs[o]) \in O,
           (\E i \in DestsOf(n, e) \cup {e} : EncoderDown(statuses, i)) =>
              RemoveEncoder(e) \in O /\ AddEncoder(e, n.encoders[e]) \in O
    PROVE  Reinforced(statuses, n, ops, e) \in Seq(O)
<1> DEFINE D == {o \in DestsOf(n, e) : ~Adding(ops, "AddDest", o)}
           f == [o \in D |-> <<AddDest(o, n.outputs[o])>>]
<1>1. Readd(n, e, ops) \in Seq(O)
  <2>1. \A x \in D : AddDest(x, n.outputs[x]) \in O
    OBVIOUS
  <2> HIDE DEF D
  <2>2. \A x \in D : <<AddDest(x, n.outputs[x])>> \in Seq(O)
    BY <2>1, SeqOne, Zenon
  <2>3. \A x \in DOMAIN f : f[x] \in Seq(O)
    BY <2>2
  <2> HIDE DEF f
  <2>4. Each(Outputs, f) \in Seq(O)
    BY <2>3, IdFacts, EachInSeq, Zenon
  <2>5. QED
    BY <2>4 DEF f, D, Readd
<1>2. CASE \E i \in DestsOf(n, e) \cup {e} : EncoderDown(statuses, i)
  <2>1. <<RemoveEncoder(e), AddEncoder(e, n.encoders[e])>> \in Seq(O)
    BY <1>2
  <2>2. AddDests(n, e) \in Seq(O)
    BY AddDestsInSeq, Zenon
  <2>3. Rebuild(n, e) \in Seq(O)
    BY <2>1, <2>2, SeqJoin, Zenon DEF Rebuild
  <2>4. QED
    BY <1>1, <2>3, Zenon DEF Reinforced
<1>3. CASE ~ \E i \in DestsOf(n, e) \cup {e} : EncoderDown(statuses, i)
  BY <1>1, <1>3, Zenon DEF Reinforced
<1>4. QED
  BY <1>2, <1>3

LEMMA ReinforceInSeq ==
    ASSUME NEW statuses, NEW n \in Docs, NEW ops, NEW O,
           \A e \in Streaming(n) : Reinforced(statuses, n, ops, e) \in Seq(O)
    PROVE  ReinforceStreams(statuses, n, ops) \in Seq(O)
<1> DEFINE f == [e \in Streaming(n) |-> Reinforced(statuses, n, ops, e)]
<1>1. \A x \in DOMAIN f : f[x] \in Seq(O)
  OBVIOUS
<1>2. ReinforceStreams(statuses, n, ops) = Each(Encoders, f)
  BY ReinforceIs
<1> HIDE DEF f
<1>3. Each(Encoders, f) \in Seq(O)
  BY <1>1, IdFacts, EachInSeq, Zenon
<1>4. QED
  BY <1>2, <1>3, Zenon

LEMMA ReinforcedParts ==
    ASSUME NEW statuses, NEW n \in Docs, NEW ops, NEW e \in Streaming(n)
    PROVE  Reinforced(statuses, n, ops, e) \in Seq(EncoderOps(n, e))
<1>1. \A o \in DestsOf(n, e) : AddDest(o, n.outputs[o]) \in EncoderOps(n, e)
  BY DEF EncoderOps
<1>2. RemoveEncoder(e) \in EncoderOps(n, e) /\ AddEncoder(e, n.encoders[e]) \in EncoderOps(n, e)
  BY DEF EncoderOps
<1>3. QED
  BY <1>1, <1>2, ReinforcedInSeq, Zenon

LEMMA ReinforceParts ==
    ASSUME NEW statuses, NEW n \in Docs, NEW ops
    PROVE  ReinforceStreams(statuses, n, ops) \in Seq(Ops(n))
<1>1. ASSUME NEW e \in Streaming(n) PROVE Reinforced(statuses, n, ops, e) \in Seq(Ops(n))
  <2>1. e \in Ids(Encoders)
    BY DEF Streaming, EncodersOf
  <2>2. EncoderOps(n, e) \subseteq Ops(n)
    BY <2>1, OpSets
  <2>3. QED
    BY <2>2, ReinforcedParts, SeqWider, Zenon
<1>2. QED
  BY <1>1, ReinforceInSeq, Zenon

\* A publish carries out the plan and then what is added to it.
LEMMA AllOpsAre ==
    ASSUME NEW p, NEW n
    PROVE  AllOps(p, n) = PlanOf(p, n) \o ReinforceStreams(resources, n, PlanOf(p, n))
BY DEF AllOps

LEMMA AllOpsInSeq ==
    ASSUME NEW p \in Docs, NEW n \in Docs
    PROVE  AllOps(p, n) \in Seq(Ops(n))
BY AllOpsAre, PlanInSeq, ReinforceParts, SeqJoin, Zenon

\* A publish takes what may run of one document to what may run of the next.
LEMMA AllOpsLead ==
    ASSUME NEW p \in Docs, NEW n \in Docs, NEW refusing
    PROVE  /\ \A i \in Ids(Inputs) \ Spared(p, n) : Leads(InputAs(i, p), AllOps(p, n), refusing, InputAs(i, n))
           /\ \A i \in TakenDown(p, n) : Leads(Runs, AllOps(p, n), refusing, InputAs(i, n))
           /\ \A o \in Ids(Outputs) \ Turned(p, n) : Leads(OutputAs(o, p), AllOps(p, n), refusing, OutputAs(o, n))
           /\ \A e \in Ids(Encoders) : Leads(StreamAs(e, p), AllOps(p, n), refusing, StreamAs(e, n))
<1> DEFINE s == PlanOf(p, n)
           t == ReinforceStreams(resources, n, s)
<1>1. s \in Seq(Ops(n)) /\ t \in Seq(Ops(n)) /\ AllOps(p, n) = s \o t
  BY PlanInSeq, ReinforceParts, AllOpsAre, Zenon
<1>2. /\ \A i \in Ids(Inputs) \ Spared(p, n) : Leads(InputAs(i, p), s, refusing, InputAs(i, n))
      /\ \A i \in TakenDown(p, n) : i \in Ids(Inputs) /\ Leads(Runs, s, refusing, InputAs(i, n))
      /\ \A o \in Ids(Outputs) \ Turned(p, n) : Leads(OutputAs(o, p), s, refusing, OutputAs(o, n))
      /\ \A e \in Ids(Encoders) : Leads(StreamAs(e, p), s, refusing, StreamAs(e, n))
  BY PlanLeads DEF TakenDown
<1> HIDE DEF s, t
<1>3. /\ \A i \in Ids(Inputs) : Leads(InputAs(i, n), t, refusing, InputAs(i, n))
      /\ \A o \in Ids(Outputs) : Leads(OutputAs(o, n), t, refusing, OutputAs(o, n))
      /\ \A e \in Ids(Encoders) : Leads(StreamAs(e, n), t, refusing, StreamAs(e, n))
  BY <1>1, ListKeeps, StreamKept, Zenon
<1>4. ASSUME NEW i \in Ids(Inputs) \ Spared(p, n) PROVE Leads(InputAs(i, p), s \o t, refusing, InputAs(i, n))
  <2>1. Leads(InputAs(i, p), s, refusing, InputAs(i, n)) /\ Leads(InputAs(i, n), t, refusing, InputAs(i, n))
    BY <1>2, <1>3
  <2>2. QED
    BY <1>1, <2>1, LeadsOn, Zenon
<1>5. ASSUME NEW i \in TakenDown(p, n) PROVE Leads(Runs, s \o t, refusing, InputAs(i, n))
  <2>1. Leads(Runs, s, refusing, InputAs(i, n)) /\ Leads(InputAs(i, n), t, refusing, InputAs(i, n))
    BY <1>2, <1>3
  <2>2. QED
    BY <1>1, <2>1, LeadsOn, Zenon
<1>6. ASSUME NEW o \in Ids(Outputs) \ Turned(p, n) PROVE Leads(OutputAs(o, p), s \o t, refusing, OutputAs(o, n))
  <2>1. Leads(OutputAs(o, p), s, refusing, OutputAs(o, n)) /\ Leads(OutputAs(o, n), t, refusing, OutputAs(o, n))
    BY <1>2, <1>3
  <2>2. QED
    BY <1>1, <2>1, LeadsOn, Zenon
<1>7. ASSUME NEW e \in Ids(Encoders) PROVE Leads(StreamAs(e, p), s \o t, refusing, StreamAs(e, n))
  BY <1>1, <1>2, <1>3, LeadsOn, Zenon
<1>8. QED
  BY <1>1, <1>4, <1>5, <1>6, <1>7, Zenon

-----------------------------------------------------------------------------
(* Nothing unwanted runs *)

\* The port runs what document d wants, but for the outputs in `turned` and the inputs
\* in `spared`.
Serves(d, turned, spared, p) ==
    /\ p \in Ports
    /\ \A i \in Ids(Inputs) \ spared : Begin(p) \in InputAs(i, d)
    /\ \A o \in Ids(Outputs) \ turned : Begin(p) \in OutputAs(o, d)
    /\ \A e \in Ids(Encoders) : Begin(p) \in StreamAs(e, d)

ReconcileInv ==
    /\ session \in Docs /\ port \in Ports
    /\ ~last.stray => Serves(session, last.turned, last.spared, port)

\* What may run depends on the port alone.
LEMMA BeginFacts ==
    /\ \A p \in Ports : Begin(p) \in Runs
    /\ \A r \in Runs : r.port \in Ports
    /\ \A i, d : \A r \in InputAs(i, d) : Begin(r.port) \in InputAs(i, d)
    /\ \A o, d : \A r \in OutputAs(o, d) : Begin(r.port) \in OutputAs(o, d)
    /\ \A e, d : \A r \in StreamAs(e, d) : Begin(r.port) \in StreamAs(e, d)
<1>1. /\ \A p \in Ports : Begin(p) \in Runs /\ Begin(p).port = p
      /\ \A r \in Runs : r.port \in Ports
  BY DEF Begin, Runs
<1> HIDE DEF Begin
<1>2. QED
  BY <1>1 DEF InputAs, OutputAs, StreamAs, EncoderAs, DestAs

\* A publish of n over p: the port serves n, whatever was refused.
LEMMA ExecuteServes ==
    ASSUME NEW p \in Docs, NEW n \in Docs, NEW q, NEW turned, NEW spared, NEW refusing, Serves(p, turned, spared, q)
    PROVE  Serves(n, turned \cup Turned(p, n), (spared \ TakenDown(p, n)) \cup Spared(p, n),
                  Execute(q, AllOps(p, n), refusing).port)
<1> DEFINE run == Execute(q, AllOps(p, n), refusing)
<1>1. q \in Ports /\ Begin(q) \in Runs
  BY BeginFacts DEF Serves
<1>2. run \in Runs
  <2>1. Leads(Runs, AllOps(p, n), refusing, Runs)
    BY AllOpsInSeq, ListKeeps, Zenon
  <2>2. QED
    BY <1>1, <2>1 DEF Execute, Leads
<1>3. \A i \in Ids(Inputs) \ ((spared \ TakenDown(p, n)) \cup Spared(p, n)) : run \in InputAs(i, n)
  <2>1. TAKE i \in Ids(Inputs) \ ((spared \ TakenDown(p, n)) \cup Spared(p, n))
  <2>2. CASE i \in TakenDown(p, n)
    <3>1. Leads(Runs, AllOps(p, n), refusing, InputAs(i, n))
      BY <2>2, AllOpsLead
    <3>2. QED
      BY <1>1, <3>1 DEF Execute, Leads
  <2>3. CASE i \notin spared
    <3>1. Leads(InputAs(i, p), AllOps(p, n), refusing, InputAs(i, n))
      BY AllOpsLead
    <3>2. QED
      BY <2>3, <3>1 DEF Execute, Leads, Serves
  <2>4. QED
    BY <2>2, <2>3
<1>4. \A o \in Ids(Outputs) \ (turned \cup Turned(p, n)) : run \in OutputAs(o, n)
  <2>1. TAKE o \in Ids(Outputs) \ (turned \cup Turned(p, n))
  <2>2. Leads(OutputAs(o, p), AllOps(p, n), refusing, OutputAs(o, n))
    BY AllOpsLead
  <2>3. QED
    BY <2>2 DEF Execute, Leads, Serves
<1>5. \A e \in Ids(Encoders) : run \in StreamAs(e, n)
  <2>1. TAKE e \in Ids(Encoders)
  <2>2. Leads(StreamAs(e, p), AllOps(p, n), refusing, StreamAs(e, n))
    BY AllOpsLead
  <2>3. QED
    BY <2>2 DEF Execute, Leads, Serves
<1> HIDE DEF run
<1>6. Serves(n, turned \cup Turned(p, n), (spared \ TakenDown(p, n)) \cup Spared(p, n), run.port)
  BY <1>2, <1>3, <1>4, <1>5, BeginFacts, Zenon DEF Serves
<1>7. QED
  BY <1>6 DEF run

\* Whatever part of the plan has run, the plan back serves the document that was.
LEMMA RollbackServes ==
    ASSUME NEW s \in Docs, NEW n \in Docs, NEW q, NEW turned, NEW spared, NEW refusing, Serves(s, turned, spared, q),
           NEW place \in {"units", "audio", "api"}
    PROVE  Serves(s, turned \cup Turned(n, s), spared \cup Spared(s, n) \cup Spared(n, s),
                  Execute(Execute(q, PlanUpTo(place, s, n), refusing).port, PlanOf(n, s), refusing).port)
<1> DEFINE run == Execute(q, PlanUpTo(place, s, n), refusing)
           back == Execute(run.port, PlanOf(n, s), refusing)
<1>0. q \in Ports /\ Begin(q) \in Runs
  BY BeginFacts DEF Serves
<1>1. run = CarryOut(Begin(q), PlanUpTo(place, s, n), refusing)
  BY DEF Execute
<1>2. back = CarryOut(Begin(run.port), PlanOf(n, s), refusing)
  BY DEF Execute
<1> HIDE DEF run, back
\* Half way, what runs is as one document or the other wants it.
<1>3. /\ run \in Runs
      /\ \A i \in Ids(Inputs) \ (spared \cup Spared(s, n)) : run \in InputAs(i, s) \/ run \in InputAs(i, n)
      /\ \A o \in Ids(Outputs) \ turned : run \in OutputAs(o, s) \/ run \in OutputAs(o, n)
      /\ \A e \in Ids(Encoders) : run \in StreamAs(e, s) \/ run \in StreamAs(e, n)
  <2>1. CASE place = "units"
    <3>1. run = Begin(q)
      BY <1>1, <2>1, PlanIs, CarryOutNone
    <3>2. QED
      BY <1>0, <3>1, Zenon DEF Serves
  <2>2. CASE place = "audio"
    <3>1. run = CarryOut(Begin(q), PlanInputs(s, n), refusing)
      BY <1>1, <2>2, PlanIs
    <3>2. Leads(Runs, PlanInputs(s, n), refusing, Runs)
      BY PlanParts, ListKeeps, Zenon
    <3>3. /\ \A i \in Ids(Inputs) \ Spared(s, n) : Leads(InputAs(i, s), PlanInputs(s, n), refusing, InputAs(i, n))
          /\ \A o \in Ids(Outputs) : Leads(OutputAs(o, s), PlanInputs(s, n), refusing, OutputAs(o, s))
          /\ \A e \in Ids(Encoders) : Leads(StreamAs(e, s), PlanInputs(s, n), refusing, StreamAs(e, s))
      BY PlanLeads, Zenon
    <3>4. QED
      BY <1>0, <3>1, <3>2, <3>3 DEF Serves, Leads
  <2>3. CASE place = "api"
    <3>1. run = CarryOut(Begin(q), PlanOf(s, n), refusing)
      BY <1>1, <2>3, PlanIs
    <3>2. Leads(Runs, PlanOf(s, n), refusing, Runs)
      BY PlanInSeq, ListKeeps, Zenon
    <3>3. /\ \A i \in Ids(Inputs) \ Spared(s, n) : Leads(InputAs(i, s), PlanOf(s, n), refusing, InputAs(i, n))
          /\ \A o \in Ids(Outputs) : o \notin Turned(s, n) => Leads(OutputAs(o, s), PlanOf(s, n), refusing, OutputAs(o, n))
          /\ \A o \in Ids(Outputs) : o \in Turned(s, n) => Leads(OutputAs(o, s), PlanOf(s, n), refusing, OutputAs(o, s))
          /\ \A e \in Ids(Encoders) : Leads(StreamAs(e, s), PlanOf(s, n), refusing, StreamAs(e, n))
      BY PlanLeads, Zenon
    <3>4. QED
      BY <1>0, <3>1, <3>2, <3>3 DEF Serves, Leads
  <2>4. QED
    BY <2>1, <2>2, <2>3
<1> DEFINE start == Begin(run.port)
<1>4. /\ start \in Runs
      /\ \A i \in Ids(Inputs) \ (spared \cup Spared(s, n)) : start \in InputAs(i, s) \/ start \in InputAs(i, n)
      /\ \A o \in Ids(Outputs) \ turned : start \in OutputAs(o, s) \/ start \in OutputAs(o, n)
      /\ \A e \in Ids(Encoders) : start \in StreamAs(e, s) \/ start \in StreamAs(e, n)
  BY <1>3, BeginFacts
<1>5. Leads(Runs, PlanOf(n, s), refusing, Runs)
  BY PlanInSeq, ListKeeps, Zenon
<1>6. back = CarryOut(start, PlanOf(n, s), refusing)
  BY <1>2
<1> HIDE DEF start
<1>7. back \in Runs
  BY <1>4, <1>5, <1>6 DEF Leads
<1>8. \A i \in Ids(Inputs) \ (spared \cup Spared(s, n) \cup Spared(n, s)) : back \in InputAs(i, s)
  <2>1. TAKE i \in Ids(Inputs) \ (spared \cup Spared(s, n) \cup Spared(n, s))
  <2>2. Leads(InputAs(i, n), PlanOf(n, s), refusing, InputAs(i, s)) /\ Leads(InputAs(i, s), PlanOf(n, s), refusing, InputAs(i, s))
    BY PlanLeads, PlanKeeps
  <2>3. QED
    BY <1>4, <1>6, <2>2 DEF Leads
<1>9. \A o \in Ids(Outputs) \ (turned \cup Turned(n, s)) : back \in OutputAs(o, s)
  <2>1. TAKE o \in Ids(Outputs) \ (turned \cup Turned(n, s))
  <2>2. Leads(OutputAs(o, n), PlanOf(n, s), refusing, OutputAs(o, s)) /\ Leads(OutputAs(o, s), PlanOf(n, s), refusing, OutputAs(o, s))
    BY PlanLeads, PlanKeeps
  <2>3. QED
    BY <1>4, <1>6, <2>2 DEF Leads
<1>10. \A e \in Ids(Encoders) : back \in StreamAs(e, s)
  <2>1. TAKE e \in Ids(Encoders)
  <2>2. Leads(StreamAs(e, n), PlanOf(n, s), refusing, StreamAs(e, s)) /\ Leads(StreamAs(e, s), PlanOf(n, s), refusing, StreamAs(e, s))
    BY PlanLeads, PlanKeeps
  <2>3. QED
    BY <1>4, <1>6, <2>2 DEF Leads
<1>11. Serves(s, turned \cup Turned(n, s), spared \cup Spared(s, n) \cup Spared(n, s), back.port)
  BY <1>7, <1>8, <1>9, <1>10, BeginFacts, Zenon DEF Serves
<1>12. QED
  BY <1>11 DEF back, run

\* A mixer that runs nothing serves a session that has nothing.
LEMMA EmptyServes ==
    NoSession \in Docs /\ Serves(NoSession, {}, {}, EmptyPort)
<1>1. NoSession \in Docs
  BY DEF Docs
<1>2. EmptyPort \in Ports
  BY DEF EmptyPort, NoSession, Ports, Configs
<1>3. /\ \A i \in Ids(Inputs) : EmptyPort.inputs[i] = Absent
      /\ \A o \in Ids(Outputs) : EmptyPort.outputs[o] = Absent
      /\ \A e \in Ids(Encoders) : EmptyPort.encoders[e] = Absent /\ EmptyPort.dests[e] = {}
  BY DEF EmptyPort, NoSession
<1>4. Begin(EmptyPort) \in Runs /\ Begin(EmptyPort).port = EmptyPort
  BY <1>2 DEF Begin, Runs
<1> DEFINE p == EmptyPort
           r == Begin(p)
<1> HIDE DEF p, r
<1>5. \A e \in Ids(Encoders) : r \in StreamAs(e, NoSession)
  <2>1. TAKE e \in Ids(Encoders)
  <2>2. r \in Off(e)
    BY <1>3, <1>4 DEF Off, p, r
  <2>3. QED
    BY <1>1, <2>2, StreamFacts
<1>6. \A i \in Ids(Inputs) : r \in InputAs(i, NoSession)
  BY <1>3, <1>4 DEF InputAs, p, r
<1>7. \A o \in Ids(Outputs) : r \in OutputAs(o, NoSession)
  BY <1>3, <1>4 DEF OutputAs, p, r
<1>8. QED
  BY <1>1, <1>2, <1>5, <1>6, <1>7 DEF Serves, p, r

\* The port serves the session at first and after every step.
LEMMA ReconcileInvInit == ReconcileInit => ReconcileInv
<1>1. SUFFICES ASSUME ReconcileInit PROVE ReconcileInv
  OBVIOUS
<1>2. session = NoSession /\ port = EmptyPort /\ last.turned = {} /\ last.spared = {} /\ last.stray = FALSE
  BY <1>1 DEF ReconcileInit, NoPublish
<1>3. QED
  BY <1>2, EmptyServes DEF ReconcileInv, Serves

LEMMA ReconcileInvNext == ReconcileInv /\ [ReconcileNext]_reconcileVars => ReconcileInv'
<1>1. SUFFICES ASSUME ReconcileInv, [ReconcileNext]_reconcileVars PROVE ReconcileInv'
  OBVIOUS
<1>2. session \in Docs /\ port \in Ports /\ (~last.stray => Serves(session, last.turned, last.spared, port))
  BY <1>1 DEF ReconcileInv
\* Both ways of carrying out the whole plan.
<1>3. ASSUME NEW n \in Documents, NEW refusing, session' = n, port' = Execute(port, AllOps(session, n), refusing).port,
             ~last'.stray => ~last.stray, last'.turned = last.turned \cup Turned(session, n),
             last'.spared = (last.spared \ TakenDown(session, n)) \cup Spared(session, n)
      PROVE  ReconcileInv'
  <2>1. n \in Docs
    BY DEF Docs
  <2>2. port' \in Ports
    <3>1. Leads(Runs, AllOps(session, n), refusing, Runs)
      BY <1>2, <2>1, AllOpsInSeq, ListKeeps, Zenon
    <3>2. QED
      BY <1>2, <1>3, <3>1, BeginFacts DEF Execute, Leads
  <2>3. ~last.stray => Serves(n, last.turned \cup Turned(session, n),
                                (last.spared \ TakenDown(session, n)) \cup Spared(session, n), port')
    BY <1>2, <1>3, <2>1, ExecuteServes
  <2>4. ~last'.stray => Serves(session', last'.turned, last'.spared, port')
    BY <1>3, <2>3
  <2>5. QED
    BY <1>3, <2>1, <2>2, <2>4 DEF ReconcileInv, Serves
<1>4. ASSUME NEW n \in Documents, NEW refusing, Publish(n, AllOps(session, n), refusing) PROVE ReconcileInv'
  <2>1. /\ session' = n /\ port' = Execute(port, AllOps(session, n), refusing).port
        /\ last' = Outcome("ok", n, refusing)
    BY <1>4 DEF Publish
  <2>2. /\ ~last'.stray => ~last.stray
        /\ last'.turned = last.turned \cup Turned(session, n)
        /\ last'.spared = (last.spared \ TakenDown(session, n)) \cup Spared(session, n)
    BY <2>1 DEF Outcome
  <2>3. QED
    BY <1>3, <2>1, <2>2
<1>5. ASSUME NEW n \in Documents, NEW refusing, PublishLate(n, AllOps(session, n), refusing) PROVE ReconcileInv'
  <2>1. /\ session' = n /\ port' = Execute(port, AllOps(session, n), refusing).port
        /\ last' = Outcome("late", n, refusing)
    BY <1>5 DEF PublishLate
  <2>2. /\ ~last'.stray => ~last.stray
        /\ last'.turned = last.turned \cup Turned(session, n)
        /\ last'.spared = (last.spared \ TakenDown(session, n)) \cup Spared(session, n)
    BY <2>1 DEF Outcome
  <2>3. QED
    BY <1>3, <2>1, <2>2
<1>6. ASSUME NEW n \in Documents, NEW refusing, NEW place \in {"units", "audio", "api"}, Abort(n, place, refusing)
      PROVE  ReconcileInv'
  <2>1. n \in Docs
    BY DEF Docs
  <2>2. /\ session' = session /\ (~last'.stray => ~last.stray /\ loaded)
        /\ last'.turned = last.turned \cup Turned(n, session)
        /\ last'.spared = last.spared \cup Spared(session, n) \cup Spared(n, session)
    BY <1>6 DEF Abort, Outcome
  <2> DEFINE run == Execute(port, PlanUpTo(place, session, n), refusing)
             back == Execute(run.port, PlanOf(n, session), refusing)
  <2>3. port' = IF ~loaded THEN run.port ELSE back.port
    BY <1>6 DEF Abort
  <2>4. ~last'.stray => Serves(session, last.turned \cup Turned(n, session),
                                last.spared \cup Spared(session, n) \cup Spared(n, session), back.port)
    BY <1>2, <2>1, <2>2, RollbackServes
  <2>5. run.port \in Ports
    <3>1. PlanUpTo(place, session, n) \in Seq(Ops(n))
      <4>1. <<>> \in Seq(Ops(n))
        OBVIOUS
      <4>2. QED
        BY <1>2, <2>1, <4>1, PlanIs, PlanParts, PlanInSeq
    <3>2. Leads(Runs, PlanUpTo(place, session, n), refusing, Runs)
      BY <2>1, <3>1, ListKeeps, Zenon
    <3>3. QED
      BY <1>2, <3>2, BeginFacts DEF Execute, Leads
  <2> HIDE DEF run
  <2>6. back.port \in Ports
    <3>1. Leads(Runs, PlanOf(n, session), refusing, Runs)
      BY <1>2, <2>1, PlanInSeq, ListKeeps, Zenon
    <3>2. QED
      BY <2>5, <3>1, BeginFacts DEF Execute, Leads
  <2> HIDE DEF back
  <2>7. ~last'.stray => Serves(session', last'.turned, last'.spared, port')
    BY <2>2, <2>3, <2>4
  <2>8. QED
    BY <1>2, <2>2, <2>3, <2>5, <2>6, <2>7 DEF ReconcileInv, Serves
<1>7. CASE Destroy
  <2>1. session' = NoSession /\ port' = EmptyPort /\ last'.turned = {} /\ last'.spared = {} /\ last'.stray = FALSE
    BY <1>7 DEF Destroy, NoPublish
  <2>2. QED
    BY <2>1, EmptyServes DEF ReconcileInv, Serves
<1>8. CASE UNCHANGED reconcileVars
  BY <1>2, <1>8 DEF reconcileVars, ReconcileInv, Serves
<1>9. CASE FilesChange
  BY <1>2, <1>9 DEF FilesChange, ReconcileInv, Serves
<1>10. QED
  BY <1>1, <1>4, <1>5, <1>6, <1>7, <1>8, <1>9 DEF ReconcileNext, Attempt

\* Nothing runs in the mixer that the session does not want, whichever publishes were
\* refused, failed late or were rolled back on the way.
THEOREM NothingUnwanted == ReconcileSpec => []NothingUnwantedRuns
<1>1. ReconcileInv => NothingUnwantedRuns
  <2>1. SUFFICES ASSUME ReconcileInv PROVE NothingUnwantedRuns
    OBVIOUS
  <2>2. SUFFICES ASSUME ~last.stray PROVE NothingUnwantedRuns
    BY DEF NothingUnwantedRuns, NoGhostInput, NoStaleOutput, NoIdleEncoder, NoStrayDestination
  <2>3. Serves(session, last.turned, last.spared, port)
    BY <2>1, <2>2 DEF ReconcileInv
  <2>4. port \in Ports /\ Begin(port).port = port
    BY <2>3 DEF Serves, Begin
  <2>5. NoGhostInput
    BY <2>3, <2>4 DEF NoGhostInput, Serves, InputAs
  <2>6. NoStaleOutput
    BY <2>3, <2>4 DEF NoStaleOutput, Serves, OutputAs, Outlets
  <2>7. NoIdleEncoder
    BY <2>3, <2>4 DEF NoIdleEncoder, Serves, StreamAs, EncoderAs
  <2>8. NoStrayDestination
    <3>1. SUFFICES ASSUME NEW e \in Ids(Encoders), NEW x \in port.dests[e] PROVE x \in Wanted(e)
      BY DEF NoStrayDestination
    <3>2. x \in Dests
      BY <2>4 DEF Ports
    <3>3. x.id \in Ids(Outputs) /\ x = [id |-> x.id, cfg |-> x.cfg]
      BY <3>2 DEF Dests
    <3>4. Begin(port) \in DestAs(e, x.id, session)
      BY <2>3, <3>3 DEF Serves, StreamAs
    <3>5. x.cfg = session.outputs[x.id].cfg /\ x.id \in DestsOf(session, e)
      BY <2>4, <3>4 DEF DestAs
    <3>6. QED
      BY <3>3, <3>5 DEF Wanted
  <2>9. QED
    BY <2>5, <2>6, <2>7, <2>8 DEF NothingUnwantedRuns
<1>2. QED
  BY <1>1, ReconcileInvInit, ReconcileInvNext, PTL DEF ReconcileSpec
-----------------------------------------------------------------------------
(* What a publish does not change keeps running *)

\* What each operation is on, and what it stops.
LEMMA OpFacts ==
    ASSUME NEW d \in Docs
    PROVE  /\ \A i \in Ids(Inputs) : DestroySource(i) \in Ops(d) /\ ConnectInput(i, d.inputs[i]) \in Ops(d)
           /\ \A o \in Ids(Outputs) : RemoveOutput(o) \in Ops(d)
           /\ \A e \in Ids(Encoders) : RemoveEncoder(e) \in Ops(d)
           /\ \A e \in Ids(Encoders), o \in Ids(Outputs) : RemoveDest(e, o) \in Ops(d)
           /\ \A e \in Streaming(d) : AddEncoder(e, d.encoders[e]) \in Ops(d)
           /\ \A o \in Streams(d) : AddDest(o, d.outputs[o]) \in Ops(d)
           /\ \A e, o, c, x : /\ ~Stops(AddEncoder(e, c), x) /\ ~Stops(AddDest(o, c), x)
                              /\ Stops(RemoveEncoder(e), x) => x = e
                              /\ Stops(RemoveDest(e, o), x) => x = o
                              /\ ~OnOutput(AddEncoder(e, c), x) /\ ~OnOutput(AddDest(o, c), x)
                              /\ ~OnOutput(RemoveEncoder(e), x) /\ ~OnOutput(RemoveDest(e, o), x)
<1>1. /\ \A i \in Ids(Inputs) : DestroySource(i) \in Ops(d) /\ ConnectInput(i, d.inputs[i]) \in Ops(d)
      /\ \A o \in Ids(Outputs) : RemoveOutput(o) \in Ops(d)
      /\ \A e \in Ids(Encoders) : RemoveEncoder(e) \in Ops(d)
      /\ \A e \in Ids(Encoders), o \in Ids(Outputs) : RemoveDest(e, o) \in Ops(d)
      /\ \A e \in Streaming(d) : AddEncoder(e, d.encoders[e]) \in Ops(d)
      /\ \A o \in Streams(d) : AddDest(o, d.outputs[o]) \in Ops(d)
  BY DEF Ops
<1>2. \A e, o, c, x : /\ ~Stops(AddEncoder(e, c), x) /\ ~Stops(AddDest(o, c), x)
                      /\ Stops(RemoveEncoder(e), x) => x = e
                      /\ Stops(RemoveDest(e, o), x) => x = o
                      /\ ~OnOutput(AddEncoder(e, c), x) /\ ~OnOutput(AddDest(o, c), x)
                      /\ ~OnOutput(RemoveEncoder(e), x) /\ ~OnOutput(RemoveDest(e, o), x)
  BY DEF Stops, Adds, OnOutput, AddEncoder, AddDest, RemoveEncoder, RemoveDest, Op
<1>3. QED
  BY <1>1, <1>2

\* The operations on streams stop only outputs and encoders.
LEMMA StrOpsStop ==
    ASSUME NEW d \in Docs, NEW op \in StrOps(d), NEW x, Stops(op, x)
    PROVE  x \in Ids(Outputs) \cup Ids(Encoders)
<1>1. PICK e \in Ids(Encoders) : op \in EncoderOps(d, e)
  <2>1. op \notin LateOps(d)
    BY OpSets
  <2>2. QED
    BY <2>1 DEF StrOps
<1>2. CASE op = RemoveEncoder(e)
  BY <1>2, OpFacts, Zenon
<1>3. CASE \E o \in Ids(Outputs) : op = RemoveDest(e, o)
  <2>1. PICK o \in Ids(Outputs) : op = RemoveDest(e, o)
    BY <1>3
  <2>2. x = o
    BY <2>1 DEF Stops, RemoveDest, Op
  <2>3. QED
    BY <2>2
<1>4. CASE e \in Streaming(d) /\ op = AddEncoder(e, d.encoders[e])
  BY <1>4 DEF Stops, AddEncoder, Op, Adds
<1>5. CASE \E o \in DestsOf(d, e) : op = AddDest(o, d.outputs[o])
  BY <1>5 DEF Stops, AddDest, Op, Adds
<1>6. QED
  BY <1>1, <1>2, <1>3, <1>4, <1>5, EncoderOpCases, Zenon

\* All operations of a publish, from its pieces.
LEMMA AllOpsIn ==
    ASSUME NEW p \in Docs, NEW n \in Docs, NEW O, PlanInputs(p, n) \in Seq(O), PlanOutputs(p, n) \in Seq(O),
           PlanStreams(p, n) \in Seq(O),
           \A e \in Streaming(n) : Reinforced(resources, n, PlanOf(p, n), e) \in Seq(O)
    PROVE  AllOps(p, n) \in Seq(O)
<1>1. PlanInputs(p, n) \o PlanOutputs(p, n) \in Seq(O)
  BY SeqJoin, Zenon
<1>2. (PlanInputs(p, n) \o PlanOutputs(p, n)) \o PlanStreams(p, n) \in Seq(O)
  BY <1>1, SeqJoin, Zenon
<1>3. PlanOf(p, n) \in Seq(O)
  BY <1>2, PlanIs, Zenon
<1>4. ReinforceStreams(resources, n, PlanOf(p, n)) \in Seq(O)
  BY ReinforceInSeq, Zenon
<1>5. PlanOf(p, n) \o ReinforceStreams(resources, n, PlanOf(p, n)) \in Seq(O)
  BY <1>3, <1>4, SeqJoin, Zenon
<1>6. QED
  BY <1>5, AllOpsAre, Zenon

\* The runs that have not stopped x, and the ones where an input or an output is v.
Unstopped(x) == {r \in Runs : x \notin r.stopped}
WithInput(x, v) == {r \in Runs : r.port.inputs[x] = v}
WithOutput(x, v) == {r \in Runs : r.port.outputs[x] = v}

\* What no operation of a list stops, the list does not stop.
LEMMA NeverStopped ==
    ASSUME NEW n \in Docs, NEW O, O \subseteq Ops(n), NEW s \in Seq(O), NEW refusing, NEW x, \A op \in O : ~Stops(op, x)
    PROVE  Leads(Unstopped(x), s, refusing, Unstopped(x))
<1>1. \A op \in O : \A r \in Runs : ApplyOp(r, op, refusing) \in Runs /\ Untouched(r, op, ApplyOp(r, op, refusing))
  BY OpEffect
<1>2. \A op \in O : \A r \in Unstopped(x) : ApplyOp(r, op, refusing) \in Unstopped(x)
  BY <1>1 DEF Untouched, Unstopped
<1>3. QED
  BY <1>2, LeadsBack, Zenon

\* The input, or the output, that no operation of a list is on stays as it is.
LEMMA InputStays ==
    ASSUME NEW n \in Docs, NEW O, O \subseteq Ops(n), NEW s \in Seq(O), NEW refusing,
           NEW x \in Ids(Inputs), \A op \in O : ~OnInput(op, x), NEW v
    PROVE  Leads(WithInput(x, v), s, refusing, WithInput(x, v))
<1>1. \A op \in O : \A r \in Runs : ApplyOp(r, op, refusing) \in Runs /\ Untouched(r, op, ApplyOp(r, op, refusing))
  BY OpEffect
<1>2. \A op \in O : \A r \in WithInput(x, v) : ApplyOp(r, op, refusing) \in WithInput(x, v)
  BY <1>1 DEF Untouched, WithInput
<1>3. QED
  BY <1>2, LeadsBack, Zenon

LEMMA OutputStays ==
    ASSUME NEW n \in Docs, NEW O, O \subseteq Ops(n), NEW s \in Seq(O), NEW refusing,
           NEW x \in Ids(Outputs), \A op \in O : ~OnOutput(op, x), NEW v
    PROVE  Leads(WithOutput(x, v), s, refusing, WithOutput(x, v))
<1>1. \A op \in O : \A r \in Runs : ApplyOp(r, op, refusing) \in Runs /\ Untouched(r, op, ApplyOp(r, op, refusing))
  BY OpEffect
<1>2. \A op \in O : \A r \in WithOutput(x, v) : ApplyOp(r, op, refusing) \in WithOutput(x, v)
  BY <1>1 DEF Untouched, WithOutput
<1>3. QED
  BY <1>2, LeadsBack, Zenon

\* The operations of a publish that does not change input i.
LEMMA SameInput ==
    ASSUME NEW p \in Docs, NEW n \in Docs, NEW i \in Ids(Inputs), DesiredEqual(p.inputs[i], n.inputs[i])
    PROVE  AllOps(p, n) \in Seq({op \in Ops(n) : ~Stops(op, i) /\ ~OnInput(op, i)})
<1> DEFINE O == {op \in Ops(n) : ~Stops(op, i) /\ ~OnInput(op, i)}
<1>1. PlanInputs(p, n) \in Seq(O)
  <2>1. \A x \in Ids(Inputs) : ~DesiredEqual(p.inputs[x], n.inputs[x]) =>
           DestroySource(x) \in O /\ ConnectInput(x, n.inputs[x]) \in O /\ FailInput(x) \in O
    <3>1. TAKE x \in Ids(Inputs)
    <3>2. SUFFICES ASSUME x # i PROVE InputOps(n, x) \subseteq O
      BY DEF InputOps
    <3>3. QED
      BY <3>2, OpSets
  <2> HIDE DEF O
  <2>2. QED
    BY <2>1, PlanInputsInSeq, Zenon
<1>2. PlanOutputs(p, n) \in Seq(O)
  <2>1. OutOps(n) \subseteq O
    <3>1. SUFFICES ASSUME NEW o \in Ids(Outputs), NEW op \in OutputOps(n, o) PROVE op \in O
      BY DEF OutOps
    <3>2. o # i
      BY IdFacts
    <3>3. QED
      BY <3>2, OpSets
  <2> HIDE DEF O
  <2>2. QED
    BY <2>1, PlanParts, SeqWider, Zenon
<1>3. StrOps(n) \subseteq O
  <2>1. SUFFICES ASSUME NEW op \in StrOps(n) PROVE op \in O
    OBVIOUS
  <2>2. op \in Ops(n) /\ ~OnInput(op, i)
    BY PartOps
  <2>3. ~Stops(op, i)
    BY StrOpsStop, IdFacts
  <2>4. QED
    BY <2>2, <2>3
<1> HIDE DEF O
<1>4. PlanStreams(p, n) \in Seq(O)
  BY <1>3, PlanParts, SeqWider, Zenon
<1>5. \A e \in Streaming(n) : Reinforced(resources, n, PlanOf(p, n), e) \in Seq(O)
  <2>1. TAKE e \in Streaming(n)
  <2>2. EncoderOps(n, e) \subseteq StrOps(n)
    BY DEF StrOps, Streaming, EncodersOf
  <2>3. EncoderOps(n, e) \subseteq O
    BY <1>3, <2>2
  <2>4. Reinforced(resources, n, PlanOf(p, n), e) \in Seq(EncoderOps(n, e))
    BY ReinforcedParts
  <2>5. QED
    BY <2>3, <2>4, SeqWider
<1>6. AllOps(p, n) \in Seq(O)
  BY <1>1, <1>2, <1>4, <1>5, AllOpsIn, Zenon
<1>7. QED
  BY <1>6 DEF O

\* The operations of a publish that does not change output o, which is on.
LEMMA SameOutput ==
    ASSUME NEW p \in Docs, NEW n \in Docs, NEW o \in Outlets(p), n.outputs[o] = p.outputs[o]
    PROVE  AllOps(p, n) \in Seq({op \in Ops(n) : ~Stops(op, o) /\ ~OnOutput(op, o)})
<1> DEFINE O == {op \in Ops(n) : ~Stops(op, o) /\ ~OnOutput(op, o)}
<1>0. /\ o \in Ids(Outputs) /\ p.outputs[o] # Absent /\ ~Rtmp(p.outputs[o]) /\ p.outputs[o].enabled
      /\ o \notin Ids(Inputs) /\ o \notin Ids(Encoders)
  BY IdFacts DEF Outlets
<1>1. PlanInputs(p, n) \in Seq(O)
  <2>1. InOps(n) \subseteq O
    <3>1. SUFFICES ASSUME NEW i \in Ids(Inputs), NEW op \in InputOps(n, i) PROVE op \in O
      BY DEF InOps
    <3>2. QED
      BY <1>0, OpSets
  <2> HIDE DEF O
  <2>2. QED
    BY <2>1, PlanParts, SeqWider, Zenon
<1>2. PlanOutputs(p, n) \in Seq(O)
  <2>1. <<>> \in Seq(O)
    OBVIOUS
  <2>2. \A x \in Ids(Outputs) \ {o} : OutputOps(n, x) \subseteq O
    BY OpSets
  <2> HIDE DEF O
  <2>3. PlanOutput(p.outputs[o], n.outputs[o], o) = <<>> /\ PlanGoneOutput(p.outputs[o], n.outputs[o], o) = <<>>
    BY <1>0 DEF PlanOutput, PlanGoneOutput, When
  <2>4. \A x \in Ids(Outputs) : /\ PlanOutput(p.outputs[x], n.outputs[x], x) \in Seq(O)
                                /\ PlanGoneOutput(p.outputs[x], n.outputs[x], x) \in Seq(O)
    <3>1. TAKE x \in Ids(Outputs)
    <3>2. CASE x = o
      BY <2>1, <2>3, <3>2
    <3>3. CASE x # o
      <4>1. OutputOps(n, x) \subseteq O
        BY <2>2, <3>3
      <4>2. QED
        BY <4>1, OutputParts, SeqWider
    <3>4. QED
      BY <3>2, <3>3
  <2>5. QED
    BY <2>4, PlanOutputsInSeq, Zenon
<1>3. /\ \A e \in Ids(Encoders) : RemoveEncoder(e) \in O
      /\ \A e \in Ids(Encoders), x \in Ids(Outputs) \ {o} : RemoveDest(e, x) \in O
      /\ \A e \in Streaming(n) : AddEncoder(e, n.encoders[e]) \in O
      /\ \A x \in Streams(n) : AddDest(x, n.outputs[x]) \in O
  <2>1. \A e \in Ids(Encoders) : RemoveEncoder(e) \in O
    <3>1. TAKE e \in Ids(Encoders)
    <3>2. RemoveEncoder(e) \in Ops(n)
      BY OpFacts
    <3>3. e # o
      BY <1>0
    <3>4. QED
      BY <3>2, <3>3 DEF Stops, OnOutput, RemoveEncoder, Op
  <2>2. \A e \in Ids(Encoders), x \in Ids(Outputs) \ {o} : RemoveDest(e, x) \in O
    <3>1. TAKE e \in Ids(Encoders), x \in Ids(Outputs) \ {o}
    <3>2. RemoveDest(e, x) \in Ops(n)
      BY OpFacts
    <3>3. QED
      BY <3>2 DEF Stops, OnOutput, RemoveDest, Op
  <2>3. \A e \in Streaming(n) : AddEncoder(e, n.encoders[e]) \in O
    <3>1. TAKE e \in Streaming(n)
    <3>2. AddEncoder(e, n.encoders[e]) \in Ops(n)
      BY OpFacts
    <3>3. QED
      BY <3>2 DEF Stops, OnOutput, AddEncoder, Op, Adds
  <2>4. \A x \in Streams(n) : AddDest(x, n.outputs[x]) \in O
    <3>1. TAKE x \in Streams(n)
    <3>2. AddDest(x, n.outputs[x]) \in Ops(n)
      BY OpFacts
    <3>3. QED
      BY <3>2 DEF Stops, OnOutput, AddDest, Op, Adds
  <2>5. QED
    BY <2>1, <2>2, <2>3, <2>4
<1>4. LateOps(n) \subseteq O
  BY OpSets
<1> HIDE DEF O
<1>5. /\ \A e : o \notin DestsOf(p, e) /\ o \notin DestsOf(n, e)
      /\ \A e, d : DestsOf(d, e) \subseteq Ids(Outputs) /\ DestsOf(d, e) \subseteq Streams(d)
      /\ EncodersOf(p) \subseteq Ids(Encoders) /\ EncodersOf(n) \subseteq Ids(Encoders)
      /\ \A e \in EncodersOf(n) : DestsOf(n, e) # {} => e \in Streaming(n)
      /\ Streaming(n) \subseteq Ids(Encoders)
  BY <1>0 DEF DestsOf, RtmpDestination, Streams, EncodersOf, Streaming
<1>6. \A e \in Ids(Encoders) : \A x \in DestsOf(n, e) : KeepDest(p.outputs[x], n.outputs[x], e, x) \in Seq(O)
  <2>1. TAKE e \in Ids(Encoders)
  <2>2. TAKE x \in DestsOf(n, e)
  <2>3. RemoveDest(e, x) \in O /\ AddDest(x, n.outputs[x]) \in O
    <3>1. x \in Ids(Outputs) \ {o} /\ x \in Streams(n)
      BY <1>5
    <3>2. QED
      BY <1>3, <3>1
  <2>4. QED
    BY <2>3, KeepDestInSeq, Zenon
<1>7. \A e \in Ids(Encoders) : \A x \in DestsOf(p, e) : RemoveDest(e, x) \in O
  <2>1. TAKE e \in Ids(Encoders)
  <2>2. TAKE x \in DestsOf(p, e)
  <2>3. x \in Ids(Outputs) \ {o}
    BY <1>5
  <2>4. QED
    BY <1>3, <2>3
<1>8. \A e \in Ids(Encoders) : \A x \in DestsOf(n, e) : AddDest(x, n.outputs[x]) \in O
  BY <1>3, <1>5
<1>9. \A e \in EncodersOf(n) : StreamOps(p, n, e) \in Seq(O)
  <2>1. TAKE e \in EncodersOf(n)
  <2>2. e \in Ids(Encoders) /\ RemoveEncoder(e) \in O /\ (DestsOf(n, e) # {} => AddEncoder(e, n.encoders[e]) \in O)
    BY <1>3, <1>5
  <2>3. \A x \in DestsOf(p, e) \ DestsOf(n, e) : RemoveDest(e, x) \in O
    BY <1>7, <2>2
  <2>4. QED
    BY <1>6, <1>7, <1>8, <2>2, <2>3, StreamOpsInSeq, Zenon
<1>10. \A e \in EncodersOf(p) \ EncodersOf(n) : RemoveStream(p, e) \in Seq(O)
  <2>1. TAKE e \in EncodersOf(p) \ EncodersOf(n)
  <2>2. e \in Ids(Encoders) /\ RemoveEncoder(e) \in O
    BY <1>3, <1>5
  <2>3. QED
    BY <1>7, <2>2, RemoveStreamInSeq, Zenon
<1>11. PlanStreams(p, n) \in Seq(O)
  BY <1>4, <1>9, <1>10, PlanStreamsInSeq, Zenon
<1>12. \A e \in Streaming(n) : Reinforced(resources, n, PlanOf(p, n), e) \in Seq(O)
  <2>1. TAKE e \in Streaming(n)
  <2>2. e \in Ids(Encoders) /\ RemoveEncoder(e) \in O /\ AddEncoder(e, n.encoders[e]) \in O
    BY <1>3, <1>5
  <2>3. QED
    BY <1>8, <2>2, ReinforcedInSeq, Zenon
<1>13. AllOps(p, n) \in Seq(O)
  BY <1>1, <1>2, <1>11, <1>12, AllOpsIn, Zenon
<1>14. QED
  BY <1>13 DEF O

LEMMA JoinedIds == Ids(Outputs \o Encoders) = Ids(Outputs) \cup Ids(Encoders)
<1> DEFINE a == Len(Outputs)
           b == Len(Encoders)
           all == Outputs \o Encoders
<1>1. Outputs \in Seq(AllIds) /\ Encoders \in Seq(AllIds)
  BY IdsAreDistinct
<1>2. /\ a \in Nat /\ b \in Nat /\ Len(all) = a + b
      /\ \A j \in 1..a : all[j] = Outputs[j]
      /\ \A j \in 1..b : all[a + j] = Encoders[j]
  BY <1>1
<1> HIDE DEF a, b, all
<1>3. \A j \in 1..(a + b) : j \in 1..a \/ (j - a \in 1..b /\ j = a + (j - a))
  BY <1>2
<1>4. Ids(all) \subseteq Ids(Outputs) \cup Ids(Encoders)
  <2>1. SUFFICES ASSUME NEW x \in Ids(all) PROVE x \in Ids(Outputs) \cup Ids(Encoders)
    OBVIOUS
  <2>2. PICK j \in 1..(a + b) : x = all[j]
    BY <1>2 DEF Ids
  <2>3. CASE j \in 1..a
    BY <1>2, <2>2, <2>3 DEF Ids, a
  <2>4. CASE j - a \in 1..b /\ j = a + (j - a)
    <3>1. all[j] = Encoders[j - a]
      BY <1>2, <2>4
    <3>2. QED
      BY <2>2, <2>4, <3>1 DEF Ids, b
  <2>5. QED
    BY <1>3, <2>3, <2>4
<1>5. Ids(Outputs) \subseteq Ids(all)
  <2>1. SUFFICES ASSUME NEW x \in Ids(Outputs) PROVE x \in Ids(all)
    OBVIOUS
  <2>2. PICK j \in 1..a : x = Outputs[j]
    BY DEF Ids, a
  <2>3. j \in 1..Len(all) /\ all[j] = x
    BY <1>2, <2>2
  <2>4. QED
    BY <2>3 DEF Ids
<1>6. Ids(Encoders) \subseteq Ids(all)
  <2>1. SUFFICES ASSUME NEW x \in Ids(Encoders) PROVE x \in Ids(all)
    OBVIOUS
  <2>2. PICK j \in 1..b : x = Encoders[j]
    BY DEF Ids, b
  <2>3. a + j \in 1..Len(all) /\ all[a + j] = x
    BY <1>2, <2>2
  <2>4. QED
    BY <2>3 DEF Ids
<1>7. QED
  BY <1>4, <1>5, <1>6 DEF all

\* A stream of document n that document p had, which the last publish left nothing to
\* retry of: neither its encoder nor its destination is stopped.
LEMMA SameStream ==
    ASSUME NEW p \in Docs, NEW n \in Docs, NEW e \in EncodersOf(n), NEW o \in DestsOf(p, e),
           n.encoders[e] = p.encoders[e], n.outputs[o] = p.outputs[o],
           \A x \in Ids(Outputs \o Encoders) : ~InTrouble(resources, x)
    PROVE  AllOps(p, n) \in Seq({op \in Ops(n) : ~Stops(op, o) /\ ~Stops(op, e)})
<1> DEFINE O == {op \in Ops(n) : ~Stops(op, o) /\ ~Stops(op, e)}
<1>0. /\ e \in Ids(Encoders) /\ o \in Ids(Outputs) /\ o \in DestsOf(n, e) /\ p.encoders[e] = n.encoders[e]
      /\ Rtmp(p.outputs[o]) /\ RtmpDestination(p.outputs[o]) /\ n.outputs[o] = p.outputs[o]
      /\ \A y : y # e => o \notin DestsOf(p, y) /\ o \notin DestsOf(n, y)
      /\ \A d, y : DestsOf(d, y) \subseteq Ids(Outputs)
  BY DEF EncodersOf, DestsOf, RtmpDestination
<1>1. \A x \in Ids(Inputs) : x # o /\ x # e
  BY <1>0, IdFacts
<1>2. \A x \in Ids(Encoders) : x # o
  BY <1>0, IdFacts
<1>3. \A x \in Ids(Outputs) : x # e
  BY <1>0, IdFacts
<1>4. PlanInputs(p, n) \in Seq(O)
  <2>1. InOps(n) \subseteq O
    <3>1. SUFFICES ASSUME NEW i \in Ids(Inputs), NEW op \in InputOps(n, i) PROVE op \in O
      BY DEF InOps
    <3>2. QED
      BY <1>1, OpSets
  <2> HIDE DEF O
  <2>2. QED
    BY <2>1, PlanParts, SeqWider, Zenon
<1>5. PlanOutputs(p, n) \in Seq(O)
  <2>1. <<>> \in Seq(O)
    OBVIOUS
  <2>2. \A x \in Ids(Outputs) \ {o} : OutputOps(n, x) \subseteq O
    BY <1>3, OpSets
  <2> HIDE DEF O
  <2>3. PlanOutput(p.outputs[o], n.outputs[o], o) = <<>> /\ PlanGoneOutput(p.outputs[o], n.outputs[o], o) = <<>>
    BY <1>0 DEF PlanOutput, PlanGoneOutput, When
  <2>4. \A x \in Ids(Outputs) : /\ PlanOutput(p.outputs[x], n.outputs[x], x) \in Seq(O)
                                /\ PlanGoneOutput(p.outputs[x], n.outputs[x], x) \in Seq(O)
    <3>1. TAKE x \in Ids(Outputs)
    <3>2. CASE x = o
      BY <2>1, <2>3, <3>2
    <3>3. CASE x # o
      <4>1. OutputOps(n, x) \subseteq O
        BY <2>2, <3>3
      <4>2. QED
        BY <4>1, OutputParts, SeqWider
    <3>4. QED
      BY <3>2, <3>3
  <2>5. QED
    BY <2>4, PlanOutputsInSeq, Zenon
<1>6. \A y \in Ids(Encoders) \ {e} : RemoveEncoder(y) \in O
  <2>1. TAKE y \in Ids(Encoders) \ {e}
  <2>2. RemoveEncoder(y) \in Ops(n)
    BY OpFacts
  <2>3. y # o
    BY <1>2
  <2>4. QED
    BY <2>2, <2>3 DEF Stops, RemoveEncoder, Op
<1>7. \A y \in Ids(Encoders), x \in Ids(Outputs) \ {o} : RemoveDest(y, x) \in O
  <2>1. TAKE y \in Ids(Encoders), x \in Ids(Outputs) \ {o}
  <2>2. RemoveDest(y, x) \in Ops(n)
    BY OpFacts
  <2>3. x # e
    BY <1>3
  <2>4. QED
    BY <2>2, <2>3 DEF Stops, RemoveDest, Op
<1>8. \A y \in Streaming(n) : AddEncoder(y, n.encoders[y]) \in O
  <2>1. TAKE y \in Streaming(n)
  <2>2. AddEncoder(y, n.encoders[y]) \in Ops(n)
    BY OpFacts
  <2>3. QED
    BY <2>2 DEF Stops, AddEncoder, Op, Adds
<1>9. \A y : \A x \in DestsOf(n, y) : AddDest(x, n.outputs[x]) \in O
  <2>1. TAKE y
  <2>2. TAKE x \in DestsOf(n, y)
  <2>3. x \in Streams(n)
    BY DEF Streams, DestsOf
  <2>4. AddDest(x, n.outputs[x]) \in Ops(n)
    BY <2>3, OpFacts
  <2>5. QED
    BY <2>4 DEF Stops, AddDest, Op, Adds
<1>10. LateOps(n) \subseteq O
  BY OpSets
<1> HIDE DEF O
<1>11. \A y \in Ids(Encoders) : \A x \in DestsOf(n, y) : KeepDest(p.outputs[x], n.outputs[x], y, x) \in Seq(O)
  <2>1. TAKE y \in Ids(Encoders)
  <2>2. TAKE x \in DestsOf(n, y)
  <2>3. CASE x = o
    <3>1. KeepDest(p.outputs[x], n.outputs[x], y, x) = <<>>
      BY <1>0, <2>3 DEF KeepDest, SameDest
    <3>2. QED
      BY <3>1
  <2>4. CASE x # o
    <3>1. RemoveDest(y, x) \in O
      BY <1>0, <1>7, <2>4
    <3>2. AddDest(x, n.outputs[x]) \in O
      BY <1>9
    <3>3. QED
      BY <3>1, <3>2, KeepDestInSeq, Zenon
  <2>5. QED
    BY <2>3, <2>4
<1>12. \A y \in Ids(Encoders) : \A x \in DestsOf(p, y) \ DestsOf(n, y) : RemoveDest(y, x) \in O
  <2>1. TAKE y \in Ids(Encoders)
  <2>2. TAKE x \in DestsOf(p, y) \ DestsOf(n, y)
  <2>3. x # o /\ x \in Ids(Outputs)
    BY <1>0
  <2>4. QED
    BY <1>7, <2>3
<1>13. \A y \in Ids(Encoders) \ {e} : \A x \in DestsOf(p, y) : RemoveDest(y, x) \in O
  <2>1. TAKE y \in Ids(Encoders) \ {e}
  <2>2. TAKE x \in DestsOf(p, y)
  <2>3. x # o /\ x \in Ids(Outputs)
    BY <1>0
  <2>4. QED
    BY <1>7, <2>3
<1>14. \A y \in EncodersOf(n) : StreamOps(p, n, y) \in Seq(O)
  <2>1. TAKE y \in EncodersOf(n)
  <2>2. y \in Ids(Encoders)
    BY DEF EncodersOf
  <2>3. DestsOf(n, y) # {} /\ p.encoders[y] # n.encoders[y] =>
          RemoveEncoder(y) \in O /\ AddEncoder(y, n.encoders[y]) \in O
    BY <1>0, <1>6, <1>8, <2>2 DEF Streaming
  <2>4. DestsOf(n, y) = {} => RemoveEncoder(y) \in O /\ \A x \in DestsOf(p, y) : RemoveDest(y, x) \in O
    BY <1>0, <1>6, <1>13, <2>2
  <2>5. \A x \in DestsOf(p, y) \ DestsOf(n, y) : RemoveDest(y, x) \in O
    BY <1>12, <2>2
  <2>6. \A x \in DestsOf(n, y) : KeepDest(p.outputs[x], n.outputs[x], y, x) \in Seq(O)
    BY <1>11, <2>2
  <2>7. QED
    BY <1>9, <2>3, <2>4, <2>5, <2>6, StreamOpsInSeq, Zenon
<1>15. \A y \in EncodersOf(p) \ EncodersOf(n) : RemoveStream(p, y) \in Seq(O)
  <2>1. TAKE y \in EncodersOf(p) \ EncodersOf(n)
  <2>2. y \in Ids(Encoders) \ {e}
    BY DEF EncodersOf
  <2>3. RemoveEncoder(y) \in O /\ \A x \in DestsOf(p, y) : RemoveDest(y, x) \in O
    BY <1>6, <1>13, <2>2
  <2>4. QED
    BY <2>3, RemoveStreamInSeq, Zenon
<1>16. PlanStreams(p, n) \in Seq(O)
  BY <1>10, <1>14, <1>15, PlanStreamsInSeq, Zenon
<1>17. \A y \in Streaming(n) : Reinforced(resources, n, PlanOf(p, n), y) \in Seq(O)
  <2>1. TAKE y \in Streaming(n)
  <2>2. \A i \in DestsOf(n, y) \cup {y} : ~EncoderDown(resources, i)
    <3>1. TAKE i \in DestsOf(n, y) \cup {y}
    <3>2. i \in Ids(Outputs \o Encoders)
      BY <1>0, JoinedIds DEF Streaming, EncodersOf
    <3>3. Status(i, "down").id = StatusId[i] /\ Status(i, "down").why # "ready"
      BY DEF Status
    <3>4. QED
      BY <3>2, <3>3 DEF EncoderDown, InTrouble
  <2>3. \A x \in DestsOf(n, y) : AddDest(x, n.outputs[x]) \in O
    BY <1>9
  <2>4. QED
    BY <2>2, <2>3, ReinforcedInSeq, Zenon
<1>18. AllOps(p, n) \in Seq(O)
  BY <1>4, <1>5, <1>16, <1>17, AllOpsIn, Zenon
<1>19. QED
  BY <1>18 DEF O

\* An input, an output and a stream that a publish does not change.
LEMMA KeepsInput ==
    ASSUME NEW p \in Docs, NEW n \in Docs, NEW i \in Ids(Inputs), DesiredEqual(p.inputs[i], n.inputs[i]), NEW q \in Ports, NEW refusing
    PROVE  /\ i \notin Execute(q, AllOps(p, n), refusing).stopped
           /\ Execute(q, AllOps(p, n), refusing).port.inputs[i] = q.inputs[i]
<1> DEFINE O == {op \in Ops(n) : ~Stops(op, i) /\ ~OnInput(op, i)}
<1>1. O \subseteq Ops(n) /\ (\A op \in O : ~Stops(op, i)) /\ \A op \in O : ~OnInput(op, i)
  OBVIOUS
<1>2. AllOps(p, n) \in Seq(O)
  BY SameInput
<1> HIDE DEF O
<1>3. Leads(Unstopped(i), AllOps(p, n), refusing, Unstopped(i))
  BY <1>1, <1>2, NeverStopped, Zenon
<1>4. \A v : Leads(WithInput(i, v), AllOps(p, n), refusing, WithInput(i, v))
  <2>1. TAKE v
  <2>2. QED
    BY <1>1, <1>2, InputStays, Zenon
<1>5. Begin(q) \in Runs /\ Begin(q).stopped = {} /\ Begin(q).port = q
  BY BeginFacts DEF Begin
<1>6. i \notin CarryOut(Begin(q), AllOps(p, n), refusing).stopped
  BY <1>3, <1>5 DEF Leads, Unstopped
<1>7. CarryOut(Begin(q), AllOps(p, n), refusing).port.inputs[i] = q.inputs[i]
  BY <1>4, <1>5 DEF Leads, WithInput
<1>8. QED
  BY <1>6, <1>7 DEF Execute

LEMMA KeepsOutput ==
    ASSUME NEW p \in Docs, NEW n \in Docs, NEW o \in Outlets(p), n.outputs[o] = p.outputs[o], NEW q \in Ports, NEW refusing
    PROVE  /\ o \notin Execute(q, AllOps(p, n), refusing).stopped
           /\ Execute(q, AllOps(p, n), refusing).port.outputs[o] = q.outputs[o]
<1> DEFINE O == {op \in Ops(n) : ~Stops(op, o) /\ ~OnOutput(op, o)}
<1>1. O \subseteq Ops(n) /\ (\A op \in O : ~Stops(op, o)) /\ (\A op \in O : ~OnOutput(op, o)) /\ o \in Ids(Outputs)
  BY DEF Outlets
<1>2. AllOps(p, n) \in Seq(O)
  BY SameOutput
<1> HIDE DEF O
<1>3. Leads(Unstopped(o), AllOps(p, n), refusing, Unstopped(o))
  BY <1>1, <1>2, NeverStopped, Zenon
<1>4. \A v : Leads(WithOutput(o, v), AllOps(p, n), refusing, WithOutput(o, v))
  <2>1. TAKE v
  <2>2. QED
    BY <1>1, <1>2, OutputStays, Zenon
<1>5. Begin(q) \in Runs /\ Begin(q).stopped = {} /\ Begin(q).port = q
  BY BeginFacts DEF Begin
<1>6. o \notin CarryOut(Begin(q), AllOps(p, n), refusing).stopped
  BY <1>3, <1>5 DEF Leads, Unstopped
<1>7. CarryOut(Begin(q), AllOps(p, n), refusing).port.outputs[o] = q.outputs[o]
  BY <1>4, <1>5 DEF Leads, WithOutput
<1>8. QED
  BY <1>6, <1>7 DEF Execute

LEMMA KeepsStream ==
    ASSUME NEW p \in Docs, NEW n \in Docs, NEW e \in EncodersOf(n), NEW o \in DestsOf(p, e),
           n.encoders[e] = p.encoders[e], n.outputs[o] = p.outputs[o],
           \A x \in Ids(Outputs \o Encoders) : ~InTrouble(resources, x),
           NEW q \in Ports, NEW refusing
    PROVE  {e, o} \cap Execute(q, AllOps(p, n), refusing).stopped = {}
<1> DEFINE O == {op \in Ops(n) : ~Stops(op, o) /\ ~Stops(op, e)}
<1>1. O \subseteq Ops(n) /\ (\A op \in O : ~Stops(op, o)) /\ (\A op \in O : ~Stops(op, e))
  OBVIOUS
<1>2. AllOps(p, n) \in Seq(O)
  BY SameStream
<1> HIDE DEF O
<1>3. Leads(Unstopped(o), AllOps(p, n), refusing, Unstopped(o))
  BY <1>1, <1>2, NeverStopped, Zenon
<1>4. Leads(Unstopped(e), AllOps(p, n), refusing, Unstopped(e))
  BY <1>1, <1>2, NeverStopped, Zenon
<1>5. Begin(q) \in Runs /\ Begin(q).stopped = {}
  BY BeginFacts DEF Begin
<1>6. o \notin CarryOut(Begin(q), AllOps(p, n), refusing).stopped
  BY <1>3, <1>5 DEF Leads, Unstopped
<1>7. e \notin CarryOut(Begin(q), AllOps(p, n), refusing).stopped
  BY <1>4, <1>5 DEF Leads, Unstopped
<1>8. QED
  BY <1>6, <1>7 DEF Execute

\* Only a publish that carries out its whole plan ends "ok"; after that, files may
\* come and go.
LEMMA OkIsPublish ==
    ASSUME ReconcileNext, last'.result = "ok" \/ last'.again
    PROVE  \/ \E next, refusing : next \in Documents /\ Publish(next, AllOps(session, next), refusing)
           \/ FilesChange
<1>1. ~Destroy
  BY DEF Destroy, NoPublish
<1>2. CASE \E next \in Documents : Attempt(next)
  <2>1. PICK next \in Documents : Attempt(next)
    BY <1>2
  <2>2. PICK refusing :
           \/ Publish(next, AllOps(session, next), refusing)
           \/ \E place \in {"units", "audio", "api"} : Abort(next, place, refusing)
           \/ PublishLate(next, AllOps(session, next), refusing)
    BY <2>1 DEF Attempt
  <2>3. ~\E place \in {"units", "audio", "api"} : Abort(next, place, refusing)
    BY DEF Abort, Outcome
  <2>4. ~PublishLate(next, AllOps(session, next), refusing)
    BY DEF PublishLate, Outcome
  <2>5. QED
    BY <2>2, <2>3, <2>4
<1>3. QED
  BY <1>1, <1>2 DEF ReconcileNext

\* A publish never interrupts what it does not change, whatever the mixer refuses.
THEOREM UnchangedRunsOn == ReconcileSpec => UnchangedKeepsRunning
<1> DEFINE KeptInput(i) == i \notin StoppedBy(session') /\ port'.inputs[i] = port.inputs[i]
           KeptOutput(o) == o \notin StoppedBy(session') /\ port'.outputs[o] = port.outputs[o]
           KeptStream(e, o) == {e, o} \cap StoppedBy(session') = {}
           A == last'.result = "ok" /\ ~last.stray =>
                  /\ \A i \in Ids(Inputs) : DesiredEqual(session.inputs[i], session'.inputs[i]) => KeptInput(i)
                  /\ \A o \in Ids(Outputs) \ last.turned :
                        session'.outputs[o] = session.outputs[o] /\ port.outputs[o] # Absent => KeptOutput(o)
                  /\ \A e \in Ids(Encoders), o \in Ids(Outputs) :
                        /\ session'.encoders[e] = session.encoders[e]
                        /\ session'.outputs[o] = session.outputs[o]
                        /\ \E d \in port.dests[e] : d.id = o
                        /\ \A x \in Ids(Outputs \o Encoders) : ~InTrouble(resources, x)
                        => KeptStream(e, o)
<1>1. ReconcileInv /\ ReconcileNext => A
  <2>1. SUFFICES ASSUME ReconcileInv, ReconcileNext, last'.result = "ok", ~last.stray PROVE A
    OBVIOUS
  <2>2. PICK next, refusing :
           /\ session' = next /\ next \in Docs
           /\ \/ port' = Execute(port, AllOps(session, next), refusing).port
              \/ port' = port
    <3>1. CASE \E next, refusing : next \in Documents /\ Publish(next, AllOps(session, next), refusing)
      BY <3>1 DEF Publish, Docs
    <3>2. CASE FilesChange
      BY <2>1, <3>2 DEF FilesChange, ReconcileInv
    <3>3. QED
      BY <2>1, <3>1, <3>2, OkIsPublish
  <2>3. /\ session \in Docs /\ port \in Ports
        /\ Serves(session, last.turned, last.spared, port)
        /\ StoppedBy(session') = Execute(port, AllOps(session, next), {}).stopped
    BY <2>1, <2>2 DEF ReconcileInv, StoppedBy
  <2>4. ASSUME NEW i \in Ids(Inputs), DesiredEqual(session.inputs[i], session'.inputs[i])
        PROVE  KeptInput(i)
    <3>1. DesiredEqual(session.inputs[i], next.inputs[i])
      BY <2>2, <2>4
    <3>2. i \notin Execute(port, AllOps(session, next), {}).stopped
      BY <2>2, <2>3, <3>1, KeepsInput
    <3>3. Execute(port, AllOps(session, next), refusing).port.inputs[i] = port.inputs[i]
      BY <2>2, <2>3, <3>1, KeepsInput
    <3>4. QED
      BY <2>2, <2>3, <3>2, <3>3
  <2>5. ASSUME NEW o \in Ids(Outputs) \ last.turned, session'.outputs[o] = session.outputs[o], port.outputs[o] # Absent
        PROVE  KeptOutput(o)
    <3>1. next.outputs[o] = session.outputs[o]
      BY <2>2, <2>5
    <3>2. o \in Outlets(session)
      BY <2>3, <2>5 DEF Serves, OutputAs, Begin
    <3>3. o \notin Execute(port, AllOps(session, next), {}).stopped
      BY <2>2, <2>3, <3>1, <3>2, KeepsOutput
    <3>4. Execute(port, AllOps(session, next), refusing).port.outputs[o] = port.outputs[o]
      BY <2>2, <2>3, <3>1, <3>2, KeepsOutput
    <3>5. QED
      BY <2>2, <2>3, <3>3, <3>4
  <2>6. ASSUME NEW e \in Ids(Encoders), NEW o \in Ids(Outputs), session'.encoders[e] = session.encoders[e],
               session'.outputs[o] = session.outputs[o], \E d \in port.dests[e] : d.id = o,
               \A x \in Ids(Outputs \o Encoders) : ~InTrouble(resources, x)
        PROVE  KeptStream(e, o)
    <3>1. next.encoders[e] = session.encoders[e] /\ next.outputs[o] = session.outputs[o]
      BY <2>2, <2>6
    <3>2. Begin(port) \in EncoderAs(e, session) /\ Begin(port) \in DestAs(e, o, session)
      BY <2>3 DEF Serves, StreamAs
    <3>3. o \in DestsOf(session, e)
      BY <2>6, <3>2 DEF DestAs, Begin
    <3>4. port.encoders[e] # Absent
      BY <2>6, <3>2 DEF EncoderAs, Begin
    <3>5. session.encoders[e] # Absent
      BY <3>2, <3>4 DEF EncoderAs, Begin
    <3>6. e \in EncodersOf(next)
      BY <3>1, <3>5 DEF EncodersOf
    <3>7. {e, o} \cap Execute(port, AllOps(session, next), {}).stopped = {}
      BY <2>2, <2>3, <2>6, <3>1, <3>3, <3>6, KeepsStream
    <3>8. QED
      BY <2>3, <3>7
  <2> HIDE DEF KeptInput, KeptOutput, KeptStream
  <2>7. QED
    BY <2>4, <2>5, <2>6
<1>2. UnchangedKeepsRunning <=> [][A]_reconcileVars
  BY DEF UnchangedKeepsRunning
<1> HIDE DEF A
<1>3. QED
  BY <1>1, <1>2, ReconcileInvInit, ReconcileInvNext, PTL DEF ReconcileSpec
-----------------------------------------------------------------------------
(* What a document published twice streams to *)

\* The runs where the destination o of encoder e is attached as document d wants it,
\* the ones where it is or its status tells why not, and the ones where e runs.
Wish(o, d) == [id |-> o, cfg |-> d.outputs[o].cfg]
Sent(e, o, d) == {r \in Runs : Wish(o, d) \in r.port.dests[e]}
SentOrDown(e, o, d) == {r \in Runs : Wish(o, d) \in r.port.dests[e] \/ InTrouble(r.statuses, o)}
On(e) == {r \in Runs : r.port.encoders[e] # Absent}

\* The operations of a plan that take no such destination away.
Spares(op, d, e, o) ==
    \/ ~OnEncoder(op, e)
    \/ \E x \in DestsOf(d, e) : op = AddDest(x, d.outputs[x])
    \/ \E x \in Ids(Outputs) \ {o} : op = RemoveDest(e, x)

\* Such an operation, and a list of them.
LEMMA SparedOne ==
    ASSUME NEW d \in Docs, NEW op \in Ops(d), NEW e \in Ids(Encoders), NEW o \in DestsOf(d, e), Spares(op, d, e, o),
           NEW refusing
    PROVE  /\ \A r \in Sent(e, o, d) : ApplyOp(r, op, refusing) \in Sent(e, o, d)
           /\ \A r \in SentOrDown(e, o, d) : ApplyOp(r, op, refusing) \in SentOrDown(e, o, d)
<1>1. ASSUME NEW r \in Runs
      PROVE  /\ ApplyOp(r, op, refusing) \in Runs
             /\ r.statuses \subseteq ApplyOp(r, op, refusing).statuses
             /\ Wish(o, d) \in r.port.dests[e] => Wish(o, d) \in ApplyOp(r, op, refusing).port.dests[e]
  <2>1. ApplyOp(r, op, refusing) \in Runs /\ Untouched(r, op, ApplyOp(r, op, refusing))
    BY OpEffect
  <2>2. CASE ~OnEncoder(op, e)
    BY <2>1, <2>2 DEF Untouched
  <2>3. CASE \E x \in DestsOf(d, e) : op = AddDest(x, d.outputs[x])
    <3>1. PICK x \in DestsOf(d, e) : op = AddDest(x, d.outputs[x])
      BY <2>3
    <3>2. DestAdded(r, ApplyOp(r, op, refusing), d, e, x, refusing)
      BY <3>1, AddDestDoes
    <3>3. QED
      BY <2>1, <3>2 DEF DestAdded, Wish, Untouched
  <2>4. CASE \E x \in Ids(Outputs) \ {o} : op = RemoveDest(e, x)
    <3>1. PICK x \in Ids(Outputs) \ {o} : op = RemoveDest(e, x)
      BY <2>4
    <3>2. ApplyOp(r, op, refusing).port.dests[e] = {y \in r.port.dests[e] : y.id # x}
      BY <3>1, RemoveDestDoes
    <3>3. Wish(o, d).id # x
      BY <3>1 DEF Wish
    <3>4. QED
      BY <2>1, <3>2, <3>3 DEF Untouched
  <2>5. QED
    BY <2>2, <2>3, <2>4 DEF Spares
<1>2. QED
  BY <1>1 DEF Sent, SentOrDown, InTrouble

LEMMA SparedList ==
    ASSUME NEW d \in Docs, NEW O, O \subseteq Ops(d), NEW s \in Seq(O), NEW e \in Ids(Encoders), NEW o \in DestsOf(d, e),
           \A op \in O : Spares(op, d, e, o), NEW refusing
    PROVE  /\ Leads(Sent(e, o, d), s, refusing, Sent(e, o, d))
           /\ Leads(SentOrDown(e, o, d), s, refusing, SentOrDown(e, o, d))
           /\ Leads(Runs, s, refusing, Runs)
<1>1. \A op \in O : /\ \A r \in Sent(e, o, d) : ApplyOp(r, op, refusing) \in Sent(e, o, d)
                    /\ \A r \in SentOrDown(e, o, d) : ApplyOp(r, op, refusing) \in SentOrDown(e, o, d)
  BY SparedOne
<1>2. s \in Seq(Ops(d))
  BY SeqWider
<1>3. Leads(Runs, s, refusing, Runs)
  BY <1>2, ListKeeps
<1>4. Leads(Sent(e, o, d), s, refusing, Sent(e, o, d))
  BY <1>1, LeadsBack, Zenon
<1>5. Leads(SentOrDown(e, o, d), s, refusing, SentOrDown(e, o, d))
  BY <1>1, LeadsBack, Zenon
<1>6. QED
  BY <1>3, <1>4, <1>5

\* The adds of some of the destinations of an encoder, o among them.
LEMMA DestsSent ==
    ASSUME NEW d \in Docs, NEW e \in Ids(Encoders), NEW D, D \subseteq DestsOf(d, e), NEW o \in D,
           NEW s, s = Each(Outputs, [x \in D |-> <<AddDest(x, d.outputs[x])>>])
    PROVE  Leads(Runs, s, {}, SentOrDown(e, o, d)) /\ Leads(On(e), s, {}, Sent(e, o, d))
<1> DEFINE f == [x \in D |-> <<AddDest(x, d.outputs[x])>>]
<1>1. D \subseteq Ids(Outputs) /\ D \subseteq Streams(d) /\ o \in DestsOf(d, e)
  BY DEF DestsOf, Streams
<1>2. ASSUME NEW x \in D
      PROVE  /\ f[x] \in Seq(Ops(d))
             /\ Leads(Runs, f[x], {}, Runs) /\ Leads(On(e), f[x], {}, On(e))
             /\ Leads(Sent(e, o, d), f[x], {}, Sent(e, o, d))
             /\ Leads(SentOrDown(e, o, d), f[x], {}, SentOrDown(e, o, d))
             /\ x = o => Leads(Runs, f[x], {}, SentOrDown(e, o, d)) /\ Leads(On(e), f[x], {}, Sent(e, o, d))
  <2>1. f[x] = <<AddDest(x, d.outputs[x])>>
    OBVIOUS
  <2> HIDE DEF f
  <2>2. AddDest(x, d.outputs[x]) \in Ops(d) /\ Spares(AddDest(x, d.outputs[x]), d, e, o)
    BY <1>1, OpFacts DEF Spares
  <2>3. \A r \in Runs : DestAdded(r, ApplyOp(r, AddDest(x, d.outputs[x]), {}), d, e, x, {})
    BY AddDestDoes
  <2>4. \A r \in Runs : ApplyOp(r, AddDest(x, d.outputs[x]), {}) \in Runs
    BY <2>3 DEF DestAdded
  <2>5. \A r \in On(e) : ApplyOp(r, AddDest(x, d.outputs[x]), {}) \in On(e)
    BY <2>3 DEF DestAdded, On
  <2>6. x = o => \A r \in Runs : ApplyOp(r, AddDest(x, d.outputs[x]), {}) \in SentOrDown(e, o, d)
    BY <2>3 DEF DestAdded, SentOrDown, Wish
  <2>7. x = o => \A r \in On(e) : ApplyOp(r, AddDest(x, d.outputs[x]), {}) \in Sent(e, o, d)
    BY <2>3 DEF DestAdded, On, Sent, Wish
  <2>8. /\ \A r \in Sent(e, o, d) : ApplyOp(r, AddDest(x, d.outputs[x]), {}) \in Sent(e, o, d)
        /\ \A r \in SentOrDown(e, o, d) : ApplyOp(r, AddDest(x, d.outputs[x]), {}) \in SentOrDown(e, o, d)
    BY <1>1, <2>2, SparedOne
  <2>9. <<AddDest(x, d.outputs[x])>> \in Seq(Ops(d))
    BY <2>2, SeqOne
  <2>10. QED
    BY <2>1, <2>4, <2>5, <2>6, <2>7, <2>8, <2>9, LeadsOne, Zenon
<1>3. DOMAIN f = D
  OBVIOUS
<1>4. s = Each(Outputs, f)
  OBVIOUS
<1> HIDE DEF f
<1>5. Leads(Runs, Each(Outputs, f), {}, SentOrDown(e, o, d))
  <2>1. \A x \in DOMAIN f : f[x] \in Seq(Ops(d))
    BY <1>2, <1>3
  <2>2. \A x \in DOMAIN f : x # o => Leads(Runs, f[x], {}, Runs) /\ Leads(SentOrDown(e, o, d), f[x], {}, SentOrDown(e, o, d))
    BY <1>2, <1>3
  <2>3. o \in DOMAIN f /\ o \in Ids(Outputs) /\ Leads(Runs, f[o], {}, SentOrDown(e, o, d))
    BY <1>1, <1>2, <1>3
  <2>4. QED
    BY <2>1, <2>2, <2>3, IdFacts, EachReaches, Zenon
<1>6. Leads(On(e), Each(Outputs, f), {}, Sent(e, o, d))
  <2>1. \A x \in DOMAIN f : f[x] \in Seq(Ops(d))
    BY <1>2, <1>3
  <2>2. \A x \in DOMAIN f : x # o => Leads(On(e), f[x], {}, On(e)) /\ Leads(Sent(e, o, d), f[x], {}, Sent(e, o, d))
    BY <1>2, <1>3
  <2>3. o \in DOMAIN f /\ o \in Ids(Outputs) /\ Leads(On(e), f[o], {}, Sent(e, o, d))
    BY <1>1, <1>2, <1>3
  <2>4. QED
    BY <2>1, <2>2, <2>3, IdFacts, EachReaches, Zenon
<1>7. QED
  BY <1>4, <1>5, <1>6

\* Two operations.
LEMMA LeadsTwo ==
    ASSUME NEW A, NEW B, NEW C, NEW refusing, NEW a, NEW b,
           \A r \in A : ApplyOp(r, a, refusing) \in B, \A r \in B : ApplyOp(r, b, refusing) \in C
    PROVE  Leads(A, <<a, b>>, refusing, C)
<1>1. SUFFICES ASSUME NEW r \in A PROVE CarryOut(r, <<a, b>>, refusing) \in C
  BY DEF Leads
<1> DEFINE ops == <<a, b>>
<1>2. Len(ops) = 2 /\ ops[1] = a /\ ops[2] = b
  OBVIOUS
<1> HIDE DEF ops
<1>3. PICK after : Steps(after, r, ops, refusing) /\ CarryOut(r, ops, refusing) = after[Len(ops)]
  <2>1. Len(ops) \in Nat
    BY <1>2
  <2>2. QED
    BY <2>1, CarryOutSteps
<1>4. \A i \in 1..2 : after[i] = ApplyOp(after[i - 1], ops[i], refusing)
  BY <1>2, <1>3 DEF Steps
<1>5. after[0] = r /\ after[1] = ApplyOp(after[0], a, refusing) /\ after[2] = ApplyOp(after[1], b, refusing)
  <2>1. after[1] = ApplyOp(after[1 - 1], ops[1], refusing) /\ after[2] = ApplyOp(after[2 - 1], ops[2], refusing)
    BY <1>4
  <2>2. 1 - 1 = 0 /\ 2 - 1 = 1
    OBVIOUS
  <2>3. QED
    BY <1>2, <1>3, <2>1, <2>2 DEF Steps
<1>6. after[2] \in C
  BY <1>5
<1>7. QED
  BY <1>2, <1>3, <1>6 DEF ops

\* An encoder that is started anew, and what follows.
LEMMA EncoderStarts ==
    ASSUME NEW d \in Docs, NEW e \in Streaming(d)
    PROVE  /\ Leads(Runs, <<AddEncoder(e, d.encoders[e])>>, {}, On(e))
           /\ Leads(Runs, <<RemoveEncoder(e), AddEncoder(e, d.encoders[e])>>, {}, On(e))
<1>0. e \in Ids(Encoders) /\ d.encoders[e] # Absent
  BY DEF Streaming, EncodersOf
<1>1. \A r \in Runs : ApplyOp(r, AddEncoder(e, d.encoders[e]), {}) \in On(e)
  <2>1. TAKE r \in Runs
  <2>2. EncoderAdded(r, ApplyOp(r, AddEncoder(e, d.encoders[e]), {}), d, e, {})
    BY AddEncoderDoes
  <2>3. QED
    BY <1>0, <2>2 DEF EncoderAdded, On
<1>2. Leads(Runs, <<AddEncoder(e, d.encoders[e])>>, {}, On(e))
  BY <1>1, LeadsOne, Zenon
<1>3. \A r \in Runs : ApplyOp(r, RemoveEncoder(e), {}) \in Runs
  <2>1. Off(e) \subseteq Runs
    BY DEF Off
  <2>2. QED
    BY <1>0, <2>1, RemoveEncoderDoes
<1>4. QED
  BY <1>1, <1>2, <1>3, LeadsTwo, Zenon

\* A rebuilt encoder has all its destinations.
LEMMA RebuildSends ==
    ASSUME NEW d \in Docs, NEW e \in Streaming(d), NEW o \in DestsOf(d, e)
    PROVE  Leads(Runs, Rebuild(d, e), {}, Sent(e, o, d))
<1> DEFINE first == <<RemoveEncoder(e), AddEncoder(e, d.encoders[e])>>
<1>0. e \in Ids(Encoders) /\ DestsOf(d, e) \subseteq Streams(d)
  BY DEF Streaming, EncodersOf, DestsOf, Streams
<1>1. first \in Seq(Ops(d))
  BY <1>0, OpFacts
<1>2. AddDests(d, e) \in Seq(Ops(d))
  <2>1. \A x \in DestsOf(d, e) : AddDest(x, d.outputs[x]) \in Ops(d)
    BY <1>0, OpFacts
  <2>2. QED
    BY <2>1, AddDestsInSeq, Zenon
<1>3. Leads(On(e), AddDests(d, e), {}, Sent(e, o, d))
  BY <1>0, DestsSent DEF AddDests
<1>4. Leads(Runs, first, {}, On(e))
  BY EncoderStarts
<1> HIDE DEF first
<1>5. Leads(Runs, first \o AddDests(d, e), {}, Sent(e, o, d))
  BY <1>1, <1>2, <1>3, <1>4, LeadsOn, Zenon
<1>6. QED
  BY <1>5 DEF Rebuild, first

\* What reinforcing one encoder does to it is what reinforcing all of them does.
LEMMA ReinforceReaches ==
    ASSUME NEW d \in Docs, NEW e \in Streaming(d), NEW o \in DestsOf(d, e), NEW statuses, NEW ops,
           NEW A \in {Runs, Sent(e, o, d), SentOrDown(e, o, d)}, NEW B \in {Sent(e, o, d), SentOrDown(e, o, d)},
           Leads(A, Reinforced(statuses, d, ops, e), {}, B)
    PROVE  Leads(A, ReinforceStreams(statuses, d, ops), {}, B)
<1> DEFINE f == [x \in Streaming(d) |-> Reinforced(statuses, d, ops, x)]
<1>0. e \in Ids(Encoders) /\ Streaming(d) \subseteq Ids(Encoders)
  BY DEF Streaming, EncodersOf
<1>1. DOMAIN f = Streaming(d) /\ (\A x \in Streaming(d) : f[x] = Reinforced(statuses, d, ops, x))
  OBVIOUS
<1>2. ReinforceStreams(statuses, d, ops) = Each(Encoders, f)
  BY ReinforceIs
<1> HIDE DEF f
<1>3. \A x \in DOMAIN f : f[x] \in Seq(EncoderOps(d, x))
  BY <1>1, ReinforcedParts
<1>4. \A x \in Ids(Encoders) : EncoderOps(d, x) \subseteq Ops(d) /\ \A op \in EncoderOps(d, x) : OnEncoder(op, e) => e = x
  BY <1>0, OpSets
<1>5. \A x \in DOMAIN f : f[x] \in Seq(Ops(d))
  <2>1. TAKE x \in DOMAIN f
  <2>2. EncoderOps(d, x) \subseteq Ops(d) /\ f[x] \in Seq(EncoderOps(d, x))
    BY <1>0, <1>1, <1>3, <1>4
  <2>3. QED
    BY <2>2, SeqWider
<1>6. \A x \in DOMAIN f : x # e => Leads(A, f[x], {}, A) /\ Leads(B, f[x], {}, B)
  <2>1. SUFFICES ASSUME NEW x \in DOMAIN f, x # e PROVE Leads(A, f[x], {}, A) /\ Leads(B, f[x], {}, B)
    OBVIOUS
  <2>2. EncoderOps(d, x) \subseteq Ops(d) /\ f[x] \in Seq(EncoderOps(d, x))
    BY <1>0, <1>1, <1>3, <1>4
  <2>3. \A op \in EncoderOps(d, x) : Spares(op, d, e, o)
    BY <1>0, <1>1, <1>4, <2>1 DEF Spares
  <2>4. /\ Leads(Sent(e, o, d), f[x], {}, Sent(e, o, d)) /\ Leads(SentOrDown(e, o, d), f[x], {}, SentOrDown(e, o, d))
        /\ Leads(Runs, f[x], {}, Runs)
    BY <1>0, <2>2, <2>3, SparedList, Zenon
  <2>5. QED
    BY <2>4
<1>7. Leads(A, f[e], {}, B) /\ e \in DOMAIN f
  BY <1>1
<1>8. Leads(A, Each(Encoders, f), {}, B)
  BY <1>0, <1>5, <1>6, <1>7, IdFacts, EachReaches, Zenon
<1>9. QED
  BY <1>2, <1>8, Zenon

\* What reinforcing an encoder does to one of its destinations: it stays, it comes if it
\* is not in the plan, and it comes if the encoder is rebuilt.
LEMMA ReinforceSends ==
    ASSUME NEW d \in Docs, NEW e \in Streaming(d), NEW o \in DestsOf(d, e), NEW statuses, NEW ops,
           NEW rebuilt, rebuilt = /\ \E i \in DestsOf(d, e) \cup {e} : EncoderDown(statuses, i)
                                  /\ ~Adding(ops, "AddEncoder", e)
    PROVE  LET s == ReinforceStreams(statuses, d, ops) IN
           /\ Leads(Sent(e, o, d), s, {}, Sent(e, o, d)) /\ Leads(SentOrDown(e, o, d), s, {}, SentOrDown(e, o, d))
           /\ ~Adding(ops, "AddDest", o) => Leads(Runs, s, {}, SentOrDown(e, o, d))
           /\ rebuilt => Leads(Runs, s, {}, Sent(e, o, d))
<1> DEFINE s == Reinforced(statuses, d, ops, e)
<1>0. /\ e \in Ids(Encoders) /\ DestsOf(d, e) \subseteq Streams(d)
      /\ Sent(e, o, d) \subseteq Runs /\ SentOrDown(e, o, d) \subseteq Runs /\ Sent(e, o, d) \subseteq SentOrDown(e, o, d)
  BY DEF Streaming, EncodersOf, DestsOf, Streams, Sent, SentOrDown
<1>1. CASE rebuilt
  <2>1. s = Rebuild(d, e)
    BY <1>1 DEF Reinforced
  <2> HIDE DEF s
  <2>2. Leads(Runs, s, {}, Sent(e, o, d))
    BY <2>1, RebuildSends
  <2>3. /\ Leads(Sent(e, o, d), s, {}, Sent(e, o, d)) /\ Leads(SentOrDown(e, o, d), s, {}, SentOrDown(e, o, d))
        /\ Leads(Runs, s, {}, SentOrDown(e, o, d))
    BY <1>0, <2>2 DEF Leads
  <2> USE DEF s
  <2>4. QED
    BY <1>1, <2>2, <2>3, ReinforceReaches
<1>2. CASE ~rebuilt
  <2> DEFINE D == {x \in DestsOf(d, e) : ~Adding(ops, "AddDest", x)}
  <2>1. s = Each(Outputs, [x \in D |-> <<AddDest(x, d.outputs[x])>>])
    BY <1>2 DEF Reinforced, Readd
  <2>2. ~Adding(ops, "AddDest", o) => Leads(Runs, s, {}, SentOrDown(e, o, d))
    BY <1>0, <2>1, DestsSent
  <2>3. s \in Seq({AddDest(x, d.outputs[x]) : x \in DestsOf(d, e)})
    <3> DEFINE f == [x \in D |-> <<AddDest(x, d.outputs[x])>>]
               O == {AddDest(x, d.outputs[x]) : x \in DestsOf(d, e)}
    <3>1. \A x \in DOMAIN f : f[x] \in Seq(O)
      OBVIOUS
    <3>2. s = Each(Outputs, f)
      BY <2>1
    <3> HIDE DEF f, O, s
    <3>3. Each(Outputs, f) \in Seq(O)
      BY <3>1, IdFacts, EachInSeq, Zenon
    <3>4. QED
      BY <3>2, <3>3 DEF O
  <2>4. /\ {AddDest(x, d.outputs[x]) : x \in DestsOf(d, e)} \subseteq Ops(d)
        /\ \A op \in {AddDest(x, d.outputs[x]) : x \in DestsOf(d, e)} : Spares(op, d, e, o)
    BY <1>0, OpFacts DEF Spares
  <2> HIDE DEF s
  <2>5. Leads(Sent(e, o, d), s, {}, Sent(e, o, d)) /\ Leads(SentOrDown(e, o, d), s, {}, SentOrDown(e, o, d))
    BY <1>0, <2>3, <2>4, SparedList, Zenon
  <2> USE DEF s
  <2>6. QED
    BY <1>2, <2>2, <2>5, ReinforceReaches
<1>3. QED
  BY <1>1, <1>2

\* What the plan does with one destination of an encoder that it starts anew, or that
\* stays while the destination is not as it was.
LEMMA StreamSends ==
    ASSUME NEW p \in Docs, NEW n \in Docs, NEW e \in Streaming(n), NEW o \in DestsOf(n, e),
           p.encoders[e] = n.encoders[e] => ~(RtmpDestination(p.outputs[o]) /\ SameDest(p.outputs[o], n.outputs[o]))
    PROVE  Leads(Runs, StreamOps(p, n, e), {}, SentOrDown(e, o, n))
<1>0. /\ e \in Ids(Encoders) /\ o \in Ids(Outputs) /\ DestsOf(n, e) # {}
      /\ \A d, y : DestsOf(d, y) \subseteq Ids(Outputs) /\ DestsOf(d, y) \subseteq Streams(d)
  BY DEF Streaming, EncodersOf, DestsOf, Streams
<1>1. /\ RemoveEncoder(e) \in Ops(n) /\ AddEncoder(e, n.encoders[e]) \in Ops(n)
      /\ \A x \in Ids(Outputs) : RemoveDest(e, x) \in Ops(n)
      /\ \A x \in DestsOf(n, e) : AddDest(x, n.outputs[x]) \in Ops(n)
  BY <1>0, OpFacts
<1>2. CASE p.encoders[e] # n.encoders[e]
  <2>1. <<RemoveEncoder(e)>> \in Seq(Ops(n)) /\ <<AddEncoder(e, n.encoders[e])>> \in Seq(Ops(n))
    BY <1>1, SeqOne
  <2>2. Restarted(p, n, e) \in Seq(Ops(n))
    BY <2>1, SeqWhen, SeqJoin, Zenon DEF Restarted
  <2>3. AddDests(n, e) \in Seq(Ops(n))
    BY <1>1, AddDestsInSeq, Zenon
  <2>4. Leads(Runs, Restarted(p, n, e), {}, Runs)
    BY <2>2, ListKeeps, Zenon
  <2>5. Leads(Runs, AddDests(n, e), {}, SentOrDown(e, o, n))
    BY <1>0, DestsSent DEF AddDests
  <2>6. Leads(Runs, Restarted(p, n, e) \o AddDests(n, e), {}, SentOrDown(e, o, n))
    BY <2>2, <2>3, <2>4, <2>5, LeadsOn, Zenon
  <2>7. QED
    BY <1>0, <1>2, <2>6, StreamOpsCases
<1>3. CASE p.encoders[e] = n.encoders[e]
  <2> DEFINE f == [x \in DestsOf(n, e) |-> KeepDest(p.outputs[x], n.outputs[x], e, x)]
             g == [x \in DestsOf(p, e) \ DestsOf(n, e) |-> <<RemoveDest(e, x)>>]
             O == {op \in Ops(n) : Spares(op, n, e, o)}
  <2>1. \A x \in Ids(Outputs) \ {o} : RemoveDest(e, x) \in O
    BY <1>1 DEF Spares
  <2>2. \A x \in DestsOf(n, e) : AddDest(x, n.outputs[x]) \in O
    BY <1>1 DEF Spares
  <2>3. O \subseteq Ops(n) /\ \A op \in O : Spares(op, n, e, o)
    OBVIOUS
  <2>4. /\ DOMAIN f = DestsOf(n, e) /\ \A x \in DOMAIN f : f[x] = KeepDest(p.outputs[x], n.outputs[x], e, x)
        /\ KeptDests(p, n, e) = Each(Outputs, f) /\ GoneDests(p, n, e) = Each(Outputs, g)
    BY DEF KeptDests, GoneDests
  <2> HIDE DEF f, g, O
  <2>5. \A x \in DOMAIN f : x # o => f[x] \in Seq(O)
    <3>1. SUFFICES ASSUME NEW x \in DOMAIN f, x # o PROVE f[x] \in Seq(O)
      OBVIOUS
    <3>2. RemoveDest(e, x) \in O /\ AddDest(x, n.outputs[x]) \in O
      BY <1>0, <2>1, <2>2, <2>4, <3>1
    <3>3. KeepDest(p.outputs[x], n.outputs[x], e, x) \in Seq(O)
      BY <3>2, KeepDestInSeq, Zenon
    <3>4. QED
      BY <2>4, <3>3
  <2>6. f[o] \in Seq(Ops(n)) /\ Leads(Runs, f[o], {}, SentOrDown(e, o, n))
    <3> DEFINE first == When(RtmpDestination(p.outputs[o]), <<RemoveDest(e, o)>>)
    <3>1. f[o] = first \o <<AddDest(o, n.outputs[o])>>
      BY <1>3, <2>4 DEF KeepDest
    <3>2. <<RemoveDest(e, o)>> \in Seq(Ops(n)) /\ <<AddDest(o, n.outputs[o])>> \in Seq(Ops(n))
      BY <1>0, <1>1, SeqOne
    <3>3. first \in Seq(Ops(n))
      BY <3>2, SeqWhen, Zenon
    <3> HIDE DEF first
    <3>4. Leads(Runs, first, {}, Runs)
      BY <3>3, ListKeeps, Zenon
    <3>5. Leads(Runs, <<AddDest(o, n.outputs[o])>>, {}, SentOrDown(e, o, n))
      <4>1. \A r \in Runs : ApplyOp(r, AddDest(o, n.outputs[o]), {}) \in SentOrDown(e, o, n)
        <5>1. TAKE r \in Runs
        <5>2. DestAdded(r, ApplyOp(r, AddDest(o, n.outputs[o]), {}), n, e, o, {})
          BY <1>0, AddDestDoes
        <5>3. QED
          BY <5>2 DEF DestAdded, SentOrDown, Wish
      <4>2. QED
        BY <4>1, LeadsOne, Zenon
    <3>6. Leads(Runs, first \o <<AddDest(o, n.outputs[o])>>, {}, SentOrDown(e, o, n))
      BY <3>2, <3>3, <3>4, <3>5, LeadsOn, Zenon
    <3>7. first \o <<AddDest(o, n.outputs[o])>> \in Seq(Ops(n))
      BY <3>2, <3>3, SeqJoin, Zenon
    <3>8. QED
      BY <3>1, <3>6, <3>7, Zenon
  <2>7. \A x \in DOMAIN f : f[x] \in Seq(Ops(n))
    <3>1. TAKE x \in DOMAIN f
    <3>2. CASE x = o
      BY <2>6, <3>2
    <3>3. CASE x # o
      BY <2>3, <2>5, <3>3, SeqWider
    <3>4. QED
      BY <3>2, <3>3
  <2>8. \A x \in DOMAIN f : x # o => /\ Leads(Runs, f[x], {}, Runs)
                                     /\ Leads(SentOrDown(e, o, n), f[x], {}, SentOrDown(e, o, n))
    <3>1. SUFFICES ASSUME NEW x \in DOMAIN f, x # o
                   PROVE  /\ Leads(Runs, f[x], {}, Runs)
                          /\ Leads(SentOrDown(e, o, n), f[x], {}, SentOrDown(e, o, n))
      OBVIOUS
    <3>2. f[x] \in Seq(O)
      BY <2>5, <3>1
    <3>3. QED
      BY <1>0, <2>3, <3>2, SparedList, Zenon
  <2>9. Leads(Runs, Each(Outputs, f), {}, SentOrDown(e, o, n))
    <3>1. o \in DOMAIN f
      BY <2>4
    <3>2. QED
      BY <1>0, <2>6, <2>7, <2>8, <3>1, IdFacts, EachReaches, Zenon
  <2>10. GoneDests(p, n, e) \in Seq(O)
    <3>1. \A x \in DestsOf(p, e) \ DestsOf(n, e) : RemoveDest(e, x) \in O
      BY <1>0, <2>1
    <3>2. QED
      BY <3>1, GoneDestsInSeq, Zenon
  <2>11. Leads(SentOrDown(e, o, n), GoneDests(p, n, e), {}, SentOrDown(e, o, n))
    BY <1>0, <2>3, <2>10, SparedList, Zenon
  <2>12. GoneDests(p, n, e) \in Seq(Ops(n))
    BY <2>3, <2>10, SeqWider
  <2>13. Each(Outputs, f) \in Seq(Ops(n))
    BY <2>7, IdFacts, EachInSeq, Zenon
  <2>14. Leads(Runs, Each(Outputs, f) \o GoneDests(p, n, e), {}, SentOrDown(e, o, n))
    BY <2>9, <2>11, <2>12, <2>13, LeadsOn, Zenon
  <2>15. StreamOps(p, n, e) = KeptDests(p, n, e) \o GoneDests(p, n, e)
    BY <1>0, <1>3, StreamOpsCases, Zenon
  <2>16. QED
    BY <2>4, <2>14, <2>15, Zenon
<1>4. QED
  BY <1>2, <1>3

\* And what the rest of the plan leaves of it.
LEMMA PlanSends ==
    ASSUME NEW p \in Docs, NEW n \in Docs, NEW e \in Streaming(n), NEW o \in DestsOf(n, e),
           Leads(Runs, StreamOps(p, n, e), {}, SentOrDown(e, o, n))
    PROVE  Leads(Runs, PlanOf(p, n), {}, SentOrDown(e, o, n))
<1> DEFINE f == [x \in EncodersOf(n) |-> StreamOps(p, n, x)]
           G == SentOrDown(e, o, n)
<1>0. /\ e \in Ids(Encoders) /\ EncodersOf(n) \subseteq Ids(Encoders) /\ EncodersOf(p) \subseteq Ids(Encoders)
      /\ e \in EncodersOf(n)
  BY DEF Streaming, EncodersOf
<1>1. DOMAIN f = EncodersOf(n) /\ (\A x \in DOMAIN f : f[x] = StreamOps(p, n, x)) /\ NextStreams(p, n) = Each(Encoders, f)
  BY DEF NextStreams
<1> HIDE DEF f
<1>2. \A x \in Ids(Encoders) \ {e} : /\ EncoderOps(n, x) \subseteq Ops(n)
                                     /\ \A op \in EncoderOps(n, x) : Spares(op, n, e, o)
  BY <1>0, OpSets DEF Spares
<1>3. LateOps(n) \subseteq Ops(n) /\ \A op \in LateOps(n) : Spares(op, n, e, o)
  BY <1>0, OpSets DEF Spares
<1>4. \A x \in DOMAIN f : f[x] \in Seq(Ops(n))
  <2>1. TAKE x \in DOMAIN f
  <2>2. x \in Ids(Encoders) /\ x \in EncodersOf(n)
    BY <1>0, <1>1
  <2>3. EncoderOps(n, x) \subseteq Ops(n)
    BY <2>2, OpSets
  <2>4. f[x] \in Seq(EncoderOps(n, x))
    BY <1>1, <2>2, EncoderParts
  <2>5. QED
    BY <2>3, <2>4, SeqWider
<1>5. \A x \in DOMAIN f : x # e => Leads(Runs, f[x], {}, Runs) /\ Leads(G, f[x], {}, G)
  <2>1. SUFFICES ASSUME NEW x \in DOMAIN f, x # e PROVE Leads(Runs, f[x], {}, Runs) /\ Leads(G, f[x], {}, G)
    OBVIOUS
  <2>2. x \in Ids(Encoders) \ {e} /\ x \in EncodersOf(n)
    BY <1>0, <1>1, <2>1
  <2>3. EncoderOps(n, x) \subseteq Ops(n) /\ \A op \in EncoderOps(n, x) : Spares(op, n, e, o)
    BY <1>2, <2>2
  <2>4. f[x] \in Seq(EncoderOps(n, x))
    BY <1>1, <2>2, EncoderParts
  <2>5. QED
    BY <1>0, <2>3, <2>4, SparedList, Zenon
<1>6. Leads(Runs, NextStreams(p, n), {}, G)
  <2>1. e \in DOMAIN f /\ Leads(Runs, f[e], {}, G)
    BY <1>0, <1>1
  <2>2. Leads(Runs, Each(Encoders, f), {}, G)
    BY <1>0, <1>4, <1>5, <2>1, IdFacts, EachReaches, Zenon
  <2>3. QED
    BY <1>1, <2>2, Zenon
<1>7. GoneStreams(p, n) \in Seq({op \in Ops(n) : Spares(op, n, e, o)})
  <2> DEFINE O == {op \in Ops(n) : Spares(op, n, e, o)}
  <2>1. \A x \in Ids(Encoders) \ {e} : EncoderOps(n, x) \subseteq O
    BY <1>2
  <2> HIDE DEF O
  <2>2. \A x \in EncodersOf(p) \ EncodersOf(n) : RemoveStream(p, x) \in Seq(O)
    <3>1. TAKE x \in EncodersOf(p) \ EncodersOf(n)
    <3>2. x \in Ids(Encoders) \ {e}
      BY <1>0
    <3>3. RemoveStream(p, x) \in Seq(EncoderOps(n, x)) /\ EncoderOps(n, x) \subseteq O
      BY <2>1, <3>2, EncoderParts
    <3>4. QED
      BY <3>3, SeqWider
  <2>3. GoneStreams(p, n) \in Seq(O)
    BY <2>2, GoneStreamsInSeq, Zenon
  <2>4. QED
    BY <2>3 DEF O
<1>8. Leads(G, GoneStreams(p, n), {}, G)
  <2> DEFINE O == {op \in Ops(n) : Spares(op, n, e, o)}
  <2>1. O \subseteq Ops(n) /\ (\A op \in O : Spares(op, n, e, o)) /\ GoneStreams(p, n) \in Seq(O)
    BY <1>7
  <2> HIDE DEF O
  <2>2. QED
    BY <1>0, <2>1, SparedList, Zenon
<1>9. Leads(G, LateDests(n), {}, G)
  <2>1. LateDests(n) \in Seq(LateOps(n))
    BY LateDestsInSeq
  <2>2. QED
    BY <1>0, <1>3, <2>1, SparedList, Zenon
<1>10. NextStreams(p, n) \in Seq(Ops(n)) /\ GoneStreams(p, n) \in Seq(Ops(n)) /\ LateDests(n) \in Seq(Ops(n))
  <2>1. Each(Encoders, f) \in Seq(Ops(n))
    BY <1>4, IdFacts, EachInSeq, Zenon
  <2>2. GoneStreams(p, n) \in Seq(Ops(n))
    BY <1>7, SeqWider
  <2>3. LateDests(n) \in Seq(Ops(n))
    BY <1>3, LateDestsInSeq, SeqWider
  <2>4. QED
    BY <1>1, <2>1, <2>2, <2>3
<1>11. Leads(Runs, PlanStreams(p, n), {}, G)
  <2> HIDE DEF G
  <2>1. Leads(Runs, (NextStreams(p, n) \o GoneStreams(p, n)) \o LateDests(n), {}, G)
    BY <1>6, <1>8, <1>9, <1>10, LeadsThrough, Zenon
  <2>2. QED
    BY <2>1, PlanStreamsParts, Zenon
<1>12. QED
  <2> HIDE DEF G
  <2>1. PlanInputs(p, n) \in Seq(Ops(n)) /\ PlanOutputs(p, n) \in Seq(Ops(n)) /\ PlanStreams(p, n) \in Seq(Ops(n))
    BY PlanParts
  <2>2. Leads(Runs, PlanInputs(p, n), {}, Runs) /\ Leads(Runs, PlanOutputs(p, n), {}, Runs)
    BY <2>1, ListKeeps
  <2>3. Leads(Runs, (PlanInputs(p, n) \o PlanOutputs(p, n)) \o PlanStreams(p, n), {}, G)
    BY <1>11, <2>1, <2>2, LeadsThrough, Zenon
  <2>4. Leads(Runs, PlanOf(p, n), {}, G)
    BY <2>3, PlanIs, Zenon
  <2>5. QED
    BY <2>4 DEF G

\* A destination that is as it was, at an encoder that is as it was, is not in the plan.
LEMMA NotAdded ==
    ASSUME NEW p \in Docs, NEW n \in Docs, NEW e \in Streaming(n), NEW o \in DestsOf(n, e),
           p.encoders[e] = n.encoders[e], RtmpDestination(p.outputs[o]), SameDest(p.outputs[o], n.outputs[o])
    PROVE  ~Adding(PlanOf(p, n), "AddDest", o)
<1> DEFINE O == {op \in Ops(n) : ~(op.op = "AddDest" /\ op.id = o)}
<1>0. /\ e \in Ids(Encoders) /\ e \in EncodersOf(n) /\ DestsOf(n, e) # {}
      /\ EncodersOf(n) \subseteq Ids(Encoders) /\ EncodersOf(p) \subseteq Ids(Encoders)
      /\ \A y : y # e => o \notin DestsOf(n, y)
      /\ o \notin Unserved(n)
      /\ \A d, y : DestsOf(d, y) \subseteq Ids(Outputs) /\ DestsOf(d, y) \subseteq Streams(d)
  BY DEF Streaming, EncodersOf, DestsOf, Streams, Unserved
<1>1. InOps(n) \subseteq O /\ OutOps(n) \subseteq O
  <2>1. \A op \in InOps(n) \cup OutOps(n) : op \in Ops(n) /\ ~OnEncoder(op, op.enc)
    BY PartOps
  <2>2. \A op \in InOps(n) \cup OutOps(n) : op.op # "AddDest"
    BY <2>1 DEF OnEncoder
  <2>3. QED
    BY <2>1, <2>2
<1>2. \A y \in Ids(Encoders) : RemoveEncoder(y) \in O
  BY OpFacts DEF RemoveEncoder, Op
<1>3. \A y \in Ids(Encoders), x \in Ids(Outputs) : RemoveDest(y, x) \in O
  BY OpFacts DEF RemoveDest, Op
<1>4. \A y \in Streaming(n) : AddEncoder(y, n.encoders[y]) \in O
  <2>1. TAKE y \in Streaming(n)
  <2>2. AddEncoder(y, n.encoders[y]) \in Ops(n)
    BY OpFacts
  <2>3. QED
    BY <2>2 DEF AddEncoder, Op
<1>5. \A x \in Streams(n) \ {o} : AddDest(x, n.outputs[x]) \in O
  <2>1. TAKE x \in Streams(n) \ {o}
  <2>2. AddDest(x, n.outputs[x]) \in Ops(n)
    BY OpFacts
  <2>3. QED
    BY <2>2 DEF AddDest, Op
<1>6. LateOps(n) \subseteq O
  <2>1. SUFFICES ASSUME NEW x \in Unserved(n) PROVE AddDest(x, n.outputs[x]) \in O
    BY DEF LateOps
  <2>2. x \in Streams(n) \ {o}
    BY <1>0 DEF Unserved, Streams
  <2>3. QED
    BY <1>5, <2>2
<1>7. O \subseteq Ops(n) /\ \A op \in O : ~(op.op = "AddDest" /\ op.id = o)
  OBVIOUS
<1> HIDE DEF O
<1>8. PlanInputs(p, n) \in Seq(O) /\ PlanOutputs(p, n) \in Seq(O)
  <2>1. PlanInputs(p, n) \in Seq(InOps(n)) /\ PlanOutputs(p, n) \in Seq(OutOps(n))
    BY PlanParts
  <2>2. QED
    BY <1>1, <2>1, SeqWider
<1>9. \A y \in EncodersOf(n) : StreamOps(p, n, y) \in Seq(O)
  <2>1. TAKE y \in EncodersOf(n)
  <2>2. y \in Ids(Encoders)
    BY <1>0
  <2>3. \A x \in DestsOf(p, y) : RemoveDest(y, x) \in O
    BY <1>0, <1>3, <2>2
  <2>4. RemoveEncoder(y) \in O
    BY <1>2, <2>2
  <2>5. DestsOf(n, y) # {} => AddEncoder(y, n.encoders[y]) \in O
    BY <1>4 DEF Streaming
  <2>6. \A x \in DestsOf(n, y) : x # o => AddDest(x, n.outputs[x]) \in O
    BY <1>0, <1>5
  <2>7. p.encoders[y] # n.encoders[y] => \A x \in DestsOf(n, y) : AddDest(x, n.outputs[x]) \in O
    BY <1>0, <2>6
  <2>8. \A x \in DestsOf(n, y) : KeepDest(p.outputs[x], n.outputs[x], y, x) \in Seq(O)
    <3>1. TAKE x \in DestsOf(n, y)
    <3>2. CASE x = o
      <4>1. KeepDest(p.outputs[x], n.outputs[x], y, x) = <<>>
        BY <3>2 DEF KeepDest
      <4>2. QED
        BY <4>1
    <3>3. CASE x # o
      <4>1. RemoveDest(y, x) \in O /\ AddDest(x, n.outputs[x]) \in O
        BY <1>0, <1>3, <2>2, <2>6, <3>3
      <4>2. QED
        BY <4>1, KeepDestInSeq, Zenon
    <3>4. QED
      BY <3>2, <3>3
  <2>9. \A x \in DestsOf(p, y) \ DestsOf(n, y) : RemoveDest(y, x) \in O
    BY <2>3
  <2>10. QED
    BY <2>3, <2>4, <2>5, <2>7, <2>8, <2>9, StreamOpsInSeq, Zenon
<1>10. \A y \in EncodersOf(p) \ EncodersOf(n) : RemoveStream(p, y) \in Seq(O)
  <2>1. TAKE y \in EncodersOf(p) \ EncodersOf(n)
  <2>2. RemoveEncoder(y) \in O /\ \A x \in DestsOf(p, y) : RemoveDest(y, x) \in O
    BY <1>0, <1>2, <1>3
  <2>3. QED
    BY <2>2, RemoveStreamInSeq, Zenon
<1>11. PlanStreams(p, n) \in Seq(O)
  BY <1>6, <1>9, <1>10, PlanStreamsInSeq, Zenon
<1>12. PlanInputs(p, n) \o PlanOutputs(p, n) \in Seq(O)
  BY <1>8, SeqJoin, Zenon
<1>13. (PlanInputs(p, n) \o PlanOutputs(p, n)) \o PlanStreams(p, n) \in Seq(O)
  BY <1>11, <1>12, SeqJoin, Zenon
<1>14. PlanOf(p, n) \in Seq(O)
  BY <1>13, PlanIs, Zenon
<1> DEFINE s == PlanOf(p, n)
<1>15. s \in Seq(O)
  BY <1>14
<1> HIDE DEF s
<1>16. \A j \in 1..Len(s) : s[j] \in O
  BY <1>15
<1>17. ~Adding(s, "AddDest", o)
  BY <1>7, <1>16 DEF Adding
<1>18. QED
  BY <1>17 DEF s

\* A publish that the mixer refuses nothing of leaves every destination attached, or its
\* status tells why not.
LEMMA PublishSends ==
    ASSUME NEW p \in Docs, NEW n \in Docs, NEW e \in Streaming(n), NEW o \in DestsOf(n, e)
    PROVE  Leads(Runs, AllOps(p, n), {}, SentOrDown(e, o, n))
<1> DEFINE G == SentOrDown(e, o, n)
           plan == PlanOf(p, n)
           more == ReinforceStreams(resources, n, PlanOf(p, n))
<1>1. plan \in Seq(Ops(n)) /\ more \in Seq(Ops(n))
  BY PlanInSeq, ReinforceParts
<1>2. AllOps(p, n) = plan \o more
  BY AllOpsAre
<1>3. Leads(Runs, plan, {}, Runs)
  BY <1>1, ListKeeps
<1>4. Leads(G, more, {}, G) /\ (~Adding(plan, "AddDest", o) => Leads(Runs, more, {}, G))
  BY ReinforceSends
<1>5. CASE p.encoders[e] = n.encoders[e] /\ RtmpDestination(p.outputs[o]) /\ SameDest(p.outputs[o], n.outputs[o])
  <2>1. Leads(Runs, more, {}, G)
    BY <1>4, <1>5, NotAdded
  <2> HIDE DEF G, plan, more
  <2>2. Leads(Runs, plan \o more, {}, G)
    BY <1>1, <1>3, <2>1, LeadsOn, Zenon
  <2>3. QED
    BY <1>2, <2>2 DEF G
<1>6. CASE ~(p.encoders[e] = n.encoders[e] /\ RtmpDestination(p.outputs[o]) /\ SameDest(p.outputs[o], n.outputs[o]))
  <2>1. Leads(Runs, StreamOps(p, n, e), {}, G)
    BY <1>6, StreamSends
  <2>2. Leads(Runs, plan, {}, G)
    BY <2>1, PlanSends
  <2> HIDE DEF G, plan, more
  <2>3. Leads(Runs, plan \o more, {}, G)
    BY <1>1, <1>4, <2>2, LeadsOn, Zenon
  <2>4. QED
    BY <1>2, <2>3 DEF G
<1>7. QED
  BY <1>5, <1>6

\* The plan from a document to itself is not on an encoder that streams.
LEMMA AgainQuiet ==
    ASSUME NEW d \in Docs, NEW e \in Streaming(d)
    PROVE  PlanOf(d, d) \in Seq({op \in Ops(d) : ~OnEncoder(op, e)})
<1> DEFINE O == {op \in Ops(d) : ~OnEncoder(op, e)}
<1>0. e \in EncodersOf(d) /\ EncodersOf(d) \subseteq Ids(Encoders) /\ DestsOf(d, e) # {}
  BY DEF Streaming, EncodersOf
<1>1. InOps(d) \subseteq O /\ OutOps(d) \subseteq O
  BY PartOps
<1>2. LateOps(d) \subseteq O
  BY <1>0, OpSets
<1>3. \A y \in Ids(Encoders) \ {e} : EncoderOps(d, y) \subseteq O
  BY OpSets
<1> HIDE DEF O
<1>4. PlanInputs(d, d) \in Seq(O) /\ PlanOutputs(d, d) \in Seq(O)
  <2>1. PlanInputs(d, d) \in Seq(InOps(d)) /\ PlanOutputs(d, d) \in Seq(OutOps(d))
    BY PlanParts
  <2>2. QED
    BY <1>1, <2>1, SeqWider
<1>5. \A y \in EncodersOf(d) : StreamOps(d, d, y) \in Seq(O)
  <2>1. TAKE y \in EncodersOf(d)
  <2>2. CASE y = e
    <3>1. \A x \in DestsOf(d, e) : KeepDest(d.outputs[x], d.outputs[x], e, x) \in Seq(O)
      <4>1. TAKE x \in DestsOf(d, e)
      <4>2. KeepDest(d.outputs[x], d.outputs[x], e, x) = <<>>
        BY DEF KeepDest, SameDest, DestsOf
      <4>3. QED
        BY <4>2
    <3>2. StreamOps(d, d, e) \in Seq(O)
      <4>1. ~(DestsOf(d, e) = {} /\ d.encoders[e] # Absent) /\ ~(DestsOf(d, e) # {} /\ d.encoders[e] # d.encoders[e])
        BY <1>0
      <4>2. \A x \in DestsOf(d, e) \ DestsOf(d, e) : RemoveDest(e, x) \in O
        OBVIOUS
      <4>3. QED
        BY <3>1, <4>1, <4>2, StreamOpsInSeq, Zenon
    <3>3. QED
      BY <2>2, <3>2
  <2>3. CASE y # e
    <3>1. EncoderOps(d, y) \subseteq O /\ StreamOps(d, d, y) \in Seq(EncoderOps(d, y))
      BY <1>0, <1>3, <2>3, EncoderParts
    <3>2. QED
      BY <3>1, SeqWider
  <2>4. QED
    BY <2>2, <2>3
<1>6. \A y \in EncodersOf(d) \ EncodersOf(d) : RemoveStream(d, y) \in Seq(O)
  OBVIOUS
<1>7. PlanStreams(d, d) \in Seq(O)
  BY <1>2, <1>5, <1>6, PlanStreamsInSeq, Zenon
<1>8. PlanInputs(d, d) \o PlanOutputs(d, d) \in Seq(O)
  BY <1>4, SeqJoin, Zenon
<1>9. (PlanInputs(d, d) \o PlanOutputs(d, d)) \o PlanStreams(d, d) \in Seq(O)
  BY <1>7, <1>8, SeqJoin, Zenon
<1>10. PlanOf(d, d) \in Seq(O)
  BY <1>9, PlanIs, Zenon
<1>11. QED
  BY <1>10 DEF O

\* Published again, the document streams to every destination it enables.
LEMMA AgainSends ==
    ASSUME NEW d \in Docs, NEW e \in Streaming(d), NEW o \in DestsOf(d, e), NEW q \in Ports,
           \A x \in DestsOf(d, e) : Wish(x, d) \in q.dests[e] \/ Status(x, "down") \in resources
    PROVE  Wish(o, d) \in Execute(q, AllOps(d, d), {}).port.dests[e]
<1> DEFINE plan == PlanOf(d, d)
           more == ReinforceStreams(resources, d, PlanOf(d, d))
           O == {op \in Ops(d) : ~OnEncoder(op, e)}
<1>0. e \in Ids(Encoders)
  BY DEF Streaming, EncodersOf
<1>1. plan \in Seq(Ops(d)) /\ more \in Seq(Ops(d)) /\ AllOps(d, d) = plan \o more
  BY PlanInSeq, ReinforceParts, AllOpsAre
<1>2. plan \in Seq(O)
  BY AgainQuiet
<1>3. O \subseteq Ops(d) /\ (\A op \in O : Spares(op, d, e, o)) /\ \A op \in O : ~OnEncoder(op, e)
  BY DEF Spares
<1>4. ~Adding(plan, "AddEncoder", e)
  <2> HIDE DEF plan, O
  <2>1. \A j \in 1..Len(plan) : plan[j] \in O
    BY <1>2
  <2>2. QED
    BY <1>3, <2>1 DEF Adding, OnEncoder
<1>5. Begin(q) \in Runs /\ Begin(q).port = q
  BY BeginFacts DEF Begin
<1>6. CASE \E i \in DestsOf(d, e) \cup {e} : EncoderDown(resources, i)
  <2>1. Leads(Runs, more, {}, Sent(e, o, d))
    BY <1>4, <1>6, ReinforceSends
  <2>2. Leads(Runs, plan, {}, Runs)
    BY <1>1, ListKeeps
  <2> HIDE DEF plan, more
  <2>3. Leads(Runs, plan \o more, {}, Sent(e, o, d))
    BY <1>1, <2>1, <2>2, LeadsOn, Zenon
  <2>4. QED
    BY <1>1, <1>5, <2>3 DEF Leads, Execute, Sent
<1>7. CASE ~\E i \in DestsOf(d, e) \cup {e} : EncoderDown(resources, i)
  <2>1. Wish(o, d) \in q.dests[e]
    BY <1>7 DEF EncoderDown, Status
  <2>2. Begin(q) \in Sent(e, o, d)
    BY <1>5, <2>1 DEF Sent
  <2>3. Leads(Sent(e, o, d), more, {}, Sent(e, o, d))
    BY ReinforceSends
  <2> HIDE DEF plan, more, O
  <2>4. Leads(Sent(e, o, d), plan, {}, Sent(e, o, d))
    BY <1>0, <1>2, <1>3, SparedList, Zenon
  <2>5. Leads(Sent(e, o, d), plan \o more, {}, Sent(e, o, d))
    BY <1>1, <2>3, <2>4, LeadsOn, Zenon
  <2>6. QED
    BY <1>1, <2>2, <2>5 DEF Leads, Execute, Sent
<1>8. QED
  BY <1>6, <1>7

\* After a publish that the mixer refused nothing of, every destination is attached or
\* its status tells the next publish why not.
CaughtUp ==
    last.result = "ok" /\ last.clean =>
        \A e \in Streaming(session) : \A o \in DestsOf(session, e) :
            Wish(o, session) \in port.dests[e] \/ Status(o, "down") \in resources

\* The runs in which only inputs are reported as failed.
OnlyInputsFailed ==
    {r \in Runs : \A s \in r.statuses : s.why = "failed" => \E i \in Ids(Inputs) : s.id = StatusId[i]}

\* When nothing is refused, only inputs fail: their files are gone.
LEMMA NoneRefused ==
    ASSUME NEW d \in Docs, NEW s \in Seq(Ops(d))
    PROVE  Leads(OnlyInputsFailed, s, {}, OnlyInputsFailed)
<1>1. ASSUME NEW op \in Ops(d), NEW run \in OnlyInputsFailed PROVE ApplyOp(run, op, {}) \in OnlyInputsFailed
  <2> DEFINE after == ApplyOp(run, op, {})
  <2>1. run \in Runs /\ after \in Runs
    BY OpEffect DEF OnlyInputsFailed
  <2>2. SUFFICES \/ after.statuses = run.statuses
                 \/ \E x : \E why \in {"ready", "down"} : after.statuses = Reported(run.statuses, x, why)
                 \/ \E i \in Ids(Inputs) : after.statuses = Reported(run.statuses, i, "failed")
    <3> HIDE DEF after
    <3>1. ASSUME NEW x, NEW why, after.statuses = Reported(run.statuses, x, why),
                 why # "failed" \/ x \in Ids(Inputs)
          PROVE  after \in OnlyInputsFailed
      <4>1. SUFFICES ASSUME NEW t \in after.statuses, t.why = "failed"
                     PROVE  \E i \in Ids(Inputs) : t.id = StatusId[i]
        BY <2>1 DEF OnlyInputsFailed
      <4>2. t \in run.statuses \/ t = Status(x, why)
        BY <3>1 DEF Reported
      <4>3. t = Status(x, why) => t.id = StatusId[x] /\ t.why = why
        BY DEF Status
      <4>4. QED
        BY <3>1, <4>1, <4>2, <4>3 DEF OnlyInputsFailed
    <3>2. QED
      BY <2>1, <3>1 DEF OnlyInputsFailed, after
  <2>3. CASE \E i \in Ids(Inputs) : op = DestroySource(i)
    BY <2>1, <2>3, DoDestroySource
  <2>4. CASE \E o \in Ids(Outputs) : op = RemoveOutput(o)
    BY <2>1, <2>4, DoRemoveOutput
  <2>5. CASE \E e \in Ids(Encoders) : op = RemoveEncoder(e)
    <3>1. PICK e \in Ids(Encoders) : op = RemoveEncoder(e)
      BY <2>5
    <3> DEFINE q == [run.port EXCEPT !.encoders = [@ EXCEPT ![e] = Absent], !.dests = [@ EXCEPT ![e] = {}]]
    <3>2. after = [port |-> q, statuses |-> run.statuses, stopped |-> run.stopped \cup {e}]
      BY <2>1, <3>1, DoRemoveEncoder
    <3> HIDE DEF q, after
    <3>3. QED
      BY <3>2
  <2>6. CASE \E e \in Ids(Encoders), o \in Ids(Outputs) : op = RemoveDest(e, o)
    BY <2>1, <2>6, DoRemoveDest
  <2>7. CASE \E i \in Ids(Inputs) : op = ConnectInput(i, d.inputs[i])
    BY <2>1, <2>7, DoConnectInput
  <2>8. CASE \E i \in Ids(Inputs) : op = FailInput(i)
    BY <2>1, <2>8, DoFailInput
  <2>9. CASE \E o \in Outlets(d) : op = AddOutput(o, d.outputs[o])
    BY <2>1, <2>9, DoAddOutput
  <2>10. CASE \E e \in Streaming(d) : op = AddEncoder(e, d.encoders[e])
    <3>1. PICK e \in Streaming(d) : op = AddEncoder(e, d.encoders[e])
      BY <2>10
    <3> DEFINE c == d.encoders[e]
               q == [run.port EXCEPT !.encoders = [@ EXCEPT ![e] = c], !.dests = [@ EXCEPT ![e] = {}]]
    <3> HIDE DEF c
    <3>2. after = ApplyOp(run, AddEncoder(e, c), {})
      BY <3>1 DEF c
    <3> HIDE DEF after
    <3>3. after = IF e \in {}
                  THEN [port |-> run.port, statuses |-> Reported(run.statuses, e, "failed"), stopped |-> run.stopped]
                  ELSE [port |-> q, statuses |-> Reported(run.statuses, e, "ready"), stopped |-> run.stopped]
      BY <2>1, <3>2, DoAddEncoder
    <3> HIDE DEF q
    <3>4. after = [port |-> q, statuses |-> Reported(run.statuses, e, "ready"), stopped |-> run.stopped]
      BY <3>3
    <3>5. after.statuses = Reported(run.statuses, e, "ready")
      BY <3>4
    <3>6. QED
      BY <3>5, Zenon
  <2>11. CASE \E o \in Streams(d) : op = AddDest(o, d.outputs[o])
    <3>1. PICK o \in Streams(d) : op = AddDest(o, d.outputs[o])
      BY <2>11
    <3>2. \E why \in {"ready", "down"} : after.statuses = Reported(run.statuses, o, why)
      BY <2>1, <3>1, DoAddDest
    <3>3. QED
      BY <3>2
  <2>12. QED
    BY <2>3, <2>4, <2>5, <2>6, <2>7, <2>8, <2>9, <2>10, <2>11, OpCases
<1>2. QED
  BY <1>1, LeadsBack, Zenon

\* An output in trouble then has an encoder that is not running.
LEMMA TroubleIsDown ==
    ASSUME NEW run \in OnlyInputsFailed, NEW o \in Ids(Outputs), InTrouble(run.statuses, o)
    PROVE  Status(o, "down") \in run.statuses
<1>1. PICK s \in run.statuses : s.id = StatusId[o] /\ s.why # "ready"
  BY DEF InTrouble
<1>2. s \in Statuses
  BY DEF OnlyInputsFailed, Runs
<1>3. s = [id |-> s.id, why |-> s.why] /\ s.why \in {"ready", "failed", "down"}
  BY <1>2 DEF Statuses
<1>4. s.why # "failed"
  BY <1>1, JoinedIds, InputsHaveTheirStatus DEF OnlyInputsFailed
<1>5. QED
  BY <1>1, <1>3, <1>4 DEF Status

\* A port that serves a document has no destination that the document does not want.
LEMMA DestsWanted ==
    ASSUME NEW d, NEW turned, NEW spared, NEW q, Serves(d, turned, spared, q), NEW e \in Ids(Encoders), NEW x \in q.dests[e]
    PROVE  \E o \in DestsOf(d, e) : x = Wish(o, d)
<1>1. q \in Ports /\ Begin(q).port = q
  BY DEF Serves, Begin
<1>2. x \in Dests
  BY <1>1 DEF Ports
<1>3. x.id \in Ids(Outputs) /\ x = [id |-> x.id, cfg |-> x.cfg]
  BY <1>2 DEF Dests
<1>4. Begin(q) \in DestAs(e, x.id, d)
  BY <1>3 DEF Serves, StreamAs
<1>5. x.cfg = d.outputs[x.id].cfg /\ x.id \in DestsOf(d, e)
  BY <1>1, <1>4 DEF DestAs
<1>6. QED
  BY <1>3, <1>5 DEF Wish

\* Every step keeps both.
LEMMA CaughtUpNext ==
    ASSUME ReconcileInv, CaughtUp, StreamsCatchUp, [ReconcileNext]_reconcileVars
    PROVE  CaughtUp' /\ StreamsCatchUp'
<1>1. CASE UNCHANGED reconcileVars
  BY <1>1 DEF reconcileVars, CaughtUp, StreamsCatchUp, Wanted, DestsOf
<1>2. CASE FilesChange
  BY <1>2 DEF FilesChange, CaughtUp, StreamsCatchUp, Wanted, DestsOf
<1>3. CASE ReconcileNext /\ ~FilesChange
  <2>1. CaughtUp'
    <3>1. SUFFICES ASSUME last'.result = "ok", last'.clean, NEW e \in Streaming(session'), NEW o \in DestsOf(session', e)
                   PROVE  Wish(o, session') \in port'.dests[e] \/ Status(o, "down") \in resources'
      BY DEF CaughtUp
    <3>2. PICK next, refusing : next \in Documents /\ Publish(next, AllOps(session, next), refusing)
      BY <1>3, <3>1, OkIsPublish
    <3>3. /\ session' = next /\ refusing = {} /\ session \in Docs /\ next \in Docs /\ port \in Ports
          /\ port' = Execute(port, AllOps(session, next), {}).port
          /\ resources' = Execute(port, AllOps(session, next), {}).statuses
      BY <3>1, <3>2 DEF Publish, Outcome, ReconcileInv, Docs
    <3>4. e \in Streaming(next) /\ o \in DestsOf(next, e)
      BY <3>1, <3>3
    <3>5. Begin(port) \in Runs
      BY <3>3, BeginFacts
    <3>6. Leads(Runs, AllOps(session, next), {}, SentOrDown(e, o, next))
      BY <3>3, <3>4, PublishSends
    <3>7. Execute(port, AllOps(session, next), {}) \in SentOrDown(e, o, next)
      BY <3>5, <3>6 DEF Leads, Execute
    <3>8. Begin(port) \in OnlyInputsFailed
      BY <3>5 DEF OnlyInputsFailed, Begin
    <3>9. Execute(port, AllOps(session, next), {}) \in OnlyInputsFailed
      BY <3>3, <3>8, AllOpsInSeq, NoneRefused DEF Leads, Execute
    <3>10. o \in Ids(Outputs)
      BY <3>1 DEF DestsOf
    <3>11. QED
      BY <3>3, <3>7, <3>9, <3>10, TroubleIsDown DEF SentOrDown
  <2>2. StreamsCatchUp'
    <3>1. SUFFICES ASSUME last'.again, ~last'.stray, NEW e \in Ids(Encoders), session'.encoders[e] # Absent
                   PROVE  port'.dests[e] = Wanted(e)'
      BY DEF StreamsCatchUp
    <3>2. PICK next, refusing : next \in Documents /\ Publish(next, AllOps(session, next), refusing)
      BY <1>3, <3>1, OkIsPublish
    <3>3. /\ session' = session /\ next = session /\ session \in Docs /\ port \in Ports
          /\ port' = Execute(port, AllOps(session, session), {}).port
          /\ last.result = "ok" /\ last.clean
      BY <3>1, <3>2 DEF Publish, Outcome, ReconcileInv
    <3>4. Wanted(e)' = {Wish(o, session) : o \in DestsOf(session, e)}
      BY <3>3 DEF Wanted, Wish
    <3>5. \A x \in port'.dests[e] : x \in Wanted(e)'
      <4>1. ReconcileInv'
        BY ReconcileInvNext
      <4>2. Serves(session', last'.turned, last'.spared, port')
        BY <3>1, <4>1 DEF ReconcileInv
      <4>3. \A x \in port'.dests[e] : \E o \in DestsOf(session', e) : x = Wish(o, session')
        BY <4>2, DestsWanted
      <4>4. QED
        BY <3>3, <3>4, <4>3
    <3>6. \A o \in DestsOf(session, e) : Wish(o, session) \in port'.dests[e]
      <4>1. TAKE o \in DestsOf(session, e)
      <4>2. e \in Streaming(session)
        BY <3>1, <3>3 DEF Streaming, EncodersOf
      <4>3. \A x \in DestsOf(session, e) : Wish(x, session) \in port.dests[e] \/ Status(x, "down") \in resources
        BY <3>3, <4>2 DEF CaughtUp
      <4>4. Wish(o, session) \in Execute(port, AllOps(session, session), {}).port.dests[e]
        BY <3>3, <4>2, <4>3, AgainSends
      <4>5. QED
        BY <3>3, <4>4
    <3>7. QED
      BY <3>4, <3>5, <3>6
  <2>3. QED
    BY <2>1, <2>2
<1>4. QED
  BY <1>1, <1>2, <1>3

\* A document published twice in a row with nothing refused streams to every destination
\* it enables, and to no other.
THEOREM StreamsRecover == ReconcileSpec => []StreamsCatchUp
<1>1. ReconcileInit => CaughtUp /\ StreamsCatchUp
  BY DEF ReconcileInit, NoPublish, CaughtUp, StreamsCatchUp
<1>2. ReconcileInv /\ CaughtUp /\ StreamsCatchUp /\ [ReconcileNext]_reconcileVars => CaughtUp' /\ StreamsCatchUp'
  BY CaughtUpNext
<1>3. QED
  BY <1>1, <1>2, ReconcileInvInit, ReconcileInvNext, PTL DEF ReconcileSpec
=============================================================================
