---------------------------- MODULE TuiDagProofs ----------------------------
(***************************************************************************)
(* Theorems about the task graphs and about execute_dag of the TUI, for    *)
(* every graph and every max_parallel: first what the cycle search and     *)
(* Kahn's algorithm compute, then the coroutines of a graph's nodes.       *)
(***************************************************************************)
EXTENDS TuiDag, FiniteSetTheorems, TLAPS

---------------------------------------------------------------------------
(* Induction and recursion over the numbers, for a set and for functions,  *)
(* without an operator as a parameter.                                     *)

LEMMA LeastOf ==
    ASSUME NEW S, S \subseteq Nat, S # {}
    PROVE  \E x \in S : \A y \in S : x <= y
<1>1. PICK x \in S : \A y \in S : ~(<<y, x>> \in OpToRel(<, Nat))
  BY NatLessThanWellFounded, WFMin
<1>2. \A y \in S : ~(y < x)
  BY <1>1 DEF OpToRel
<1> QED
  BY <1>2

\* Induction over the numbers, for a set of them.
LEMMA Induction ==
    ASSUME NEW P, 0 \in P, \A n \in Nat : n \in P => n + 1 \in P
    PROVE  Nat \subseteq P
<1> SUFFICES ASSUME Nat \ P # {} PROVE FALSE
  OBVIOUS
<1>1. PICK x \in Nat \ P : \A y \in Nat \ P : x <= y
  BY LeastOf
<1>2. x - 1 \in Nat /\ x = (x - 1) + 1
  BY <1>1
<1>3. x - 1 \in P
  BY <1>1, <1>2
<1> QED
  BY <1>1, <1>2, <1>3

\* A function may be defined by recursion over the numbers.
Recursive(f, base, step) == f[0] = base /\ \A k \in Nat \ {0} : f[k] = step[<<k, f[k - 1]>>]
RecursiveTo(n, f, base, step) == f[0] = base /\ \A k \in 1..n : f[k] = step[<<k, f[k - 1]>>]

LEMMA Recursion ==
    ASSUME NEW R, NEW base \in R, NEW step \in [Nat \X R -> R]
    PROVE  \E f \in [Nat -> R] : Recursive(f, base, step)
<1> DEFINE P == {n \in Nat : \E g \in [0..n -> R] : RecursiveTo(n, g, base, step)}
<1>1. 0 \in P
  <2>1. [k \in 0..0 |-> base] \in [0..0 -> R] /\ RecursiveTo(0, [k \in 0..0 |-> base], base, step)
    BY DEF RecursiveTo
  <2> QED
    BY <2>1
<1>2. ASSUME NEW n \in Nat, n \in P PROVE n + 1 \in P
  <2>1. PICK g \in [0..n -> R] : RecursiveTo(n, g, base, step)
    BY <1>2
  <2> DEFINE h == [k \in 0..(n + 1) |-> IF k = n + 1 THEN step[<<n + 1, g[n]>>] ELSE g[k]]
  <2>2. h \in [0..(n + 1) -> R]
    BY <2>1
  <2>3. RecursiveTo(n + 1, h, base, step)
    <3>1. h[0] = base
      BY <2>1 DEF RecursiveTo
    <3>2. \A k \in 1..n : h[k] = step[<<k, h[k - 1]>>]
      BY <2>1 DEF RecursiveTo
    <3>3. h[n + 1] = step[<<n + 1, h[n]>>]
      <4>1. n \in 0..(n + 1) /\ n + 1 \in 0..(n + 1) /\ n # n + 1
        OBVIOUS
      <4>2. h[n] = g[n] /\ h[n + 1] = step[<<n + 1, g[n]>>]
        BY <4>1
      <4> QED
        BY <4>2
    <3>4. \A k \in 1..(n + 1) : k \in 1..n \/ (k = n + 1 /\ k - 1 = n)
      OBVIOUS
    <3> HIDE DEF h
    <3> QED
      BY <3>1, <3>2, <3>3, <3>4 DEF RecursiveTo
  <2> HIDE DEF h
  <2> QED
    BY <2>2, <2>3
<1> DEFINE G(n) == CHOOSE g \in [0..n -> R] : RecursiveTo(n, g, base, step)
<1>3. ASSUME NEW n \in Nat PROVE G(n) \in [0..n -> R] /\ RecursiveTo(n, G(n), base, step)
  <2>1. n \in P
    BY <1>1, <1>2, Induction
  <2> QED
    BY <2>1
<1>4. ASSUME NEW n \in Nat PROVE G(n)[n] = G(n + 1)[n]
  <2> DEFINE Q == {k \in Nat : k <= n => G(n)[k] = G(n + 1)[k]}
  <2> HIDE DEF G
  <2>1. 0 \in Q
    BY <1>3 DEF RecursiveTo
  <2>2. ASSUME NEW k \in Nat, k \in Q PROVE k + 1 \in Q
    <3>1. k + 1 <= n => k + 1 \in 1..n /\ k + 1 \in 1..(n + 1) /\ (k + 1) - 1 = k
      OBVIOUS
    <3>2. ASSUME k + 1 <= n PROVE G(n)[k + 1] = G(n + 1)[k + 1]
      <4>1. G(n)[k + 1] = step[<<k + 1, G(n)[k]>>]
        BY <1>3, <3>1, <3>2 DEF RecursiveTo
      <4>2. G(n + 1)[k + 1] = step[<<k + 1, G(n + 1)[k]>>]
        BY <1>3, <3>1, <3>2 DEF RecursiveTo
      <4> QED
        BY <2>2, <3>2, <4>1, <4>2
    <3> QED
      BY <3>2
  <2>3. n \in Q
    BY <2>1, <2>2, Induction
  <2> QED
    BY <2>3
<1> DEFINE f == [n \in Nat |-> G(n)[n]]
<1> HIDE DEF G
<1>5. f \in [Nat -> R]
  BY <1>3
<1>6. f[0] = base
  BY <1>3 DEF RecursiveTo
<1>7. ASSUME NEW k \in Nat \ {0} PROVE f[k] = step[<<k, f[k - 1]>>]
  <2>1. k - 1 \in Nat /\ k \in 1..k /\ (k - 1) + 1 = k
    OBVIOUS
  <2>2. G(k)[k] = step[<<k, G(k)[k - 1]>>]
    BY <1>3, <2>1 DEF RecursiveTo
  <2>3. G(k)[k - 1] = G(k - 1)[k - 1]
    BY <1>4, <2>1
  <2> QED
    BY <2>1, <2>2, <2>3
<1> HIDE DEF f
<1> QED
  BY <1>5, <1>6, <1>7 DEF Recursive

---------------------------------------------------------------------------
(* The nodes of a set in the order of insertion.                           *)

Rising(p) == \A j, k \in DOMAIN p : j < k => p[j] < p[k]

LEMMA GreatestOf ==
    ASSUME NEW n \in Nat, NEW S \in SUBSET (1..n), S # {}
    PROVE  \E x \in S : \A y \in S : y <= x
<1> DEFINE T == {n - y : y \in S}
<1>1. T \subseteq Nat /\ T # {}
  <2>1. \A y \in S : n - y \in Nat
    OBVIOUS
  <2> QED
    BY <2>1
<1>2. PICK t \in T : \A u \in T : t <= u
  BY <1>1, LeastOf
<1>3. PICK x \in S : t = n - x
  BY <1>2
<1>4. \A y \in S : n - x <= n - y
  BY <1>2, <1>3
<1> QED
  BY <1>3, <1>4

LEMMA RisingExists ==
    ASSUME NEW n \in Nat, NEW S \in SUBSET (1..n)
    PROVE  /\ IsFiniteSet(S) /\ Cardinality(S) \in Nat
           /\ \E p \in [1..Cardinality(S) -> S] : Rising(p)
<1>0. \A T \in SUBSET (1..n) : IsFiniteSet(T) /\ Cardinality(T) \in Nat
  <2>1. IsFiniteSet(1..n)
    BY FS_Interval
  <2> QED
    BY <2>1, FS_Subset, FS_CardinalityType
<1> DEFINE P == {c \in Nat : \A T \in SUBSET (1..n) :
                   Cardinality(T) = c => \E p \in [1..c -> T] : Rising(p)}
<1>1. 0 \in P
  <2>1. [j \in 1..0 |-> j] \in [1..0 -> {}] /\ Rising([j \in 1..0 |-> j])
    BY DEF Rising
  <2>2. \A T \in SUBSET (1..n) : Cardinality(T) = 0 => T = {}
    BY <1>0, FS_EmptySet
  <2> QED
    BY <2>1, <2>2
<1>2. ASSUME NEW c \in Nat, c \in P PROVE c + 1 \in P
  <2> SUFFICES ASSUME NEW T \in SUBSET (1..n), Cardinality(T) = c + 1
               PROVE  \E p \in [1..(c + 1) -> T] : Rising(p)
    OBVIOUS
  <2>1. T # {}
    BY FS_EmptySet
  <2>2. PICK x \in T : \A y \in T : y <= x
    BY <2>1, GreatestOf
  <2>3. Cardinality(T \ {x}) = c
    <3>1. IsFiniteSet(T)
      BY <1>0
    <3>2. Cardinality(T \ {x}) = Cardinality(T) - 1
      BY <2>2, <3>1, FS_RemoveElement
    <3> QED
      BY <3>2
  <2>4. PICK p \in [1..c -> T \ {x}] : Rising(p)
    BY <1>2, <2>3
  <2> DEFINE q == [j \in 1..(c + 1) |-> IF j = c + 1 THEN x ELSE p[j]]
  <2>5. q \in [1..(c + 1) -> T]
    BY <2>4
  <2>6. ASSUME NEW j \in 1..(c + 1), NEW k \in 1..(c + 1), j < k PROVE q[j] < q[k]
    <3>1. j \in 1..c /\ q[j] = p[j] /\ p[j] \in T \ {x}
      BY <2>4, <2>6
    <3>2. CASE k = c + 1
      <4>1. q[k] = x
        BY <3>2
      <4>2. p[j] <= x /\ p[j] # x /\ p[j] \in Nat /\ x \in Nat
        <5>1. T \subseteq Nat
          OBVIOUS
        <5> QED
          BY <2>2, <3>1, <5>1
      <4> QED
        BY <3>1, <4>1, <4>2
    <3>3. CASE k # c + 1
      <4>1. k \in 1..c /\ q[k] = p[k]
        BY <3>3
      <4> QED
        BY <2>4, <2>6, <3>1, <4>1 DEF Rising
    <3> QED
      BY <3>2, <3>3
  <2>7. Rising(q)
    BY <2>6 DEF Rising
  <2> QED
    BY <2>5, <2>7
<1>3. Cardinality(S) \in P
  BY <1>0, <1>1, <1>2, Induction
<1> QED
  BY <1>0, <1>3

LEMMA NamesOf ==
    ASSUME NEW S, NEW list \in Seq(S)
    PROVE  /\ Names(list) \subseteq S
           /\ list \in Seq(Names(list)) /\ list \in [1..Len(list) -> Names(list)]
           /\ DOMAIN list = 1..Len(list) /\ Len(list) \in Nat
           /\ Names(list) = {list[i] : i \in 1..Len(list)}
BY DEF Names, ToSet

LEMMA InOrderIs ==
    ASSUME NEW ids, ids \in Seq(Names(ids)), IsInjective(ids), NEW S
    PROVE  /\ InOrder(ids, S) \in Seq(Names(ids))
           /\ Names(InOrder(ids, S)) = Names(ids) \cap S
           /\ IsInjective(InOrder(ids, S))
<1> DEFINE places == {i \in DOMAIN ids : ids[i] \in S}
           c == Cardinality(places)
           rising == CHOOSE p \in [1..c -> places] :
                        \A j, k \in DOMAIN p : j < k => p[j] < p[k]
<1>1. DOMAIN ids = 1..Len(ids) /\ Len(ids) \in Nat
  BY NamesOf
<1>2. /\ IsFiniteSet(places) /\ c \in Nat
      /\ \E p \in [1..c -> places] : Rising(p)
  BY <1>1, RisingExists
<1>3. rising \in [1..c -> places] /\ \A j, k \in 1..c : j < k => rising[j] < rising[k]
  BY <1>2 DEF Rising
<1>4. InOrder(ids, S) = [k \in 1..c |-> ids[rising[k]]]
  BY <1>3 DEF InOrder
<1> HIDE DEF rising
<1>5. \A j, k \in 1..c : rising[j] = rising[k] => j = k
  <2>1. \A j \in 1..c : rising[j] \in Nat
    BY <1>1, <1>3
  <2> QED
    BY <1>2, <1>3, <2>1
<1>6. \A i \in places : \E k \in 1..c : rising[k] = i
  <2>1. rising \in Injection(1..c, places)
    BY <1>3, <1>5 DEF Injection, IsInjective
  <2>2. Cardinality(1..c) = c /\ IsFiniteSet(1..c)
    BY <1>2, FS_Interval
  <2>3. rising \in Surjection(1..c, places)
    BY <1>2, <2>1, <2>2, FS_Injection
  <2> QED
    BY <2>3 DEF Surjection
<1> DEFINE q == InOrder(ids, S)
<1>7. q \in [1..c -> Names(ids)] /\ \A k \in 1..c : q[k] = ids[rising[k]]
  BY <1>3, <1>4 DEF Names, ToSet
<1>8. \A x \in Names(ids) \cap S : \E k \in 1..c : q[k] = x
  <2> SUFFICES ASSUME NEW x \in Names(ids) \cap S PROVE \E k \in 1..c : q[k] = x
    OBVIOUS
  <2>1. PICK i \in DOMAIN ids : ids[i] = x
    BY DEF Names, ToSet
  <2>2. PICK k \in 1..c : rising[k] = i
    BY <1>6, <2>1
  <2> QED
    BY <1>7, <2>1, <2>2
<1>9. \A k \in 1..c : q[k] \in S
  BY <1>3, <1>7
<1>10. IsInjective(q)
  BY <1>3, <1>5, <1>7 DEF IsInjective
<1> HIDE DEF q, places
<1>11. q \in Seq(Names(ids)) /\ DOMAIN q = 1..c
  BY <1>2, <1>7
<1> QED
  BY <1>7, <1>8, <1>9, <1>10, <1>11 DEF Names, ToSet, q

---------------------------------------------------------------------------
(* get_execution_order.                                                    *)

\* What validate lets through: lists of nodes for the nodes.
GraphOf(ids, g) ==
    /\ ids \in Seq(Names(ids)) /\ IsInjective(ids)
    /\ g \in [Names(ids) -> Seq(Names(ids))]

LEMMA FirstTurnTyped ==
    ASSUME NEW ids, NEW g, GraphOf(ids, g)
    PROVE  /\ FirstTurn(ids, g) \in LoopStates(ids)
           /\ FirstTurn(ids, g).result = <<>>
           /\ \A m \in Names(ids) : FirstTurn(ids, g).in_degree[m] = Len(g[m])
           /\ Names(FirstTurn(ids, g).queue) = {m \in Names(ids) : Len(g[m]) = 0}
           /\ IsInjective(FirstTurn(ids, g).queue)
<1> DEFINE degree == InDegree(ids, g)
           zero == {n \in DOMAIN g : degree[n] = 0}
<1>1. ASSUME NEW m \in Names(ids) PROVE degree[m] = Len(g[m]) /\ Len(g[m]) \in Nat
  <2>1. g[m] \in Seq(Names(ids)) /\ DOMAIN g[m] = 1..Len(g[m]) /\ Len(g[m]) \in Nat
    BY DEF GraphOf
  <2>2. {i \in DOMAIN g[m] : g[m][i] \in Names(ids)} = 1..Len(g[m])
    BY <2>1
  <2>3. Cardinality(1..Len(g[m])) = Len(g[m])
    BY <2>1, FS_Interval
  <2> QED
    BY <2>1, <2>2, <2>3 DEF InDegree, GraphOf
<1>2. degree \in [Names(ids) -> Int]
  <2>1. degree = [n \in Names(ids) |->
                    Cardinality({i \in DOMAIN g[n] : g[n][i] \in Names(ids)})]
    BY DEF InDegree, GraphOf
  <2>2. \A n \in Names(ids) :
          Cardinality({i \in DOMAIN g[n] : g[n][i] \in Names(ids)}) = degree[n]
    BY <2>1
  <2> HIDE DEF degree
  <2>3. \A n \in Names(ids) : degree[n] \in Int
    BY <1>1
  <2> QED
    BY <2>1, <2>2, <2>3
<1> HIDE DEF degree
<1>3. /\ InOrder(ids, zero) \in Seq(Names(ids)) /\ Names(InOrder(ids, zero)) = Names(ids) \cap zero
      /\ IsInjective(InOrder(ids, zero))
  BY InOrderIs DEF GraphOf
<1>4. FirstTurn(ids, g) = [in_degree |-> degree, queue |-> InOrder(ids, zero), result |-> <<>>]
  BY DEF FirstTurn, degree
<1>5. Names(ids) \cap zero = {m \in Names(ids) : Len(g[m]) = 0}
  BY <1>1 DEF GraphOf
<1> HIDE DEF zero
<1> QED
  BY <1>1, <1>2, <1>3, <1>4, <1>5 DEF LoopStates

\* The nodes that a turn frees.
Freed(g, s) ==
    {m \in DOMAIN g : Head(s.queue) \in Names(g[m]) /\ s.in_degree[m] - 1 = 0}

LEMMA PopIs ==
    ASSUME NEW ids, NEW g, GraphOf(ids, g), NEW s \in LoopStates(ids), s.queue # <<>>
    PROVE  /\ Pop(ids, g, s) \in LoopStates(ids)
           /\ Pop(ids, g, s).result = Append(s.result, Head(s.queue))
           /\ Pop(ids, g, s).queue = Tail(s.queue) \o InOrder(ids, Freed(g, s))
           /\ \A m \in Names(ids) : Pop(ids, g, s).in_degree[m] =
                 IF Head(s.queue) \in Names(g[m]) THEN s.in_degree[m] - 1 ELSE s.in_degree[m]
<1> DEFINE n == Head(s.queue)
           degree == [m \in DOMAIN g |->
                        IF n \in Names(g[m]) THEN s.in_degree[m] - 1 ELSE s.in_degree[m]]
           freed == {m \in DOMAIN g : n \in Names(g[m]) /\ degree[m] = 0}
<1>1. Pop(ids, g, s) = [in_degree |-> degree, queue |-> Tail(s.queue) \o InOrder(ids, freed),
                        result |-> Append(s.result, n)]
  BY DEF Pop
<1>2. freed = Freed(g, s)
  BY DEF Freed
<1>3. degree \in [Names(ids) -> Int]
  BY DEF LoopStates, GraphOf
<1>4. InOrder(ids, Freed(g, s)) \in Seq(Names(ids))
  BY InOrderIs DEF GraphOf
<1>5. /\ Tail(s.queue) \o InOrder(ids, Freed(g, s)) \in Seq(Names(ids))
      /\ Append(s.result, n) \in Seq(Names(ids))
  BY <1>4 DEF LoopStates
<1>6. \A m \in Names(ids) :
        degree[m] = IF Head(s.queue) \in Names(g[m]) THEN s.in_degree[m] - 1 ELSE s.in_degree[m]
  BY DEF GraphOf
<1> HIDE DEF degree, freed, n
<1> QED
  BY <1>1, <1>2, <1>3, <1>5, <1>6 DEF LoopStates, n

\* The turns are taken one after the other.
LEMMA TurnsAre ==
    ASSUME NEW ids, NEW g, GraphOf(ids, g)
    PROVE  /\ Turns(ids, g) \in [Nat -> LoopStates(ids)]
           /\ Turns(ids, g)[0] = FirstTurn(ids, g)
           /\ \A k \in Nat : Turns(ids, g)[k + 1] =
                 IF Turns(ids, g)[k].queue = <<>> THEN Turns(ids, g)[k]
                 ELSE Pop(ids, g, Turns(ids, g)[k])
<1> DEFINE R == LoopStates(ids)
           step == [q \in Nat \X R |-> Turn(ids, g)[q[2]]]
           Equation(f) == f = [k \in Nat |-> IF k = 0 THEN FirstTurn(ids, g)
                                             ELSE Turn(ids, g)[f[k - 1]]]
<1>0. ASSUME NEW s \in R
      PROVE  /\ Turn(ids, g)[s] = IF s.queue = <<>> THEN s ELSE Pop(ids, g, s)
             /\ Turn(ids, g)[s] \in R
  BY PopIs DEF Turn
<1>1. step \in [Nat \X R -> R]
  <2> HIDE DEF R
  <2> QED
    BY <1>0
<1>2. FirstTurn(ids, g) \in R
  BY FirstTurnTyped
<1>3. PICK f \in [Nat -> R] : Recursive(f, FirstTurn(ids, g), step)
  <2> HIDE DEF step, R
  <2> QED
    BY <1>1, <1>2, Recursion
<1>4. \A k \in Nat \ {0} : f[k] = Turn(ids, g)[f[k - 1]]
  <2> TAKE k \in Nat \ {0}
  <2>1. k - 1 \in Nat /\ f[k - 1] \in R
    OBVIOUS
  <2>2. f[k] = step[<<k, f[k - 1]>>]
    BY <1>3 DEF Recursive
  <2> HIDE DEF R
  <2> QED
    BY <2>1, <2>2
<1>5. Equation(f)
  BY <1>3, <1>4 DEF Recursive
<1>6. Turns(ids, g) = CHOOSE h : Equation(h)
  BY DEF Turns
<1>7. Equation(Turns(ids, g))
  <2> HIDE DEF Equation
  <2> QED
    BY <1>5, <1>6
<1> DEFINE T == Turns(ids, g)
<1>8. T[0] = FirstTurn(ids, g)
  BY <1>7
<1>9. \A k \in Nat : T[k + 1] = Turn(ids, g)[T[k]]
  <2> TAKE k \in Nat
  <2>1. k + 1 \in Nat /\ k + 1 # 0 /\ (k + 1) - 1 = k
    OBVIOUS
  <2> QED
    BY <1>7, <2>1
<1>10. DOMAIN T = Nat
  BY <1>7
<1>11. T = [k \in Nat |-> T[k]]
  BY <1>7
<1> HIDE DEF T
<1>12. \A k \in Nat : T[k] \in R
  <2> DEFINE P == {k \in Nat : T[k] \in R}
  <2>1. 0 \in P
    BY <1>2, <1>8
  <2>2. ASSUME NEW k \in Nat, k \in P PROVE k + 1 \in P
    BY <1>0, <1>9, <2>2
  <2> QED
    BY <2>1, <2>2, Induction
<1>13. T \in [Nat -> R]
  <2> HIDE DEF R
  <2> QED
    BY <1>11, <1>12
<1>14. \A k \in Nat : T[k + 1] = IF T[k].queue = <<>> THEN T[k] ELSE Pop(ids, g, T[k])
  <2> HIDE DEF R
  <2> QED
    BY <1>0, <1>9, <1>12
<1> QED
  BY <1>8, <1>13, <1>14 DEF T

\* A list of nodes as long as the number of its names in R names none twice
\* and none outside R.
LEMMA Counting ==
    ASSUME NEW S, NEW list \in Seq(S), NEW R
    PROVE  /\ IsFiniteSet(Names(list) \cap R) /\ Cardinality(Names(list) \cap R) \in Nat
           /\ Cardinality(Names(list) \cap R) <= Len(list)
           /\ Cardinality(Names(list) \cap R) = Len(list)
                <=> IsInjective(list) /\ Names(list) \subseteq R
<1> DEFINE D == 1..Len(list)
           N == Names(list)
<1>1. IsFiniteSet(D) /\ Cardinality(D) = Len(list) /\ Len(list) \in Nat
  <2>1. Len(list) \in Nat /\ 1 \in Int
    OBVIOUS
  <2>2. IsFiniteSet(D) /\ Cardinality(D) = IF 1 > Len(list) THEN 0 ELSE Len(list) - 1 + 1
    BY <2>1, FS_Interval
  <2> QED
    BY <2>1, <2>2
<1>2. list \in Surjection(D, N)
  BY NamesOf DEF Surjection
<1>3. /\ IsFiniteSet(N) /\ Cardinality(N) <= Len(list)
      /\ Cardinality(N) = Len(list) <=> list \in Injection(D, N)
  BY <1>1, <1>2, FS_Surjection
<1>4. list \in Injection(D, N) <=> IsInjective(list)
  BY NamesOf DEF Injection, IsInjective
<1>5. /\ IsFiniteSet(N \cap R) /\ Cardinality(N \cap R) <= Cardinality(N)
      /\ Cardinality(N \cap R) = Cardinality(N) => N \subseteq R
  BY <1>3, FS_Subset
<1>6. Cardinality(N) \in Nat /\ Cardinality(N \cap R) \in Nat
  BY <1>3, <1>5, FS_CardinalityType
<1>7. N \subseteq R => N \cap R = N
  OBVIOUS
<1> HIDE DEF N, D
<1>8. Cardinality(N \cap R) <= Len(list)
  BY <1>1, <1>3, <1>5, <1>6
<1>9. Cardinality(N \cap R) = Len(list) <=> Cardinality(N \cap R) = Cardinality(N) /\ Cardinality(N) = Len(list)
  BY <1>1, <1>3, <1>5, <1>6
<1>10. Cardinality(N \cap R) = Cardinality(N) <=> N \subseteq R
  BY <1>5, <1>7
<1> QED
  BY <1>3, <1>4, <1>5, <1>6, <1>8, <1>9, <1>10 DEF N

\* Between two turns no node is in the order or the queue twice, the
\* in-degrees count the names yet to be put into the order, nodes are taken
\* up exactly when none is left, and each comes behind its dependencies.
Kahn(ids, g, s) ==
    /\ IsInjective(s.result) /\ IsInjective(s.queue)
    /\ Names(s.result) \cap Names(s.queue) = {}
    /\ \A m \in Names(ids) :
          /\ s.in_degree[m] = Len(g[m]) - Cardinality(Names(g[m]) \cap Names(s.result))
          /\ m \in Names(s.result) \cup Names(s.queue) <=> s.in_degree[m] = 0
    /\ \A i \in DOMAIN s.result : Names(g[s.result[i]]) \subseteq {s.result[j] : j \in 1..(i - 1)}

LEMMA FirstTurnKahn ==
    ASSUME NEW ids, NEW g, GraphOf(ids, g)
    PROVE  Kahn(ids, g, FirstTurn(ids, g))
<1> DEFINE s == FirstTurn(ids, g)
<1>1. s.result = <<>> /\ Names(s.result) = {}
  BY FirstTurnTyped DEF Names, ToSet
<1>2. \A m \in Names(ids) : Cardinality(Names(g[m]) \cap Names(s.result)) = 0
  BY <1>1, FS_EmptySet
<1>3. \A m \in Names(ids) : Len(g[m]) \in Nat
  BY DEF GraphOf
<1>4. /\ \A m \in Names(ids) : s.in_degree[m] = Len(g[m])
      /\ Names(s.queue) = {m \in Names(ids) : Len(g[m]) = 0}
      /\ IsInjective(s.queue)
  BY FirstTurnTyped
<1>5. IsInjective(s.result) /\ DOMAIN s.result = {}
  BY <1>1 DEF IsInjective
<1> HIDE DEF s
<1>6. Kahn(ids, g, s)
  BY <1>1, <1>2, <1>3, <1>4, <1>5 DEF Kahn
<1> QED
  BY <1>6 DEF s

\* Lists put behind each other.
LEMMA Concatenated ==
    ASSUME NEW S, NEW p \in Seq(S), NEW q \in Seq(S)
    PROVE  /\ Names(p \o q) = Names(p) \cup Names(q)
           /\ IsInjective(p) /\ IsInjective(q) /\ Names(p) \cap Names(q) = {} => IsInjective(p \o q)
<1> DEFINE r == p \o q
<1>1. /\ DOMAIN r = 1..(Len(p) + Len(q)) /\ Len(p) \in Nat /\ Len(q) \in Nat
      /\ \A i \in 1..Len(p) : r[i] = p[i]
      /\ \A i \in 1..Len(q) : r[Len(p) + i] = q[i]
      /\ DOMAIN p = 1..Len(p) /\ DOMAIN q = 1..Len(q)
  OBVIOUS
<1>2. \A i \in DOMAIN r : i \in 1..Len(p) \/ \E j \in 1..Len(q) : i = Len(p) + j
  <2> SUFFICES ASSUME NEW i \in DOMAIN r, i \notin 1..Len(p) PROVE \E j \in 1..Len(q) : i = Len(p) + j
    OBVIOUS
  <2>1. i - Len(p) \in 1..Len(q) /\ i = Len(p) + (i - Len(p))
    BY <1>1
  <2> QED
    BY <2>1
<1>3. \A i \in 1..Len(p) : i \in DOMAIN r
  BY <1>1
<1>4. \A i \in 1..Len(q) : Len(p) + i \in DOMAIN r
  BY <1>1
<1> HIDE DEF r
<1>5. Names(r) = Names(p) \cup Names(q)
  <2>1. ASSUME NEW i \in DOMAIN r PROVE r[i] \in Names(p) \cup Names(q)
    BY <1>1, <1>2, <2>1 DEF Names, ToSet
  <2>2. Names(p) \subseteq Names(r)
    BY <1>1, <1>3 DEF Names, ToSet
  <2>3. Names(q) \subseteq Names(r)
    BY <1>1, <1>4 DEF Names, ToSet
  <2>4. Names(r) \subseteq Names(p) \cup Names(q)
    BY <2>1 DEF Names, ToSet
  <2> QED
    BY <2>2, <2>3, <2>4
<1>6. ASSUME IsInjective(p), IsInjective(q), Names(p) \cap Names(q) = {},
             NEW i \in DOMAIN r, NEW j \in DOMAIN r, r[i] = r[j]
      PROVE  i = j
  <2>1. \A a \in 1..Len(p), b \in 1..Len(q) : p[a] # q[b]
    BY <1>1, <1>6 DEF Names, ToSet
  <2>2. CASE i \in 1..Len(p) /\ j \in 1..Len(p)
    BY <1>1, <1>6, <2>2 DEF IsInjective
  <2>3. CASE i \in 1..Len(p) /\ j \notin 1..Len(p)
    BY <1>1, <1>2, <1>6, <2>1, <2>3
  <2>4. CASE i \notin 1..Len(p) /\ j \in 1..Len(p)
    BY <1>1, <1>2, <1>6, <2>1, <2>4
  <2>5. CASE i \notin 1..Len(p) /\ j \notin 1..Len(p)
    <3>1. PICK a \in 1..Len(q), b \in 1..Len(q) : i = Len(p) + a /\ j = Len(p) + b
      BY <1>2, <2>5
    <3> QED
      BY <1>1, <1>6, <3>1 DEF IsInjective
  <2> QED
    BY <2>2, <2>3, <2>4, <2>5
<1> QED
  BY <1>5, <1>6 DEF IsInjective, r

LEMMA HeadAndTail ==
    ASSUME NEW S, NEW q \in Seq(S), q # <<>>
    PROVE  /\ Head(q) \in S /\ Tail(q) \in Seq(S)
           /\ Names(q) = {Head(q)} \cup Names(Tail(q))
           /\ IsInjective(q) => IsInjective(Tail(q)) /\ Head(q) \notin Names(Tail(q))
<1>1. /\ Head(q) = q[1] /\ Len(q) \in Nat /\ Len(q) >= 1 /\ DOMAIN q = 1..Len(q)
      /\ DOMAIN Tail(q) = 1..(Len(q) - 1)
      /\ \A i \in 1..(Len(q) - 1) : Tail(q)[i] = q[i + 1]
      /\ Head(q) \in S /\ Tail(q) \in Seq(S)
  OBVIOUS
<1>2. \A i \in DOMAIN q : i = 1 \/ \E j \in 1..(Len(q) - 1) : i = j + 1
  <2> SUFFICES ASSUME NEW i \in DOMAIN q, i # 1 PROVE \E j \in 1..(Len(q) - 1) : i = j + 1
    OBVIOUS
  <2>1. i - 1 \in 1..(Len(q) - 1) /\ i = (i - 1) + 1
    BY <1>1
  <2> QED
    BY <2>1
<1>3. 1 \in DOMAIN q /\ \A j \in 1..(Len(q) - 1) : j + 1 \in DOMAIN q /\ j + 1 # 1
  BY <1>1
<1>4. Names(q) = {Head(q)} \cup Names(Tail(q))
  <2> DEFINE t == Tail(q)
             h == Head(q)
  <2>1. /\ \A i \in 1..(Len(q) - 1) : t[i] = q[i + 1]
        /\ DOMAIN t = 1..(Len(q) - 1) /\ h = q[1]
    BY <1>1
  <2> HIDE DEF t, h
  <2>2. ASSUME NEW i \in DOMAIN q PROVE q[i] \in {h} \cup Names(t)
    <3>1. CASE i = 1
      BY <2>1, <3>1
    <3>2. CASE i # 1
      <4>1. PICK j \in 1..(Len(q) - 1) : i = j + 1
        BY <1>2, <3>2
      <4>2. t[j] = q[i] /\ j \in DOMAIN t
        BY <2>1, <4>1
      <4> QED
        BY <4>2 DEF Names, ToSet
    <3> QED
      BY <3>1, <3>2
  <2>3. Names(t) \subseteq Names(q)
    BY <1>3, <2>1 DEF Names, ToSet
  <2>4. h \in Names(q) /\ Names(q) \subseteq {h} \cup Names(t)
    BY <1>3, <2>1, <2>2 DEF Names, ToSet
  <2> QED
    BY <2>3, <2>4 DEF t, h
<1>5. IsInjective(q) => IsInjective(Tail(q)) /\ Head(q) \notin Names(Tail(q))
  BY <1>1, <1>3 DEF Names, ToSet, IsInjective
<1> QED
  BY <1>1, <1>4, <1>5

\* A turn keeps what is so between turns.
LEMMA PopKahn ==
    ASSUME NEW ids, NEW g, GraphOf(ids, g), NEW s \in LoopStates(ids), s.queue # <<>>,
           Kahn(ids, g, s)
    PROVE  /\ Kahn(ids, g, Pop(ids, g, s))
           /\ Len(Pop(ids, g, s).result) = Len(s.result) + 1
<1> DEFINE N == Names(ids)
           R == Names(s.result)
           Q == Names(s.queue)
           n == Head(s.queue)
           rest == Tail(s.queue)
           new == InOrder(ids, Freed(g, s))
           t == Pop(ids, g, s)
<1>1. /\ s.result \in Seq(N) /\ s.queue \in Seq(N)
      /\ \A m \in N : s.in_degree[m] \in Int
  BY DEF LoopStates
<1>2. /\ n \in N /\ rest \in Seq(N) /\ Q = {n} \cup Names(rest)
      /\ IsInjective(rest) /\ n \notin Names(rest)
  BY <1>1, HeadAndTail DEF Kahn
<1>3. /\ t.result = Append(s.result, n)
      /\ t.queue = rest \o new
      /\ \A m \in N : t.in_degree[m] =
            IF n \in Names(g[m]) THEN s.in_degree[m] - 1 ELSE s.in_degree[m]
  BY PopIs
<1>4. new \in Seq(N) /\ Names(new) = N \cap Freed(g, s) /\ IsInjective(new)
  BY InOrderIs DEF GraphOf
<1>5. Freed(g, s) = {m \in N : n \in Names(g[m]) /\ s.in_degree[m] - 1 = 0}
  BY DEF Freed, GraphOf
<1> HIDE DEF new
<1>6. /\ IsInjective(s.result) /\ R \cap Q = {}
      /\ \A m \in N : /\ s.in_degree[m] = Len(g[m]) - Cardinality(Names(g[m]) \cap R)
                      /\ m \in R \cup Q <=> s.in_degree[m] = 0
      /\ \A i \in DOMAIN s.result : Names(g[s.result[i]]) \subseteq {s.result[j] : j \in 1..(i - 1)}
  BY DEF Kahn
<1>7. \A m \in N : g[m] \in Seq(N) /\ Len(g[m]) \in Nat
  BY DEF GraphOf
<1>8. n \notin R /\ n \in Q
  BY <1>2, <1>6
<1>9. /\ Names(t.result) = R \cup {n} /\ IsInjective(t.result)
      /\ Len(t.result) = Len(s.result) + 1 /\ Len(s.result) \in Nat
      /\ t.result[Len(s.result) + 1] = n
      /\ \A i \in 1..Len(s.result) : t.result[i] = s.result[i]
      /\ DOMAIN t.result = 1..(Len(s.result) + 1) /\ DOMAIN s.result = 1..Len(s.result)
  <2>1. /\ <<n>> \in Seq(N) /\ Names(<<n>>) = {n} /\ IsInjective(<<n>>)
        /\ Append(s.result, n) = s.result \o <<n>>
    BY <1>1, <1>2 DEF Names, ToSet, IsInjective
  <2>2. /\ Names(s.result \o <<n>>) = R \cup Names(<<n>>)
        /\ R \cap Names(<<n>>) = {} => IsInjective(s.result \o <<n>>)
    <3>1. s.result \in Seq(N) /\ <<n>> \in Seq(N) /\ IsInjective(s.result) /\ IsInjective(<<n>>)
      BY <1>1, <1>6, <2>1
    <3> DEFINE one == <<n>>
    <3> HIDE DEF N, n, one
    <3>2. /\ Names(s.result \o one) = Names(s.result) \cup Names(one)
          /\ Names(s.result) \cap Names(one) = {} => IsInjective(s.result \o one)
      BY <3>1, Concatenated DEF one
    <3> QED
      BY <3>2 DEF one
  <2> QED
    <3>1. t.result = s.result \o <<n>> /\ R \cap Names(<<n>>) = {}
      BY <1>3, <1>8, <2>1
    <3> HIDE DEF t, n, R
    <3>2. Names(t.result) = R \cup {n} /\ IsInjective(t.result)
      BY <2>1, <2>2, <3>1
    <3>3. /\ Len(Append(s.result, n)) = Len(s.result) + 1 /\ Len(s.result) \in Nat
          /\ Append(s.result, n)[Len(s.result) + 1] = n
          /\ \A i \in 1..Len(s.result) : Append(s.result, n)[i] = s.result[i]
          /\ DOMAIN Append(s.result, n) = 1..(Len(s.result) + 1) /\ DOMAIN s.result = 1..Len(s.result)
      BY <1>1, <1>2
    <3> QED
      BY <1>3, <3>2, <3>3
\* The in-degrees.
<1>10. ASSUME NEW m \in N
       PROVE  /\ IsFiniteSet(Names(g[m]) \cap R)
              /\ Cardinality(Names(g[m]) \cap R) \in Nat
              /\ Cardinality(Names(g[m]) \cap (R \cup {n})) =
                    IF n \in Names(g[m]) THEN Cardinality(Names(g[m]) \cap R) + 1
                    ELSE Cardinality(Names(g[m]) \cap R)
  <2>1. IsFiniteSet(Names(g[m]) \cap R) /\ Cardinality(Names(g[m]) \cap R) \in Nat
    BY <1>7, Counting
  <2>2. CASE n \in Names(g[m])
    <3>1. Names(g[m]) \cap (R \cup {n}) = (Names(g[m]) \cap R) \cup {n}
      BY <2>2
    <3>2. n \notin Names(g[m]) \cap R
      BY <1>8
    <3> QED
      BY <2>1, <2>2, <3>1, <3>2, FS_AddElement
  <2>3. CASE n \notin Names(g[m])
    <3>1. Names(g[m]) \cap (R \cup {n}) = Names(g[m]) \cap R
      BY <2>3
    <3> QED
      BY <2>1, <2>3, <3>1
  <2> QED
    BY <2>2, <2>3
<1>11. ASSUME NEW m \in N
       PROVE t.in_degree[m] = Len(g[m]) - Cardinality(Names(g[m]) \cap Names(t.result))
  <2> DEFINE c == Cardinality(Names(g[m]) \cap R)
             l == Len(g[m])
             d == s.in_degree[m]
  <2>1. /\ d = l - c /\ l \in Nat /\ c \in Nat
        /\ Names(g[m]) \cap Names(t.result) = Names(g[m]) \cap (R \cup {n})
    BY <1>6, <1>7, <1>9, <1>10
  <2>2. Cardinality(Names(g[m]) \cap Names(t.result)) = IF n \in Names(g[m]) THEN c + 1 ELSE c
    BY <1>10, <2>1
  <2>3. t.in_degree[m] = IF n \in Names(g[m]) THEN d - 1 ELSE d
    BY <1>3
  <2> HIDE DEF t, c, l, d, n
  <2>4. t.in_degree[m] = l - Cardinality(Names(g[m]) \cap Names(t.result))
    BY <2>1, <2>2, <2>3
  <2> QED
    BY <2>4 DEF l
<1>12. ASSUME NEW m \in N PROVE t.in_degree[m] >= 0
  <2>1. /\ Cardinality(Names(g[m]) \cap Names(t.result)) \in Nat
        /\ Cardinality(Names(g[m]) \cap Names(t.result)) <= Len(g[m])
    BY <1>7, <1>12, Counting
  <2>2. t.in_degree[m] = Len(g[m]) - Cardinality(Names(g[m]) \cap Names(t.result))
    BY <1>11
  <2>3. Len(g[m]) \in Nat
    BY <1>7
  <2> HIDE DEF t
  <2> QED
    BY <2>1, <2>2, <2>3
\* The queue.
<1>13. ASSUME NEW m \in Freed(g, s) PROVE m \in N /\ m \notin R \cup Q
  <2>1. m \in N /\ s.in_degree[m] - 1 = 0 /\ s.in_degree[m] \in Int
    BY <1>1, <1>5, <1>13
  <2>2. s.in_degree[m] # 0
    BY <2>1
  <2> QED
    BY <1>6, <2>1, <2>2
<1>14. Names(t.queue) = Names(rest) \cup Freed(g, s) /\ IsInjective(t.queue)
  <2>1. Names(new) = Freed(g, s)
    BY <1>4, <1>5
  <2>2. Names(rest) \cap Names(new) = {}
    BY <1>2, <1>13, <2>1
  <2> QED
    <3>1. /\ Names(rest \o new) = Names(rest) \cup Names(new)
          /\ IsInjective(rest \o new)
      <4> HIDE DEF rest
      <4> QED
        BY <1>2, <1>4, <2>2, Concatenated
    <3> QED
      BY <1>3, <2>1, <3>1
<1>15. Names(t.result) \cap Names(t.queue) = {}
  BY <1>2, <1>6, <1>8, <1>9, <1>13, <1>14
<1>16. ASSUME NEW m \in N
       PROVE m \in Names(t.result) \cup Names(t.queue) <=> t.in_degree[m] = 0
  <2>1. m \in Names(t.result) \cup Names(t.queue) <=> m \in R \cup Q \cup Freed(g, s)
    BY <1>2, <1>9, <1>14
  <2>2. m \in R \cup Q => s.in_degree[m] = 0
    BY <1>6
  <2>3. m \in R \cup Q => t.in_degree[m] = 0
    <3> HIDE DEF t, R, Q
    <3> QED
      BY <1>1, <1>3, <1>12, <2>2
  <2>4. m \in Freed(g, s) => t.in_degree[m] = 0
    BY <1>3, <1>5
  <2>5. t.in_degree[m] = 0 => m \in R \cup Q \cup Freed(g, s)
    BY <1>3, <1>5, <1>6
  <2> QED
    BY <2>1, <2>3, <2>4, <2>5
\* What is behind its dependencies.
<1>17. Names(g[n]) \subseteq R
  <2>1. s.in_degree[n] = 0
    BY <1>2, <1>6, <1>8
  <2>2. Cardinality(Names(g[n]) \cap R) = Len(g[n])
    <3>1. 0 = Len(g[n]) - Cardinality(Names(g[n]) \cap R)
      BY <1>2, <1>6, <2>1
    <3>2. Len(g[n]) \in Nat /\ Cardinality(Names(g[n]) \cap R) \in Nat
      BY <1>2, <1>7, <1>10
    <3> QED
      BY <3>1, <3>2
  <2> QED
    BY <1>2, <1>7, <2>2, Counting
<1>18. ASSUME NEW i \in DOMAIN t.result
       PROVE  Names(g[t.result[i]]) \subseteq {t.result[j] : j \in 1..(i - 1)}
  <2>1. R = {s.result[j] : j \in 1..Len(s.result)}
    BY <1>9 DEF Names, ToSet
  <2> HIDE DEF t, R, n
  <2>2. CASE i = Len(s.result) + 1
    <3>1. {t.result[j] : j \in 1..(i - 1)} = R
      BY <1>9, <2>1, <2>2
    <3> QED
      BY <1>9, <1>17, <2>2, <3>1
  <2>3. CASE i # Len(s.result) + 1
    <3>1. i \in DOMAIN s.result /\ t.result[i] = s.result[i]
      BY <1>9, <2>3
    <3>2. \A j \in 1..(i - 1) : t.result[j] = s.result[j]
      BY <1>9, <3>1
    <3>3. {t.result[j] : j \in 1..(i - 1)} = {s.result[j] : j \in 1..(i - 1)}
      BY <3>2
    <3> QED
      BY <1>6, <3>1, <3>3
  <2> QED
    BY <2>2, <2>3
<1> HIDE DEF t
<1>19. Kahn(ids, g, t)
  BY <1>9, <1>11, <1>14, <1>15, <1>16, <1>18 DEF Kahn
<1> QED
  BY <1>9, <1>19 DEF t

LEMMA TurnsKahn ==
    ASSUME NEW ids, NEW g, GraphOf(ids, g), NEW k \in Nat
    PROVE  /\ Turns(ids, g)[k] \in LoopStates(ids)
           /\ Kahn(ids, g, Turns(ids, g)[k])
           /\ Len(Turns(ids, g)[k].result) = k \/ Turns(ids, g)[k].queue = <<>>
<1> DEFINE T == Turns(ids, g)
           P == {i \in Nat : Kahn(ids, g, T[i]) /\ (Len(T[i].result) = i \/ T[i].queue = <<>>)}
<1>1. \A i \in Nat : T[i] \in LoopStates(ids)
  BY TurnsAre
<1>2. 0 \in P
  <2>1. T[0] = FirstTurn(ids, g)
    BY TurnsAre
  <2>2. Kahn(ids, g, T[0]) /\ T[0].result = <<>>
    BY <2>1, FirstTurnKahn, FirstTurnTyped
  <2> QED
    BY <2>2
<1>3. ASSUME NEW i \in Nat, i \in P PROVE i + 1 \in P
  <2>1. T[i + 1] = IF T[i].queue = <<>> THEN T[i] ELSE Pop(ids, g, T[i])
    BY TurnsAre
  <2>2. CASE T[i].queue = <<>>
    BY <1>3, <2>1, <2>2
  <2>3. CASE T[i].queue # <<>>
    <3>1. T[i + 1] = Pop(ids, g, T[i])
      BY <2>1, <2>3
    <3>2. Kahn(ids, g, T[i]) /\ Len(T[i].result) = i
      BY <1>3, <2>3
    <3> HIDE DEF T
    <3>3. Kahn(ids, g, T[i + 1]) /\ Len(T[i + 1].result) = i + 1
      BY <1>1, <2>3, <3>1, <3>2, PopKahn
    <3> QED
      BY <3>3
  <2> QED
    BY <2>2, <2>3
<1>4. Nat \subseteq P
  <2> HIDE DEF P
  <2> QED
    BY <1>2, <1>3, Induction
<1> QED
  BY <1>1, <1>4

\* As many turns as there are nodes empty the queue: the order names no node
\* twice and none before its dependencies, and it names those nodes whose
\* list has no repetition and that depend on none but named ones.
LEMMA OrderOf ==
    ASSUME NEW ids, NEW g, GraphOf(ids, g)
    PROVE  LET o == ExecutionOrder(ids, g) IN
           /\ o \in Seq(Names(ids)) /\ IsInjective(o)
           /\ \A m \in Names(ids) :
                 m \in Names(o) <=> IsInjective(g[m]) /\ Names(g[m]) \subseteq Names(o)
           /\ \A i \in DOMAIN o : Names(g[o[i]]) \subseteq {o[j] : j \in 1..(i - 1)}
<1> DEFINE N == Names(ids)
           L == Len(ids)
           s == Turns(ids, g)[L]
           o == s.result
<1>1. ids \in Seq(N) /\ IsInjective(ids) /\ L \in Nat
  BY DEF GraphOf
<1>2. s \in LoopStates(ids) /\ Kahn(ids, g, s) /\ (Len(o) = L \/ s.queue = <<>>)
  BY <1>1, TurnsKahn
<1>3. o \in Seq(N) /\ s.queue \in Seq(N)
  BY <1>2 DEF LoopStates
<1> HIDE DEF s
<1>4. /\ IsInjective(o) /\ Names(o) \cap Names(s.queue) = {}
      /\ \A m \in N :
            /\ s.in_degree[m] = Len(g[m]) - Cardinality(Names(g[m]) \cap Names(o))
            /\ m \in Names(o) \cup Names(s.queue) <=> s.in_degree[m] = 0
      /\ \A i \in DOMAIN o : Names(g[o[i]]) \subseteq {o[j] : j \in 1..(i - 1)}
  BY <1>2 DEF Kahn
<1> HIDE DEF o, N
<1>5. Names(s.queue) = {}
  <2>1. CASE s.queue = <<>>
    BY <2>1 DEF Names, ToSet
  <2>2. CASE Len(o) = L
    <3>1. IsFiniteSet(N) /\ Cardinality(N) = L
      <4>1. IsFiniteSet(N \cap N) /\ (Cardinality(N \cap N) = L <=> IsInjective(ids) /\ N \subseteq N)
        BY <1>1, Counting DEF N
      <4>2. N \cap N = N
        OBVIOUS
      <4> QED
        BY <1>1, <4>1, <4>2
    <3>2. o \in [1..L -> N] /\ DOMAIN o = 1..L
      BY <1>3, <2>2
    <3>3. o \in Injection(1..L, N)
      BY <1>4, <3>2 DEF Injection, IsInjective
    <3>4. IsFiniteSet(1..L) /\ Cardinality(1..L) = L
      BY <1>1, FS_Interval
    <3>5. o \in Surjection(1..L, N)
      BY <3>1, <3>3, <3>4, FS_Injection
    <3>6. N \subseteq Names(o)
      BY <3>2, <3>5 DEF Surjection, Names, ToSet
    <3>7. Names(s.queue) \subseteq N
      BY <1>3, NamesOf
    <3> QED
      BY <1>4, <3>6, <3>7
  <2> QED
    BY <1>2, <2>1, <2>2
<1>6. ASSUME NEW m \in N
      PROVE  m \in Names(o) <=> IsInjective(g[m]) /\ Names(g[m]) \subseteq Names(o)
  <2>1. g[m] \in Seq(N) /\ Len(g[m]) \in Nat
    BY DEF GraphOf, N
  <2>2. /\ Cardinality(Names(g[m]) \cap Names(o)) \in Nat
        /\ Cardinality(Names(g[m]) \cap Names(o)) = Len(g[m])
              <=> IsInjective(g[m]) /\ Names(g[m]) \subseteq Names(o)
    BY <2>1, Counting
  <2>3. /\ m \in Names(o) <=> s.in_degree[m] = 0
        /\ s.in_degree[m] = Len(g[m]) - Cardinality(Names(g[m]) \cap Names(o))
    BY <1>4, <1>5
  <2>4. Len(g[m]) - Cardinality(Names(g[m]) \cap Names(o)) = 0
           <=> Cardinality(Names(g[m]) \cap Names(o)) = Len(g[m])
    BY <2>1, <2>2
  <2> QED
    BY <2>2, <2>3, <2>4
<1>7. ExecutionOrder(ids, g) = o
  BY DEF ExecutionOrder, o, s
<1> QED
  BY <1>3, <1>4, <1>6, <1>7 DEF N

LEMMA AncestorsGrow ==
    ASSUME NEW G, Closed(G), NEW t \in DOMAIN G, NEW d \in G[t]
    PROVE  d \in Ancestors(G, t) /\ Ancestors(G, d) \subseteq Ancestors(G, t)
<1>1. d \in DOMAIN G
  BY DEF Closed
<1>2. ASSUME NEW a \in Ancestors(G, d), NEW S \in SUBSET DOMAIN G,
             G[t] \subseteq S, DownClosed(G, S)
      PROVE  a \in S
  <2>1. G[d] \subseteq S
    BY <1>2 DEF DownClosed
  <2> QED
    BY <1>2, <2>1 DEF Ancestors
<1> QED
  BY <1>1, <1>2 DEF Ancestors

LEMMA AncestorsDown ==
    ASSUME NEW G, Closed(G), NEW t \in DOMAIN G, NEW a \in Ancestors(G, t)
    PROVE  G[a] \subseteq Ancestors(G, t)
<1>1. a \in DOMAIN G /\ G[a] \subseteq DOMAIN G
  BY DEF Ancestors, Closed
<1> SUFFICES ASSUME NEW b \in G[a], NEW S \in SUBSET DOMAIN G, G[t] \subseteq S, DownClosed(G, S)
             PROVE  b \in S
  BY <1>1 DEF Ancestors
<1>2. a \in S
  BY DEF Ancestors
<1> QED
  BY <1>2 DEF DownClosed

\* Of a graph without cycles get_execution_order returns an execution order:
\* no node twice, none before a node it depends on, and none missing but
\* those that rest on a node which names one twice.
THEOREM OrderIsRight ==
    ASSUME NEW ids, NEW g, GraphOf(ids, g), Acyclic(AsGraph(g))
    PROVE  IsExecutionOrder(ExecutionOrder(ids, g), g)
<1> DEFINE G == AsGraph(g)
           N == Names(ids)
           o == ExecutionOrder(ids, g)
           R == Names(o)
           kept == {n \in DOMAIN G : \A m \in {n} \cup Ancestors(G, n) : ~Repeats(g, m)}
<1>1. DOMAIN G = N /\ \A n \in N : G[n] = Names(g[n]) /\ G[n] \subseteq N
  BY NamesOf DEF AsGraph, GraphOf
<1>2. /\ o \in Seq(N) /\ IsInjective(o)
      /\ \A m \in N : m \in R <=> ~Repeats(g, m) /\ G[m] \subseteq R
      /\ \A i \in DOMAIN o : Names(g[o[i]]) \subseteq {o[j] : j \in 1..(i - 1)}
  BY <1>1, OrderOf DEF Repeats
<1>3. R \subseteq N /\ \A i \in DOMAIN o : o[i] \in N
  BY <1>2, NamesOf DEF Names, ToSet
<1>4. Closed(G) /\ Acyclic(G)
  BY <1>1 DEF Closed
<1> HIDE DEF o, G, N
<1>5. R \subseteq kept
  <2> SUFFICES ASSUME NEW n \in R, NEW m \in Ancestors(G, n) PROVE ~Repeats(g, m)
    BY <1>1, <1>2, <1>3
  <2>1. DownClosed(G, R) /\ G[n] \subseteq R
    BY <1>2, <1>3 DEF DownClosed
  <2>2. m \in R
    BY <1>1, <1>3, <2>1 DEF Ancestors
  <2> QED
    BY <1>2, <1>3, <2>2
<1>6. kept \subseteq R
  <2> SUFFICES ASSUME kept \ R # {} PROVE FALSE
    OBVIOUS
  <2>1. PICK t \in kept \ R : G[t] \cap (kept \ R) = {}
    BY <1>4 DEF Acyclic
  <2>2. t \in N /\ ~Repeats(g, t)
    BY <1>1, <2>1
  <2>3. ASSUME NEW d \in G[t] PROVE d \in kept
    <3>1. d \in Ancestors(G, t) /\ Ancestors(G, d) \subseteq Ancestors(G, t) /\ d \in DOMAIN G
      BY <1>1, <1>4, <2>2, <2>3, AncestorsGrow
    <3> QED
      BY <2>1, <3>1
  <2> QED
    BY <1>2, <2>1, <2>2, <2>3
<1>7. \A i \in DOMAIN o : G[o[i]] \subseteq {o[j] : j \in 1..(i - 1)}
  BY <1>1, <1>2, <1>3
<1> QED
  BY <1>2, <1>5, <1>6, <1>7 DEF IsExecutionOrder, o, G

---------------------------------------------------------------------------
(* _detect_cycles.                                                         *)

LEMMA NodesFinite ==
    ASSUME NEW ids, ids \in Seq(Names(ids)), IsInjective(ids)
    PROVE  IsFiniteSet(Names(ids)) /\ Cardinality(Names(ids)) = Len(ids)
<1>1. /\ IsFiniteSet(Names(ids) \cap Names(ids))
      /\ Cardinality(Names(ids) \cap Names(ids)) = Len(ids)
  BY Counting
<1>2. Names(ids) \cap Names(ids) = Names(ids)
  OBVIOUS
<1> QED
  BY <1>1, <1>2

\* The searches of a graph that names no node that does not exist.
SearchesOf(N) == [list: Seq(N), path: SUBSET N, visited: SUBSET N]

Answers(N) == [cycle: BOOLEAN, visited: SUBSET N]

LEMMA SearchesAre ==
    ASSUME NEW ids, NEW g, GraphOf(ids, g)
    PROVE  Searches(ids, g) = SearchesOf(Names(ids))
<1> DEFINE N == Names(ids)
           V == N \cup UNION {Names(g[n]) : n \in N}
<1>1. \A n \in N : Names(g[n]) \subseteq N
  BY NamesOf DEF GraphOf
<1>2. V = N
  BY <1>1
<1>3. Searches(ids, g) = [list: Seq(V), path: SUBSET V, visited: SUBSET V]
  BY DEF Searches
<1> HIDE DEF V
<1> QED
  BY <1>2, <1>3 DEF SearchesOf

\* A search is over before another one if it starts with more visited, or
\* with as much and a shorter list.
Nearer(t, s) ==
    /\ s.visited \subseteq t.visited
    /\ s.visited = t.visited => Len(t.list) < Len(s.list)

LEMMA SearchInduction ==
    ASSUME NEW N, IsFiniteSet(N), NEW P,
           \A s \in SearchesOf(N) :
              (\A t \in SearchesOf(N) : Nearer(t, s) => t \in P) => s \in P
    PROVE  SearchesOf(N) \subseteq P
<1> DEFINE C == {s \in SearchesOf(N) : s \notin P}
           left(s) == Cardinality(N \ s.visited)
<1> SUFFICES ASSUME C # {} PROVE FALSE
  OBVIOUS
<1>1. ASSUME NEW s \in SearchesOf(N) PROVE left(s) \in Nat /\ IsFiniteSet(N \ s.visited) /\ Len(s.list) \in Nat
  <2>1. IsFiniteSet(N \ s.visited)
    BY FS_Subset
  <2> QED
    BY <2>1, FS_CardinalityType DEF SearchesOf
<1>0. \A s \in C : s \in SearchesOf(N)
  OBVIOUS
<1> HIDE DEF C
<1>2. PICK a \in C : \A b \in C : left(a) <= left(b)
  <2> DEFINE S == {left(s) : s \in C}
  <2>1. S \subseteq Nat /\ S # {}
    <3> HIDE DEF left
    <3> QED
      BY <1>0, <1>1
  <2>2. PICK x \in S : \A y \in S : x <= y
    <3> HIDE DEF S
    <3> QED
      BY <2>1, LeastOf
  <2> HIDE DEF left
  <2> QED
    BY <2>2
<1>3. PICK s \in C : /\ left(s) = left(a)
                     /\ \A b \in C : left(b) = left(a) => Len(s.list) <= Len(b.list)
  <2> DEFINE S == {Len(b.list) : b \in {b \in C : left(b) = left(a)}}
  <2>1. S \subseteq Nat /\ S # {}
    <3> HIDE DEF left
    <3> QED
      BY <1>0, <1>1
  <2>2. PICK x \in S : \A y \in S : x <= y
    <3> HIDE DEF S
    <3> QED
      BY <2>1, LeastOf
  <2> HIDE DEF left
  <2> QED
    BY <2>2
<1>4. s \in SearchesOf(N) /\ s \notin P
  BY DEF C
<1>5. ASSUME NEW t \in SearchesOf(N), Nearer(t, s) PROVE t \in P
  <2>1. CASE s.visited = t.visited
    <3>1. left(t) = left(s) /\ Len(t.list) < Len(s.list)
      BY <1>5, <2>1 DEF Nearer
    <3>2. Len(t.list) \in Nat /\ Len(s.list) \in Nat
      BY <1>1, <1>4
    <3>3. left(s) = left(a) /\ (t \in C /\ left(t) = left(a) => Len(s.list) <= Len(t.list))
      BY <1>3
    <3> HIDE DEF left
    <3>4. t \notin C
      BY <3>1, <3>2, <3>3
    <3> QED
      BY <3>4 DEF C
  <2>2. CASE s.visited # t.visited
    <3>1. s.visited \subseteq t.visited /\ t.visited \subseteq N
      BY <1>5 DEF Nearer, SearchesOf
    <3>2. N \ t.visited \subseteq N \ s.visited /\ N \ t.visited # N \ s.visited
      BY <2>2, <3>1
    <3>3. left(t) < left(s)
      <4>1. left(t) <= left(s) /\ left(t) # left(s)
        BY <1>1, <1>4, <3>2, FS_Subset
      <4>2. left(t) \in Nat /\ left(s) \in Nat
        BY <1>1, <1>4
      <4> HIDE DEF left
      <4> QED
        BY <4>1, <4>2
    <3>4. left(t) \in Nat /\ left(s) \in Nat
      BY <1>1, <1>4
    <3>5. left(s) = left(a)
      BY <1>3
    <3>6. t \in C => left(a) <= left(t)
      BY <1>2
    <3> HIDE DEF left
    <3>7. t \notin C
      BY <3>3, <3>4, <3>5, <3>6
    <3> QED
      BY <3>7 DEF C
  <2> QED
    BY <2>1, <2>2
<1> QED
  BY <1>4, <1>5

\* What a search s answers when f gives the answers of those it makes.
Into(ids, g, s) ==
    Search(Below(ids, g, Head(s.list)), s.path \cup {Head(s.list)}, s.visited \cup {Head(s.list)})

Past(s, visited) == Search(Tail(s.list), s.path, visited)

Answer(ids, g, f, s) ==
    IF s.list = <<>> THEN [cycle |-> FALSE, visited |-> s.visited]
    ELSE IF Head(s.list) \in s.path THEN [cycle |-> TRUE, visited |-> s.visited]
    ELSE IF Head(s.list) \in s.visited THEN f[Past(s, s.visited)]
    ELSE IF f[Into(ids, g, s)].cycle THEN f[Into(ids, g, s)]
    ELSE f[Past(s, f[Into(ids, g, s)].visited)]

LEMMA Steps ==
    ASSUME NEW ids, NEW g, GraphOf(ids, g), NEW s \in SearchesOf(Names(ids)), s.list # <<>>
    PROVE  /\ Head(s.list) \in Names(ids)
           /\ Into(ids, g, s) \in SearchesOf(Names(ids))
           /\ Into(ids, g, s).list = g[Head(s.list)]
           /\ Into(ids, g, s).path = s.path \cup {Head(s.list)}
           /\ Into(ids, g, s).visited = s.visited \cup {Head(s.list)}
           /\ Head(s.list) \notin s.visited => Nearer(Into(ids, g, s), s)
           /\ \A W \in SUBSET Names(ids) :
                 /\ Past(s, W) \in SearchesOf(Names(ids))
                 /\ Past(s, W).list = Tail(s.list) /\ Past(s, W).path = s.path /\ Past(s, W).visited = W
                 /\ s.visited \subseteq W => Nearer(Past(s, W), s)
<1> DEFINE N == Names(ids)
<1>1. /\ s.list \in Seq(N) /\ s.path \in SUBSET N /\ s.visited \in SUBSET N
  BY DEF SearchesOf
<1>2. Head(s.list) \in N /\ Tail(s.list) \in Seq(N) /\ Len(Tail(s.list)) < Len(s.list)
  BY <1>1
<1>3. g[Head(s.list)] \in Seq(N) /\ Below(ids, g, Head(s.list)) = g[Head(s.list)]
  BY <1>2 DEF GraphOf, Below
<1> HIDE DEF N
<1>4. Into(ids, g, s) = [list |-> g[Head(s.list)], path |-> s.path \cup {Head(s.list)},
                         visited |-> s.visited \cup {Head(s.list)}]
  BY <1>3 DEF Into, Search
<1>5. Into(ids, g, s) \in SearchesOf(N)
  BY <1>1, <1>2, <1>3, <1>4 DEF SearchesOf
<1>6. Head(s.list) \notin s.visited => Nearer(Into(ids, g, s), s)
  BY <1>4 DEF Nearer
<1>7. ASSUME NEW W \in SUBSET N
      PROVE  /\ Past(s, W) \in SearchesOf(N)
             /\ Past(s, W).list = Tail(s.list) /\ Past(s, W).path = s.path /\ Past(s, W).visited = W
             /\ s.visited \subseteq W => Nearer(Past(s, W), s)
  <2>1. Past(s, W) = [list |-> Tail(s.list), path |-> s.path, visited |-> W]
    BY DEF Past, Search
  <2> QED
    BY <1>1, <1>2, <2>1 DEF SearchesOf, Nearer
<1> QED
  BY <1>2, <1>4, <1>5, <1>6, <1>7 DEF N

\* There is a function of searches that answers as has_cycle does, so that
\* Scans is one.  It is the limit of functions that answer for ever deeper
\* searches.
LEMMA ScansAre ==
    ASSUME NEW ids, NEW g, GraphOf(ids, g), NEW s \in SearchesOf(Names(ids))
    PROVE  Scans(ids, g)[s] = Answer(ids, g, Scans(ids, g), s)
<1> DEFINE N == Names(ids)
           D == SearchesOf(N)
           A(f, x) == Answer(ids, g, f, x)
           R == {f \in [D -> Answers(N)] : \A x \in D : x.visited \subseteq f[x].visited}
           base == [x \in D |-> [cycle |-> FALSE, visited |-> x.visited]]
           step == [q \in Nat \X R |-> [x \in D |-> A(q[2], x)]]
<1>1. ASSUME NEW f \in R, NEW x \in D
      PROVE  A(f, x) \in Answers(N) /\ x.visited \subseteq A(f, x).visited
  <2>1. \A y \in D : f[y] \in Answers(N) /\ y.visited \subseteq f[y].visited /\ f[y].visited \in SUBSET N
    BY DEF Answers
  <2>2. x.visited \in SUBSET N
    BY DEF SearchesOf
  <2> HIDE DEF R, D, N
  <2>3. CASE x.list = <<>>
    BY <2>2, <2>3 DEF Answer, Answers
  <2>4. CASE x.list # <<>>
    <3> DEFINE n == Head(x.list)
               into == Into(ids, g, x)
    <3>1. /\ into \in D /\ into.visited = x.visited \cup {n}
          /\ \A W \in SUBSET N : Past(x, W) \in D /\ Past(x, W).visited = W
      BY <2>4, Steps DEF D, N
    <3> HIDE DEF n, into
    <3>2. CASE n \in x.path
      BY <2>2, <2>4, <3>2 DEF Answer, Answers, n
    <3>3. CASE n \notin x.path /\ n \in x.visited
      <4>1. A(f, x) = f[Past(x, x.visited)]
        BY <2>4, <3>3 DEF Answer, n
      <4> QED
        BY <2>1, <2>2, <3>1, <4>1
    <3>4. CASE n \notin x.path /\ n \notin x.visited
      <4>1. A(f, x) = IF f[into].cycle THEN f[into] ELSE f[Past(x, f[into].visited)]
        BY <2>4, <3>4 DEF Answer, n, into
      <4>2. f[into].visited \in SUBSET N /\ x.visited \subseteq f[into].visited
        BY <2>1, <3>1
      <4>3. Past(x, f[into].visited) \in D /\ Past(x, f[into].visited).visited = f[into].visited
        BY <3>1, <4>2
      <4> QED
        BY <2>1, <3>1, <4>1, <4>2, <4>3
    <3> QED
      BY <3>2, <3>3, <3>4
  <2> QED
    BY <2>3, <2>4
<1>2. base \in R
  BY DEF Answers, SearchesOf
<1>3. step \in [Nat \X R -> R]
  <2> HIDE DEF A, D, N
  <2>1. ASSUME NEW f \in R PROVE [x \in D |-> A(f, x)] \in R
    BY <1>1, <2>1
  <2> HIDE DEF R
  <2> QED
    BY <2>1
<1>4. PICK T \in [Nat -> R] : Recursive(T, base, step)
  <2> HIDE DEF base, step, R
  <2> QED
    BY <1>2, <1>3, Recursion
<1>5. ASSUME NEW k \in Nat PROVE T[k] \in R /\ T[k + 1] = [x \in D |-> A(T[k], x)]
  <2>1. k + 1 \in Nat \ {0} /\ (k + 1) - 1 = k /\ T[k] \in R
    OBVIOUS
  <2>2. T[k + 1] = step[<<k + 1, T[(k + 1) - 1]>>]
    BY <1>4, <2>1 DEF Recursive
  <2> HIDE DEF R, A, D
  <2> QED
    BY <2>1, <2>2
<1> DEFINE Settled(x, v) == \E K \in Nat : \A k \in Nat : k >= K => T[k][x] = v
           limit(x) == CHOOSE v \in Answers(N) : Settled(x, v)
           f == [x \in D |-> limit(x)]
           P == {x \in D : Settled(x, f[x]) /\ f[x] = A(f, x)}
<1>6. ASSUME NEW x \in D, NEW v, NEW w, Settled(x, v), Settled(x, w) PROVE v = w
  <2>1. PICK K \in Nat : \A k \in Nat : k >= K => T[k][x] = v
    BY <1>6
  <2>2. PICK L \in Nat : \A k \in Nat : k >= L => T[k][x] = w
    BY <1>6
  <2>3. K + L \in Nat /\ K + L >= K /\ K + L >= L
    OBVIOUS
  <2> QED
    BY <2>1, <2>2, <2>3
<1>7. ASSUME NEW x \in D, NEW v, Settled(x, v)
      PROVE  v \in Answers(N) /\ x.visited \subseteq v.visited
  <2>1. PICK K \in Nat : \A k \in Nat : k >= K => T[k][x] = v
    BY <1>7
  <2>2. T[K][x] = v /\ T[K] \in R
    BY <2>1
  <2> HIDE DEF D, N
  <2> QED
    BY <2>2
<1>8. ASSUME NEW x \in D, NEW K \in Nat, NEW v, \A k \in Nat : k >= K => A(T[k], x) = v
      PROVE  Settled(x, v)
  <2>1. \A k \in Nat : k >= K + 1 => k - 1 \in Nat /\ k - 1 >= K /\ (k - 1) + 1 = k
    OBVIOUS
  <2>2. ASSUME NEW k \in Nat, k >= K + 1 PROVE T[k][x] = v
    <3>1. T[k] = [y \in D |-> A(T[k - 1], y)] /\ A(T[k - 1], x) = v
      BY <1>5, <1>8, <2>1, <2>2
    <3> HIDE DEF A, D
    <3> QED
      BY <3>1
  <2>3. K + 1 \in Nat
    OBVIOUS
  <2> QED
    BY <2>2, <2>3
<1>9. ASSUME NEW x \in D, \A y \in D : Nearer(y, x) => y \in P PROVE x \in P
  <2> SUFFICES Settled(x, A(f, x))
    <3>1. Settled(x, A(f, x))
      OBVIOUS
    <3> HIDE DEF Settled, A, D
    <3>2. A(f, x) \in Answers(N)
      BY <1>7, <3>1
    <3>3. Settled(x, f[x])
      BY <3>1, <3>2
    <3> HIDE DEF f
    <3>4. f[x] = A(f, x)
      BY <1>6, <3>1, <3>3
    <3> QED
      BY <3>3, <3>4
  <2>1. \A y \in D : Nearer(y, x) => Settled(y, f[y])
    BY <1>9
  <2>2. x.visited \in SUBSET N
    BY DEF SearchesOf
  <2> HIDE DEF f, P, D, N
  <2>3. CASE x.list = <<>>
    <3>1. \A k \in Nat : k >= 0 => A(T[k], x) = A(f, x)
      BY <2>3 DEF Answer
    <3> HIDE DEF A, Settled
    <3> QED
      BY <1>8, <3>1
  <2>4. CASE x.list # <<>>
    <3> DEFINE n == Head(x.list)
               into == Into(ids, g, x)
    <3>1. /\ into \in D /\ into.visited = x.visited \cup {n}
          /\ n \notin x.visited => Nearer(into, x)
          /\ \A W \in SUBSET N : Past(x, W) \in D /\ (x.visited \subseteq W => Nearer(Past(x, W), x))
      BY <2>4, Steps DEF D, N
    <3> HIDE DEF n, into
    <3>2. CASE n \in x.path
      <4>1. \A k \in Nat : k >= 0 => A(T[k], x) = A(f, x)
        BY <2>4, <3>2 DEF Answer, n
      <4> HIDE DEF A, Settled
      <4> QED
        BY <1>8, <4>1
    <3>3. CASE n \notin x.path /\ n \in x.visited
      <4>1. \A h : A(h, x) = h[Past(x, x.visited)]
        BY <2>4, <3>3 DEF Answer, n
      <4>2. Past(x, x.visited) \in D /\ Nearer(Past(x, x.visited), x)
        BY <2>2, <3>1
      <4> HIDE DEF A
      <4>3. PICK K \in Nat : \A k \in Nat : k >= K => T[k][Past(x, x.visited)] = f[Past(x, x.visited)]
        BY <2>1, <4>2
      <4> HIDE DEF Settled
      <4> QED
        BY <1>8, <4>1, <4>3
    <3>4. CASE n \notin x.path /\ n \notin x.visited
      <4>1. \A h : A(h, x) = IF h[into].cycle THEN h[into] ELSE h[Past(x, h[into].visited)]
        BY <2>4, <3>4 DEF Answer, n, into
      <4> HIDE DEF A
      <4>2. Settled(into, f[into])
        BY <2>1, <3>1, <3>4
      <4>3. PICK K \in Nat : \A k \in Nat : k >= K => T[k][into] = f[into]
        BY <4>2
      <4> DEFINE W == f[into].visited
                 past == Past(x, W)
      <4>4. W \in SUBSET N /\ x.visited \subseteq W
        <5> HIDE DEF Settled
        <5> QED
          BY <1>7, <3>1, <4>2 DEF Answers
      <4>5. past \in D /\ Nearer(past, x)
        BY <3>1, <4>4
      <4>6. PICK L \in Nat : \A k \in Nat : k >= L => T[k][past] = f[past]
        BY <2>1, <4>5
      <4>7. ASSUME NEW k \in Nat, k >= K + L PROVE A(T[k], x) = A(f, x)
        <5>1. k >= K /\ k >= L
          BY <4>7
        <5> QED
          BY <4>1, <4>3, <4>6, <5>1
      <4>8. K + L \in Nat
        OBVIOUS
      <4> HIDE DEF Settled
      <4> QED
        BY <1>8, <4>7, <4>8
    <3> QED
      BY <3>2, <3>3, <3>4
  <2> QED
    BY <2>3, <2>4
<1>10. D \subseteq P
  <2>1. IsFiniteSet(N)
    BY NodesFinite DEF GraphOf
  <2> HIDE DEF P
  <2> QED
    BY <1>9, <2>1, SearchInduction
<1>11. f = [x \in D |-> A(f, x)]
  <2>1. \A x \in D : f[x] = A(f, x)
    BY <1>10
  <2>2. f = [x \in D |-> f[x]]
    <3> HIDE DEF limit, D
    <3> QED
      OBVIOUS
  <2> HIDE DEF f, A, D
  <2> QED
    BY <2>1, <2>2
<1> DEFINE Equation(h) == h = [x \in Searches(ids, g) |-> Answer(ids, g, h, x)]
<1>12. Equation(f)
  BY <1>11, SearchesAre
<1>13. Scans(ids, g) = CHOOSE h : Equation(h)
  BY DEF Scans, Answer, Into, Past
<1>14. Equation(Scans(ids, g))
  <2> HIDE DEF Equation, f
  <2> QED
    BY <1>12, <1>13
<1> QED
  BY <1>14, SearchesAre

\* A search visits what it started with, the nodes of its list, and more.
LEMMA ScansTyped ==
    ASSUME NEW ids, NEW g, GraphOf(ids, g), NEW s \in SearchesOf(Names(ids))
    PROVE  /\ Scans(ids, g)[s] \in Answers(Names(ids))
           /\ s.visited \subseteq Scans(ids, g)[s].visited
<1> DEFINE N == Names(ids)
           D == SearchesOf(N)
           f == Scans(ids, g)
           P == {x \in D : f[x] \in Answers(N) /\ x.visited \subseteq f[x].visited}
<1>1. ASSUME NEW x \in D, \A y \in D : Nearer(y, x) => y \in P PROVE x \in P
  <2>1. f[x] = Answer(ids, g, f, x)
    BY ScansAre
  <2>2. x.visited \in SUBSET N
    BY DEF SearchesOf
  <2>3. \A y \in D : Nearer(y, x) => f[y] \in Answers(N) /\ y.visited \subseteq f[y].visited
    BY <1>1
  <2> SUFFICES f[x] \in Answers(N) /\ x.visited \subseteq f[x].visited
    OBVIOUS
  <2> HIDE DEF f, P, D, N
  <2>4. CASE x.list = <<>>
    BY <2>1, <2>2, <2>4 DEF Answer, Answers
  <2>5. CASE x.list # <<>>
    <3> DEFINE n == Head(x.list)
               into == Into(ids, g, x)
    <3>1. /\ into \in D /\ into.visited = x.visited \cup {n}
          /\ n \notin x.visited => Nearer(into, x)
          /\ \A W \in SUBSET N : /\ Past(x, W) \in D /\ Past(x, W).visited = W
                                 /\ x.visited \subseteq W => Nearer(Past(x, W), x)
      BY <2>5, Steps DEF D, N
    <3> HIDE DEF n, into
    <3>2. CASE n \in x.path
      BY <2>1, <2>2, <2>5, <3>2 DEF Answer, Answers, n
    <3>3. CASE n \notin x.path /\ n \in x.visited
      <4>1. f[x] = f[Past(x, x.visited)]
        BY <2>1, <2>5, <3>3 DEF Answer, n
      <4>2. /\ Past(x, x.visited) \in D /\ Nearer(Past(x, x.visited), x)
            /\ Past(x, x.visited).visited = x.visited
        BY <2>2, <3>1
      <4> QED
        BY <2>3, <4>1, <4>2
    <3>4. CASE n \notin x.path /\ n \notin x.visited
      <4>1. f[x] = IF f[into].cycle THEN f[into] ELSE f[Past(x, f[into].visited)]
        BY <2>1, <2>5, <3>4 DEF Answer, n, into
      <4>2. f[into] \in Answers(N) /\ x.visited \subseteq f[into].visited
        BY <2>3, <3>1, <3>4
      <4> DEFINE W == f[into].visited
                 past == Past(x, W)
      <4>3. W \in SUBSET N
        BY <4>2 DEF Answers
      <4>4. past \in D /\ Nearer(past, x) /\ past.visited = W
        BY <3>1, <4>2, <4>3
      <4>5. f[past] \in Answers(N) /\ W \subseteq f[past].visited
        BY <2>3, <4>4
      <4> QED
        BY <4>1, <4>2, <4>5
    <3> QED
      BY <3>2, <3>3, <3>4
  <2> QED
    BY <2>4, <2>5
<1>2. D \subseteq P
  <2>1. IsFiniteSet(N)
    BY NodesFinite DEF GraphOf
  <2> HIDE DEF P
  <2> QED
    BY <1>1, <2>1, SearchInduction
<1> QED
  BY <1>2

\* Where no set of nodes depends on itself, no node is its own ancestor.
LEMMA NoOwnAncestor ==
    ASSUME NEW G, Closed(G), Acyclic(G), NEW n \in DOMAIN G
    PROVE  n \notin Ancestors(G, n)
<1> SUFFICES ASSUME n \in Ancestors(G, n) PROVE FALSE
  OBVIOUS
<1> DEFINE S == {m \in DOMAIN G : n \in Ancestors(G, m)}
<1>1. PICK t \in S : G[t] \cap S = {}
  BY DEF Acyclic
<1>2. t \in DOMAIN G /\ n \in Ancestors(G, t) /\ G[t] \subseteq DOMAIN G
  BY DEF Closed
<1> DEFINE B == G[t] \cup UNION {Ancestors(G, d) : d \in G[t]}
<1>3. B \subseteq DOMAIN G
  BY <1>2 DEF Ancestors
<1>4. DownClosed(G, B)
  <2>1. ASSUME NEW d \in G[t] PROVE G[d] \subseteq B
    <3>1. G[d] \subseteq Ancestors(G, d)
      BY <1>2, AncestorsGrow
    <3> QED
      BY <3>1
  <2>2. ASSUME NEW d \in G[t], NEW a \in Ancestors(G, d) PROVE G[a] \subseteq Ancestors(G, d)
    BY <1>2, AncestorsDown
  <2> QED
    BY <2>1, <2>2 DEF DownClosed
<1>5. n \in B
  BY <1>2, <1>3, <1>4 DEF Ancestors
<1>6. CASE n \in G[t]
  BY <1>1, <1>6
<1>7. CASE \E d \in G[t] : n \in Ancestors(G, d)
  BY <1>1, <1>2, <1>7
<1> QED
  BY <1>5, <1>6, <1>7

\* A cycle is found only where there is one: all nodes of a search's list are
\* ancestors of those on its path.
LEMMA NoFalseCycle ==
    ASSUME NEW ids, NEW g, GraphOf(ids, g), Acyclic(AsGraph(g)),
           NEW s \in SearchesOf(Names(ids)),
           \A p \in s.path, x \in Names(s.list) : x \in Ancestors(AsGraph(g), p)
    PROVE  ~Scans(ids, g)[s].cycle
<1> DEFINE N == Names(ids)
           D == SearchesOf(N)
           G == AsGraph(g)
           f == Scans(ids, g)
           Above(x) == \A p \in x.path, y \in Names(x.list) : y \in Ancestors(G, p)
           P == {x \in D : Above(x) => ~f[x].cycle}
<1>1. DOMAIN G = N /\ Closed(G) /\ Acyclic(G) /\ \A n \in N : G[n] = Names(g[n])
  BY NamesOf DEF AsGraph, GraphOf, Closed
<1>2. ASSUME NEW x \in D, \A y \in D : Nearer(y, x) => y \in P PROVE x \in P
  <2>1. f[x] = Answer(ids, g, f, x)
    BY ScansAre
  <2>2. x.visited \in SUBSET N /\ x.list \in Seq(N) /\ x.path \in SUBSET N
    BY DEF SearchesOf
  <2>3. \A y \in D : Nearer(y, x) /\ Above(y) => ~f[y].cycle
    BY <1>2
  <2> SUFFICES ASSUME Above(x) PROVE ~f[x].cycle
    OBVIOUS
  <2>4. CASE x.list = <<>>
    <3> HIDE DEF f, P, D, N, G
    <3> QED
      BY <2>1, <2>4 DEF Answer
  <2>5. CASE x.list # <<>>
    <3> DEFINE n == Head(x.list)
               into == Into(ids, g, x)
    <3>1. /\ n \in N
          /\ into \in D /\ into.visited = x.visited \cup {n} /\ into.path = x.path \cup {n}
          /\ into.list = g[n]
          /\ n \notin x.visited => Nearer(into, x)
          /\ \A W \in SUBSET N : /\ Past(x, W) \in D /\ Past(x, W).visited = W
                                 /\ Past(x, W).path = x.path /\ Past(x, W).list = Tail(x.list)
                                 /\ x.visited \subseteq W => Nearer(Past(x, W), x)
      BY <2>5, Steps
    <3>2. Names(x.list) = {n} \cup Names(Tail(x.list))
      BY <2>2, <2>5, HeadAndTail
    <3>3. n \notin x.path
      <4>1. \A p \in x.path : n \in Ancestors(G, p)
        BY <3>2
      <4> QED
        BY <1>1, <2>2, <4>1, NoOwnAncestor
    <3>4. \A W \in SUBSET N : Above(Past(x, W))
      BY <3>1, <3>2
    <3>5. Above(into)
      <4>1. \A y \in G[n] : y \in Ancestors(G, n)
        BY <1>1, <3>1, AncestorsGrow
      <4>2. \A p \in x.path, y \in G[n] : y \in Ancestors(G, p)
        <5> TAKE p \in x.path, y \in G[n]
        <5>1. n \in Ancestors(G, p) /\ p \in DOMAIN G
          BY <1>1, <2>2, <3>2
        <5> QED
          BY <1>1, <5>1, AncestorsDown
      <4> QED
        BY <1>1, <3>1, <4>1, <4>2
    <3> HIDE DEF f, P, D, N, G, n, into, Above
    <3>6. CASE n \in x.visited
      <4>1. f[x] = f[Past(x, x.visited)]
        BY <2>1, <2>5, <3>3, <3>6 DEF Answer, n
      <4> QED
        BY <2>2, <2>3, <3>1, <3>4, <4>1
    <3>7. CASE n \notin x.visited
      <4>1. f[x] = IF f[into].cycle THEN f[into] ELSE f[Past(x, f[into].visited)]
        BY <2>1, <2>5, <3>3, <3>7 DEF Answer, n, into
      <4>2. ~f[into].cycle
        BY <2>3, <3>1, <3>5, <3>7
      <4>3. f[into] \in Answers(N) /\ into.visited \subseteq f[into].visited
        BY <3>1, ScansTyped DEF f, D, N
      <4>4. f[into].visited \in SUBSET N /\ x.visited \subseteq f[into].visited
        BY <3>1, <4>3 DEF Answers
      <4> QED
        BY <2>3, <3>1, <3>4, <4>1, <4>2, <4>4
    <3> QED
      BY <3>6, <3>7
  <2> QED
    BY <2>4, <2>5
<1>3. D \subseteq P
  <2>1. IsFiniteSet(N)
    BY NodesFinite DEF GraphOf
  <2> HIDE DEF P
  <2> QED
    BY <1>2, <2>1, SearchInduction
<1> QED
  BY <1>3

\* Nodes that depend on each other only, and that no set of depends on
\* itself.
Ordered(G, F) ==
    /\ DownClosed(G, F)
    /\ \A S \in (SUBSET F) \ {{}} : \E t \in S : G[t] \cap S = {}

\* One more node that depends on them.
LEMMA OrderedGrows ==
    ASSUME NEW G, NEW F, Ordered(G, F), NEW n, n \notin F, G[n] \subseteq F
    PROVE  Ordered(G, F \cup {n})
<1>1. DownClosed(G, F \cup {n})
  BY DEF Ordered, DownClosed
<1>2. ASSUME NEW S \in (SUBSET (F \cup {n})) \ {{}} PROVE \E t \in S : G[t] \cap S = {}
  <2>1. CASE S \cap F = {}
    BY <2>1
  <2>2. CASE S \cap F # {}
    <3>1. PICK t \in S \cap F : G[t] \cap (S \cap F) = {}
      BY <2>2 DEF Ordered
    <3>2. G[t] \subseteq F
      BY DEF Ordered, DownClosed
    <3>3. G[t] \cap S = {}
      BY <3>1, <3>2
    <3> QED
      BY <3>3
  <2> QED
    BY <2>1, <2>2
<1> QED
  BY <1>1, <1>2 DEF Ordered

\* A cycle is not missed: what was visited and left again rests on nothing
\* else and on no cycle, and a search without a cycle leaves all it went
\* through.
LEMMA NoMissedCycle ==
    ASSUME NEW ids, NEW g, GraphOf(ids, g),
           NEW s \in SearchesOf(Names(ids)),
           s.path \subseteq s.visited, Ordered(AsGraph(g), s.visited \ s.path),
           ~Scans(ids, g)[s].cycle
    PROVE  /\ Ordered(AsGraph(g), Scans(ids, g)[s].visited \ s.path)
           /\ Names(s.list) \subseteq Scans(ids, g)[s].visited \ s.path
<1> DEFINE N == Names(ids)
           D == SearchesOf(N)
           G == AsGraph(g)
           f == Scans(ids, g)
           Left(x) == /\ x.path \subseteq x.visited
                      /\ Ordered(G, x.visited \ x.path)
                      /\ ~f[x].cycle
           Done(x) == /\ Ordered(G, f[x].visited \ x.path)
                      /\ Names(x.list) \subseteq f[x].visited \ x.path
           P == {x \in D : Left(x) => Done(x)}
<1>1. \A n \in N : G[n] = Names(g[n])
  BY DEF AsGraph, GraphOf
<1>2. ASSUME NEW x \in D, \A y \in D : Nearer(y, x) => y \in P PROVE x \in P
  <2>1. f[x] = Answer(ids, g, f, x)
    BY ScansAre
  <2>2. x.visited \in SUBSET N /\ x.list \in Seq(N) /\ x.path \in SUBSET N
    BY DEF SearchesOf
  <2>3. \A y \in D : Nearer(y, x) /\ Left(y) => Done(y)
    BY <1>2
  <2> SUFFICES ASSUME Left(x) PROVE Done(x)
    OBVIOUS
  <2>4. CASE x.list = <<>>
    <3>1. f[x].visited = x.visited
      <4> HIDE DEF f, D, N, G
      <4> QED
        BY <2>1, <2>4 DEF Answer
    <3>2. Names(x.list) = {}
      BY <2>4 DEF Names, ToSet
    <3> QED
      BY <3>1, <3>2
  <2>5. CASE x.list # <<>>
    <3> DEFINE n == Head(x.list)
               into == Into(ids, g, x)
    <3>1. /\ n \in N
          /\ into \in D /\ into.visited = x.visited \cup {n} /\ into.path = x.path \cup {n}
          /\ into.list = g[n]
          /\ n \notin x.visited => Nearer(into, x)
          /\ \A W \in SUBSET N : /\ Past(x, W) \in D /\ Past(x, W).visited = W
                                 /\ Past(x, W).path = x.path /\ Past(x, W).list = Tail(x.list)
                                 /\ x.visited \subseteq W => Nearer(Past(x, W), x)
      BY <2>5, Steps
    <3>2. Names(x.list) = {n} \cup Names(Tail(x.list))
      BY <2>2, <2>5, HeadAndTail
    \* The rest of the list, once n has been left.
    <3>3. ASSUME NEW W \in SUBSET N, x.visited \subseteq W, f[x] = f[Past(x, W)],
                 n \in W \ x.path, Ordered(G, W \ x.path)
          PROVE  Done(x)
      <4> DEFINE past == Past(x, W)
      <4>1. /\ past \in D /\ past.visited = W /\ past.path = x.path /\ past.list = Tail(x.list)
            /\ Nearer(past, x)
        BY <3>1, <3>3
      <4>2. Left(past)
        BY <3>3, <4>1
      <4>3. Done(past)
        BY <2>3, <4>1, <4>2
      <4>4. W \subseteq f[past].visited
        BY <4>1, ScansTyped
      <4> HIDE DEF past, f, G, n
      <4> QED
        BY <3>2, <3>3, <4>1, <4>3, <4>4 DEF past
    <3>4. n \notin x.path
      <4>1. n \in x.path => f[x].cycle
        <5> HIDE DEF f
        <5> QED
          BY <2>1, <2>5 DEF Answer
      <4> QED
        BY <4>1
    <3>5. CASE n \in x.visited
      <4>1. f[x] = f[Past(x, x.visited)]
        <5> HIDE DEF f
        <5> QED
          BY <2>1, <2>5, <3>4, <3>5 DEF Answer
      <4> QED
        BY <2>2, <3>3, <3>4, <3>5, <4>1
    <3>6. CASE n \notin x.visited
      <4>1. f[x] = IF f[into].cycle THEN f[into] ELSE f[Past(x, f[into].visited)]
        <5> HIDE DEF f
        <5> QED
          BY <2>1, <2>5, <3>4, <3>6 DEF Answer
      <4>2. ~f[into].cycle
        BY <4>1
      <4>3. into.visited \ into.path = x.visited \ x.path
        BY <3>1, <3>6
      <4>4. Left(into)
        BY <3>1, <4>2, <4>3
      <4>5. Done(into)
        BY <2>3, <3>1, <3>6, <4>4
      <4> DEFINE W == f[into].visited
      <4>6. W \in SUBSET N /\ x.visited \cup {n} \subseteq W
        <5>1. f[into] \in Answers(N) /\ into.visited \subseteq W
          BY <3>1, ScansTyped
        <5> QED
          BY <3>1, <5>1 DEF Answers
      <4> DEFINE F == W \ into.path
      <4>7. Ordered(G, F) /\ G[n] \subseteq F /\ n \notin F
        BY <1>1, <3>1, <4>5
      <4>8. W \ x.path = F \cup {n}
        BY <3>1, <3>4, <4>6
      <4>9. Ordered(G, W \ x.path)
        <5> HIDE DEF F, W, G, n
        <5> QED
          BY <4>7, <4>8, OrderedGrows
      <4>10. f[x] = f[Past(x, W)]
        BY <4>1, <4>2
      <4> HIDE DEF W
      <4> QED
        BY <3>3, <3>4, <4>6, <4>9, <4>10
    <3> QED
      BY <3>5, <3>6
  <2> QED
    BY <2>4, <2>5
<1>3. D \subseteq P
  <2>1. IsFiniteSet(N)
    BY NodesFinite DEF GraphOf
  <2> HIDE DEF P
  <2> QED
    BY <1>2, <2>1, SearchInduction
<1> QED
  BY <1>3

\* _detect_cycles finds a cycle iff a set of nodes depends on itself.
THEOREM CyclesAreDetected ==
    ASSUME NEW ids, NEW g, GraphOf(ids, g)
    PROVE  DetectCycles(ids, g) <=> ~Acyclic(AsGraph(g))
<1> DEFINE N == Names(ids)
           G == AsGraph(g)
           s == Search(ids, {}, {})
           F == Scans(ids, g)[s].visited
<1>1. s.list = ids /\ s.path = {} /\ s.visited = {} /\ s \in SearchesOf(N)
  BY DEF Search, SearchesOf, GraphOf
<1>2. DOMAIN G = N
  BY DEF AsGraph, GraphOf
<1>3. DetectCycles(ids, g) = Scans(ids, g)[s].cycle
  BY DEF DetectCycles
<1> HIDE DEF s
<1>4. ASSUME Acyclic(G) PROVE ~DetectCycles(ids, g)
  BY <1>1, <1>3, <1>4, NoFalseCycle
<1>5. ASSUME ~DetectCycles(ids, g) PROVE Acyclic(G)
  <2>1. Ordered(G, {})
    BY DEF Ordered, DownClosed
  <2>2. s.visited \ s.path = {} /\ s.path \subseteq s.visited
    BY <1>1
  <2>3. Ordered(G, F \ s.path) /\ Names(s.list) \subseteq F \ s.path
    <3> HIDE DEF F, G
    <3> QED
      BY <1>1, <1>3, <1>5, <2>1, <2>2, NoMissedCycle DEF F, G
  <2>4. N \subseteq F \ s.path
    BY <1>1, <2>3
  <2> HIDE DEF F, G
  <2> QED
    BY <1>2, <2>3, <2>4 DEF Ordered, Acyclic
<1>6. DetectCycles(ids, g) \in BOOLEAN
  BY <1>1, <1>3, ScansTyped DEF Answers
<1> QED
  BY <1>4, <1>5, <1>6

\* What is accepted are the acyclic graphs: those that DagExecutor and
\* DagSchedule start from.
THEOREM AcceptedGraphs ==
    ASSUME NEW ids, ids \in Seq(Names(ids)), IsInjective(ids)
    PROVE  {AsGraph(g) : g \in {g \in [Names(ids) -> Seq(Names(ids))] : Validates(ids, g)}}
              = AcyclicGraphs(Names(ids))
<1> DEFINE N == Names(ids)
           Accepted == {g \in [N -> Seq(N)] : Validates(ids, g)}
<1>1. ASSUME NEW g \in [N -> Seq(N)]
      PROVE  /\ AsGraph(g) \in [N -> SUBSET N]
             /\ Validates(ids, g) <=> Acyclic(AsGraph(g))
  <2>1. AsGraph(g) \in [N -> SUBSET N]
    BY NamesOf DEF AsGraph
  <2>2. AllExist(g)
    BY <2>1 DEF AllExist, Closed
  <2>3. GraphOf(ids, g)
    BY DEF GraphOf
  <2> QED
    BY <2>1, <2>2, <2>3, CyclesAreDetected DEF Validates
<1>2. ASSUME NEW g \in Accepted PROVE AsGraph(g) \in AcyclicGraphs(N)
  BY <1>1 DEF AcyclicGraphs
<1>3. ASSUME NEW G \in AcyclicGraphs(N) PROVE \E g \in Accepted : AsGraph(g) = G
  <2>1. G \in [N -> SUBSET N] /\ Acyclic(G)
    BY DEF AcyclicGraphs
  <2> DEFINE g == [n \in N |-> InOrder(ids, G[n])]
  <2>2. \A n \in N : InOrder(ids, G[n]) \in Seq(N) /\ Names(InOrder(ids, G[n])) = G[n]
    <3> TAKE n \in N
    <3>1. /\ InOrder(ids, G[n]) \in Seq(N) /\ Names(InOrder(ids, G[n])) = N \cap G[n]
      BY InOrderIs
    <3>2. N \cap G[n] = G[n]
      BY <2>1
    <3> QED
      BY <3>1, <3>2
  <2> HIDE DEF N
  <2>3. g \in [N -> Seq(N)] /\ \A n \in N : Names(g[n]) = G[n]
    BY <2>2
  <2>4. AsGraph(g) = [n \in N |-> Names(g[n])]
    BY DEF AsGraph
  <2>5. AsGraph(g) = G
    <3> HIDE DEF g
    <3> QED
      BY <2>1, <2>3, <2>4
  <2> HIDE DEF g
  <2> QED
    BY <1>1, <2>1, <2>3, <2>5
<1> QED
  BY <1>2, <1>3

---------------------------------------------------------------------------
(* What execute_dag makes of the graph.                                    *)

USE TuiDagAssumption

LEMMA Accepted ==
    ASSUME depends_on \in [Nodes -> DependsOn], AllExist(depends_on)
    PROVE  GraphOf(Ids, depends_on)
<1>1. ASSUME NEW n \in Nodes PROVE depends_on[n] \in Seq(Nodes)
  <2> DEFINE list == depends_on[n]
  <2>1. list \in Seq(Names(list))
    OBVIOUS
  <2>2. Names(list) \subseteq Nodes
    BY DEF AllExist, Closed, AsGraph
  <2> HIDE DEF list, Nodes
  <2>3. Seq(Names(list)) \subseteq Seq(Nodes)
    BY <2>2
  <2> QED
    BY <2>1, <2>3 DEF list
<1>2. depends_on \in [Nodes -> Seq(Nodes)]
  BY <1>1
<1> QED
  BY <1>2 DEF GraphOf, Nodes

\* What is kept of the graph: its order, once there is one.
OrderListsNodes == order \in Seq(Nodes)

GraphInv ==
    /\ depends_on \in [Nodes -> DependsOn]
    /\ OrderListsNodes
    /\ GraphsAreOrdered

LEMMA ValidateOrders ==
    ASSUME GraphInv, Validate
    PROVE  GraphInv'
<1> DEFINE G == AsGraph(depends_on)
<1>0. depends_on \in [Nodes -> DependsOn] /\ depends_on' = depends_on /\ OrderListsNodes
  BY DEF GraphInv, Validate
<1>1. CASE Validates(Ids, depends_on)
  <2>1. GraphOf(Ids, depends_on)
    BY <1>0, <1>1, Accepted DEF Validates
  <2>2. Acyclic(G)
    BY <1>1, <2>1, CyclesAreDetected DEF Validates
  <2>3. order' = ExecutionOrder(Ids, depends_on) /\ main' = "awaiting"
    BY <1>1 DEF Validate
  <2>4. order' \in Seq(Nodes)
    BY <2>1, <2>3, OrderOf DEF Nodes
  <2>5. IsExecutionOrder(order', depends_on)
    BY <2>1, <2>2, <2>3, OrderIsRight
  <2> QED
    BY <1>0, <2>2, <2>3, <2>4, <2>5 DEF GraphInv, OrderListsNodes, GraphsAreOrdered
<1>2. CASE ~Validates(Ids, depends_on)
  <2>1. order' = order /\ main' = "rejected"
    BY <1>2 DEF Validate
  <2>2. ASSUME Closed(G) PROVE ~Acyclic(G)
    <3>1. GraphOf(Ids, depends_on) /\ AllExist(depends_on)
      BY <1>0, <2>2, Accepted DEF AllExist
    <3> QED
      BY <1>2, <3>1, CyclesAreDetected DEF Validates
  <2> QED
    BY <1>0, <2>1, <2>2 DEF GraphInv, OrderListsNodes, GraphsAreOrdered
<1> QED
  BY <1>1, <1>2

LEMMA GraphInvariance == Spec => []GraphInv
<1>1. Init => GraphInv
  BY DEF Init, GraphInv, OrderListsNodes, GraphsAreOrdered
<1>2. ASSUME GraphInv, [Next]_vars PROVE GraphInv'
  <2>1. CASE Validate
    BY <1>2, <2>1, ValidateOrders
  <2>2. CASE Collect \/ Return \/ Unwind \/ Cancel \/ UNCHANGED vars \/ \E n \in Nodes : NodeStep(n)
    <3>1. /\ depends_on' = depends_on /\ order' = order
          /\ main' = "rejected" => main = "rejected"
          /\ main = "validating" => main' = "validating"
          /\ main = "rejected" => main' = "rejected"
      BY <2>2 DEF Collect, Return, Unwind, Cancel, vars, graphVars, mainVars,
         NodeStep, Begin, Resume, Finish, FinishCancelled
    <3> QED
      BY <1>2, <3>1 DEF GraphInv, OrderListsNodes, GraphsAreOrdered
  <2> QED
    BY <1>2, <2>1, <2>2 DEF Next, MainStep
<1> QED
  BY <1>1, <1>2, PTL DEF Spec

\* A graph is accepted iff its dependencies exist and no set of nodes depends
\* on itself, and what is executed is in an execution order.
THEOREM GraphsOrdered == Spec => []GraphsAreOrdered
<1>1. GraphInv => GraphsAreOrdered
  BY DEF GraphInv
<1> QED
  BY GraphInvariance, <1>1, PTL

---------------------------------------------------------------------------
(* The coroutines of the nodes.                                            *)

Points == {"absent", "created", "waiting", "running", "cancelling", "ended"}

Types ==
    /\ at \in [Nodes -> Points]
    /\ agent \in [Nodes -> {"none", "running", "complete", "stuck", "failed", "cancelled"}]
    /\ signalled \subseteq Nodes

\* An event is set by a coroutine that ends, and an agent is created behind
\* all the events of its node; before the graph is validated nothing is done.
Signals ==
    /\ \A n \in signalled : at[n] = "ended"
    /\ \A n \in Nodes : agent[n] # "none" => Deps(n) \subseteq signalled
    /\ \A n \in Nodes : at[n] \in {"running", "cancelling"} => agent[n] # "none"
    /\ main = "validating" => signalled = {} /\ \A n \in Nodes : agent[n] = "none"

DagInv == Types /\ Signals

LEMMA InitInv == Init => DagInv
BY DEF Init, DagInv, Types, Signals, Points

LEMMA ValidateInv == DagInv /\ Validate => DagInv'
<1> SUFFICES ASSUME DagInv, Validate PROVE DagInv'
  OBVIOUS
<1>1. /\ UNCHANGED <<depends_on, agent, signalled>> /\ main' # "validating"
      /\ signalled = {} /\ \A n \in Nodes : agent[n] = "none"
  BY DEF Validate, DagInv, Signals
<1>2. /\ at' \in [Nodes -> Points]
      /\ \A n \in Nodes : at'[n] \in {"running", "cancelling"} => at[n] \in {"running", "cancelling"}
  BY DEF Validate, DagInv, Types, Points
<1> QED
  BY <1>1, <1>2 DEF DagInv, Types, Signals

\* A coroutine that ends, is suspended, or goes on behind its events.
LEMMA RecordInv ==
    ASSUME DagInv, NEW n \in Nodes, NEW s \in {"complete", "stuck", "failed"}, Record(n, s),
           Deps(n) \subseteq signalled, main # "validating", UNCHANGED <<depends_on, main>>
    PROVE  DagInv'
<1>1. /\ at' = [at EXCEPT ![n] = "ended"] /\ agent' = [agent EXCEPT ![n] = s]
      /\ signalled' = signalled \cup {n}
  BY DEF Record
<1>2. Types'
  BY <1>1 DEF DagInv, Types, Points
<1>3. Signals'
  BY <1>1 DEF DagInv, Types, Signals, Deps
<1> QED
  BY <1>2, <1>3 DEF DagInv

LEMMA EnterInv ==
    ASSUME DagInv, NEW n \in Nodes, at[n] \in {"created", "waiting"}, Ready(n), Enter(n),
           main # "validating", UNCHANGED <<depends_on, main>>
    PROVE  DagInv'
<1>1. Deps(n) \subseteq signalled
  BY DEF Ready, AllSignalled
<1>2. CASE /\ at' = [at EXCEPT ![n] = "running"] /\ agent' = [agent EXCEPT ![n] = "running"]
           /\ UNCHANGED signalled
  <2>1. Types'
    BY <1>2 DEF DagInv, Types, Points
  <2>2. n \notin signalled
    BY DEF DagInv, Signals
  <2>3. Signals'
    BY <1>1, <1>2, <2>2 DEF DagInv, Types, Signals, Deps
  <2> QED
    BY <2>1, <2>3 DEF DagInv
<1>3. CASE Record(n, "failed")
  BY <1>1, <1>3, RecordInv
<1> QED
  BY <1>2, <1>3 DEF Enter

LEMMA NodeStepInv ==
    ASSUME DagInv, NEW n \in Nodes, NodeStep(n), main # "validating"
    PROVE  DagInv'
<1>0. UNCHANGED <<depends_on, main>>
  BY DEF NodeStep, Begin, Resume, Finish, FinishCancelled, graphVars, mainVars
<1>1. CASE Begin(n)
  <2>1. CASE Block(n)
    <3>1. /\ at' = [at EXCEPT ![n] = "ended"] /\ signalled' = signalled \cup {n}
          /\ agent' = agent
      BY <2>1 DEF Block
    <3> QED
      BY <1>0, <3>1 DEF DagInv, Types, Signals, Deps, Points
  <2>2. CASE Ready(n) /\ Enter(n)
    BY <1>0, <1>1, <2>2, EnterInv DEF Begin
  <2>3. CASE at' = [at EXCEPT ![n] = "waiting"] /\ UNCHANGED <<agent, signalled>>
    <3>1. n \notin signalled
      BY <1>1 DEF Begin, DagInv, Signals
    <3> QED
      BY <1>0, <2>3, <3>1 DEF DagInv, Types, Signals, Deps, Points
  <2> QED
    BY <1>1, <2>1, <2>2, <2>3 DEF Begin
<1>2. CASE Resume(n)
  BY <1>0, <1>2, EnterInv DEF Resume
<1>3. CASE Finish(n)
  <2>1. PICK s \in {"complete", "stuck", "failed"} : Record(n, s)
    BY <1>3 DEF Finish
  <2>2. Deps(n) \subseteq signalled
    BY <1>3 DEF Finish, DagInv, Signals
  <2> QED
    BY <1>0, <2>1, <2>2, RecordInv
<1>4. CASE FinishCancelled(n)
  <2>1. /\ at[n] = "cancelling" /\ at' = [at EXCEPT ![n] = "ended"]
        /\ agent' = [agent EXCEPT ![n] = "cancelled"] /\ signalled' = signalled \cup {n}
    BY <1>4 DEF FinishCancelled
  <2>2. Types'
    BY <2>1 DEF DagInv, Types, Points
  <2>3. Signals'
    BY <1>0, <2>1 DEF DagInv, Types, Signals, Deps
  <2> QED
    BY <2>2, <2>3 DEF DagInv
<1> QED
  BY <1>1, <1>2, <1>3, <1>4 DEF NodeStep

\* The coroutine that is cancelled keeps its agent, or ends without one.
LEMMA CancelInv == DagInv /\ Cancel => DagInv'
<1> SUFFICES ASSUME DagInv, Cancel PROVE DagInv'
  OBVIOUS
<1>1. /\ UNCHANGED <<depends_on, agent, signalled>> /\ main = "awaiting" /\ main' = "cancelling"
      /\ at' = [at EXCEPT ![order[next]] = IF @ = "running" THEN "cancelling" ELSE "ended"]
  BY DEF Cancel, graphVars
<1>2. Types'
  BY <1>1 DEF DagInv, Types, Points
<1>3. Signals'
  BY <1>1 DEF DagInv, Types, Signals, Deps
<1> QED
  BY <1>2, <1>3 DEF DagInv

LEMMA MainStepInv == DagInv /\ (Collect \/ Return \/ Unwind) => DagInv'
BY DEF Collect, Return, Unwind, DagInv, Types, Signals, Deps, graphVars, nodeVars

\* A coroutine exists only behind the validation.
LEMMA NodeStepAwaits ==
    ASSUME NEW n \in Nodes, NodeStep(n), main = "validating" => at[n] = "absent"
    PROVE  main # "validating"
BY DEF NodeStep, Begin, Resume, Finish, FinishCancelled

Unborn == main = "validating" => \A n \in Nodes : at[n] = "absent"

THEOREM Invariance == Spec => [](DagInv /\ Unborn)
<1>1. Init => Unborn
  BY DEF Init, Unborn
<1>2. DagInv /\ Unborn /\ [Next]_vars => (DagInv /\ Unborn)'
  <2> SUFFICES ASSUME DagInv, Unborn, [Next]_vars PROVE DagInv' /\ Unborn'
    OBVIOUS
  <2>1. CASE \E n \in Nodes : NodeStep(n)
    <3>1. PICK n \in Nodes : NodeStep(n)
      BY <2>1
    <3>2. main # "validating" /\ main' = main
      BY <3>1, NodeStepAwaits DEF Unborn, NodeStep, Begin, Resume, Finish, FinishCancelled,
         mainVars
    <3> QED
      BY <3>1, <3>2, NodeStepInv DEF Unborn
  <2>2. CASE Validate
    BY <2>2, ValidateInv DEF Unborn, Validate
  <2>3. CASE Collect \/ Return \/ Unwind
    BY <2>3, MainStepInv DEF Unborn, Collect, Return, Unwind, nodeVars
  <2>4. CASE Cancel
    BY <2>4, CancelInv DEF Unborn, Cancel
  <2>5. CASE UNCHANGED vars
    BY <2>5 DEF vars, graphVars, nodeVars, mainVars, DagInv, Types, Signals, Deps, Unborn
  <2> QED
    BY <2>1, <2>2, <2>3, <2>4, <2>5 DEF Next, MainStep
<1> QED
  BY InitInv, <1>1, <1>2, PTL DEF Spec

\* No agent runs before its dependencies have ended, whoever is cancelled.
THEOREM DependenciesFirst == Spec => []RunsAfterDependencies
<1>1. DagInv => RunsAfterDependencies
  BY DEF DagInv, Types, Signals, RunsAfterDependencies
<1> QED
  BY Invariance, <1>1, PTL

---------------------------------------------------------------------------
(* The semaphore.                                                          *)

LEMMA NodesAreFinite == IsFiniteSet(Nodes)
<1>1. PICK k \in Nat : Ids \in [1..k -> Nodes]
  OBVIOUS
<1>2. IsFiniteSet(1..k)
  BY FS_Interval
<1>3. Ids \in Surjection(1..k, Nodes)
  BY <1>1 DEF Nodes, Names, ToSet, Surjection
<1> QED
  BY <1>2, <1>3, FS_Surjection

\* One node more inside the semaphore is one holder more at most.
LEMMA OneMoreHolder ==
    ASSUME BoundedParallelism, NEW n \in Nodes, Free, Holders' \subseteq Holders \cup {n}
    PROVE  BoundedParallelism'
<1>1. IsFiniteSet(Holders)
  BY NodesAreFinite, FS_Subset DEF Holders
<1>a. Cardinality(Holders) \in Nat
  BY <1>1, FS_CardinalityType
<1>b. /\ IsFiniteSet(Holders \cup {n})
      /\ Cardinality(Holders \cup {n}) =
           IF n \in Holders THEN Cardinality(Holders) ELSE Cardinality(Holders) + 1
  BY <1>1, FS_AddElement
<1>2. IsFiniteSet(Holders \cup {n}) /\ Cardinality(Holders) \in Nat
      /\ Cardinality(Holders \cup {n}) <= Cardinality(Holders) + 1
  BY <1>a, <1>b
<1>3. Cardinality(Holders') <= Cardinality(Holders \cup {n}) /\ Cardinality(Holders') \in Nat
  BY <1>2, FS_Subset, FS_CardinalityType
<1>4. Cardinality(Holders \cup {n}) \in Nat /\ MaxParallel \in Nat
  BY <1>2, FS_CardinalityType
<1> QED
  BY <1>2, <1>3, <1>4 DEF Free, BoundedParallelism

LEMMA NoMoreHolders == BoundedParallelism /\ Holders' \subseteq Holders => BoundedParallelism'
<1> SUFFICES ASSUME BoundedParallelism, Holders' \subseteq Holders PROVE BoundedParallelism'
  OBVIOUS
<1>1. IsFiniteSet(Holders)
  BY NodesAreFinite, FS_Subset DEF Holders
<1>2. /\ Cardinality(Holders') <= Cardinality(Holders) /\ Cardinality(Holders) \in Nat
      /\ Cardinality(Holders') \in Nat /\ MaxParallel \in Nat
  BY <1>1, FS_Subset, FS_CardinalityType
<1> QED
  BY <1>2 DEF BoundedParallelism

\* At most max_parallel agents are executed, also while they are cancelled.
THEOREM Parallelism == Spec => []BoundedParallelism
<1>1. Init => BoundedParallelism
  <2> SUFFICES ASSUME Init PROVE BoundedParallelism
    OBVIOUS
  <2>1. Holders = {}
    BY DEF Init, Holders
  <2> QED
    BY <2>1, FS_EmptySet DEF BoundedParallelism
<1>2. DagInv /\ Unborn /\ BoundedParallelism /\ [Next]_vars => BoundedParallelism'
  <2> SUFFICES ASSUME DagInv, Unborn, BoundedParallelism, [Next]_vars
               PROVE  BoundedParallelism'
    OBVIOUS
  <2>0. at \in [Nodes -> Points]
    BY DEF DagInv, Types
  <2>1. CASE \E n \in Nodes : NodeStep(n)
    <3>1. PICK n \in Nodes : NodeStep(n)
      BY <2>1
    <3>2. Holders' \subseteq Holders \cup {n}
      BY <2>0, <3>1 DEF NodeStep, Begin, Resume, Finish, FinishCancelled, Block, Enter, Record,
         Holders
    <3>3. Free \/ n \notin Holders'
      BY <2>0, <3>1 DEF NodeStep, Begin, Resume, Finish, FinishCancelled, Block, Record,
         Holders, Ready
    <3> QED
      BY <3>1, <3>2, <3>3, OneMoreHolder, NoMoreHolders
  <2>2. CASE Validate
    BY <2>2, NoMoreHolders DEF Validate, Holders
  <2>3. CASE Collect \/ Return \/ Unwind \/ UNCHANGED vars
    BY <2>3, NoMoreHolders DEF Collect, Return, Unwind, vars, nodeVars, Holders
  <2>4. CASE Cancel
    <3>1. Holders' \subseteq Holders
      BY <2>0, <2>4 DEF Cancel, Holders
    <3> QED
      BY <3>1, NoMoreHolders
  <2> QED
    BY <2>1, <2>2, <2>3, <2>4 DEF Next, MainStep
<1> QED
  BY Invariance, <1>1, <1>2, PTL DEF Spec

---------------------------------------------------------------------------
(* What execute_dag returns.                                               *)

\* Until it is cancelled: what the records of a node say, by where it is.
Recorded(n) ==
    /\ at[n] \in {"absent", "created", "waiting"} =>
         agent[n] = "none" /\ status[n] = "pending" /\ n \notin failed
    /\ at[n] = "running" =>
         agent[n] = "running" /\ status[n] = "running" /\ n \notin failed
    /\ at[n] # "cancelling"
    /\ at[n] = "ended" =>
         \/ agent[n] = "complete" /\ status[n] = "completed" /\ n \notin failed
         \/ agent[n] \in {"stuck", "failed"} /\ status[n] = "failed" /\ n \in failed
         \/ /\ agent[n] = "none" /\ status[n] = "blocked" /\ n \notin failed
            /\ Deps(n) \cap failed # {}

\* ... and what has been collected: the coroutines before `next`, in order.
Collected ==
    /\ next \in Nat \ {0}
    /\ \A n \in results : n \in Nodes /\ agent[n] # "none"
    /\ \A i \in DOMAIN order : i < next =>
         at[order[i]] = "ended" /\ (agent[order[i]] # "none" => order[i] \in results)
    /\ main = "returned" => next > Len(order)
    /\ main \in {"validating", "rejected"} => next = 1

Cut == main \in {"cancelling", "cancelled"}

Whole ==
    \/ Cut
    \/ /\ Collected /\ DOMAIN status = Nodes
       /\ \A n \in Nodes : Recorded(n)

\* A step of the coroutine of n changes the records of n, and they agree.
Changes(n) ==
    /\ Recorded(n)' /\ failed \subseteq failed' /\ failed' \subseteq failed \cup {n}
    /\ at[n] # "ended" /\ DOMAIN status' = Nodes
    /\ agent[n] # "none" => agent'[n] # "none"
    /\ \A m \in Nodes \ {n} :
         at'[m] = at[m] /\ agent'[m] = agent[m] /\ status'[m] = status[m]
    /\ UNCHANGED <<depends_on, order, results, main, next>>

LEMMA RecordRecorded ==
    ASSUME DagInv, NEW n \in Nodes, NEW s \in {"complete", "stuck", "failed"}, Record(n, s),
           at[n] # "ended", n \notin failed, DOMAIN status = Nodes,
           UNCHANGED <<depends_on, order, results, main, next>>
    PROVE  Changes(n)
<1>1. /\ at' = [at EXCEPT ![n] = "ended"] /\ agent' = [agent EXCEPT ![n] = s]
      /\ status' = [status EXCEPT ![n] = IF s = "complete" THEN "completed" ELSE "failed"]
      /\ failed' = IF s = "complete" THEN failed ELSE failed \cup {n}
  BY DEF Record
<1>2. DOMAIN at = Nodes /\ DOMAIN agent = Nodes
  BY DEF DagInv, Types
<1> QED
  BY <1>1, <1>2 DEF Changes, Recorded

LEMMA EnterRecorded ==
    ASSUME DagInv, NEW n \in Nodes, Enter(n), at[n] \in {"created", "waiting"}, Recorded(n),
           DOMAIN status = Nodes, UNCHANGED <<depends_on, order, results, main, next>>
    PROVE  Changes(n)
<1>1. n \notin failed /\ DOMAIN at = Nodes /\ DOMAIN agent = Nodes
  BY DEF DagInv, Types, Recorded
<1>2. CASE /\ at' = [at EXCEPT ![n] = "running"] /\ agent' = [agent EXCEPT ![n] = "running"]
           /\ status' = [status EXCEPT ![n] = "running"] /\ failed' = failed
  BY <1>1, <1>2 DEF Changes, Recorded
<1>3. CASE Record(n, "failed")
  BY <1>1, <1>3, RecordRecorded
<1> QED
  BY <1>2, <1>3 DEF Enter

LEMMA NodeRecorded ==
    ASSUME DagInv, NEW n \in Nodes, Recorded(n), NodeStep(n), DOMAIN status = Nodes
    PROVE  Changes(n)
<1>0. UNCHANGED <<depends_on, order, results, main, next>>
  BY DEF NodeStep, Begin, Resume, Finish, FinishCancelled, graphVars, mainVars
<1>1. DOMAIN at = Nodes /\ DOMAIN agent = Nodes
  BY DEF DagInv, Types
<1>2. CASE Begin(n)
  <2>1. at[n] = "created" /\ agent[n] = "none" /\ n \notin failed /\ status[n] = "pending"
    BY <1>2 DEF Begin, Recorded
  <2>2. CASE Block(n) /\ Deps(n) \cap failed # {}
    <3>1. /\ at' = [at EXCEPT ![n] = "ended"] /\ status' = [status EXCEPT ![n] = "blocked"]
          /\ agent' = agent /\ failed' = failed
      BY <2>2 DEF Block
    <3>2. Deps(n)' \cap failed' # {}
      BY <1>0, <2>2, <3>1 DEF Deps
    <3> QED
      BY <1>0, <1>1, <2>1, <3>1, <3>2 DEF Changes, Recorded
  <2>3. CASE Enter(n)
    BY <1>0, <2>1, <2>3, EnterRecorded
  <2>4. CASE at' = [at EXCEPT ![n] = "waiting"] /\ UNCHANGED <<status, agent, failed>>
    BY <1>0, <1>1, <2>1, <2>4 DEF Changes, Recorded
  <2> QED
    BY <1>2, <2>2, <2>3, <2>4 DEF Begin
<1>3. CASE Resume(n)
  BY <1>0, <1>3, EnterRecorded DEF Resume
<1>4. CASE Finish(n)
  <2>1. PICK s \in {"complete", "stuck", "failed"} : Record(n, s)
    BY <1>4 DEF Finish
  <2>2. at[n] = "running" /\ n \notin failed
    BY <1>4 DEF Finish, Recorded
  <2> QED
    BY <1>0, <2>1, <2>2, RecordRecorded
<1>5. CASE FinishCancelled(n)
  BY <1>5 DEF FinishCancelled, Recorded
<1> QED
  BY <1>2, <1>3, <1>4, <1>5 DEF NodeStep

LEMMA NodeWhole ==
    ASSUME DagInv, Whole, NEW n \in Nodes, NodeStep(n), OrderListsNodes
    PROVE  Whole'
<1>1. CASE Cut
  <2>1. main' = main
    BY DEF NodeStep, Begin, Resume, Finish, FinishCancelled, mainVars
  <2> QED
    BY <1>1, <2>1 DEF Whole, Cut
<1>2. CASE ~Cut
  <2>1. Collected /\ (\A m \in Nodes : Recorded(m)) /\ DOMAIN status = Nodes
    BY <1>2 DEF Whole
  <2>2. Changes(n)
    BY <2>1, NodeRecorded
  <2>3. ASSUME NEW m \in Nodes, m # n PROVE Recorded(m)'
    <3>1. Recorded(m) /\ Deps(m)' = Deps(m)
      BY <2>1, <2>2 DEF Changes, Deps
    <3>2. at'[m] = at[m] /\ agent'[m] = agent[m] /\ status'[m] = status[m]
          /\ (m \in failed' <=> m \in failed) /\ failed \subseteq failed'
      BY <2>2, <2>3 DEF Changes
    <3> QED
      BY <3>1, <3>2 DEF Recorded
  <2>4. Recorded(n)'
    BY <2>2 DEF Changes
  <2>5. Collected'
    <3>1. ASSUME NEW m \in Nodes, agent[m] # "none" PROVE agent'[m] # "none"
      BY <2>2, <3>1 DEF Changes
    <3>2. ASSUME NEW m \in Nodes, at[m] = "ended"
          PROVE at'[m] = "ended" /\ agent'[m] = agent[m]
      BY <2>2, <3>2 DEF Changes
    <3>3. \A i \in DOMAIN order : order[i] \in Nodes
      BY DEF OrderListsNodes
    <3>4. results \subseteq Nodes
      BY <2>1 DEF Collected
    <3> QED
      BY <2>1, <2>2, <3>1, <3>2, <3>3, <3>4 DEF Collected, Changes
  <2> QED
    BY <2>2, <2>3, <2>4, <2>5 DEF Whole, Changes
<1> QED
  BY <1>1, <1>2

LEMMA MainWhole ==
    ASSUME DagInv, Unborn, Whole, OrderListsNodes, OrderListsNodes', MainStep \/ Cancel
    PROVE  Whole'
<1>0. /\ DOMAIN at = Nodes /\ DOMAIN agent = Nodes
      /\ \A i \in DOMAIN order : order[i] \in Nodes
      /\ \A i \in DOMAIN order' : order'[i] \in Nodes
      /\ Len(order) \in Nat /\ DOMAIN order = 1..Len(order)
  BY DEF DagInv, Types, OrderListsNodes
<1>1. CASE Cut \/ Cancel
  BY <1>1 DEF Cut, Whole, MainStep, Validate, Collect, Return, Unwind, Cancel
<1>2. CASE ~Cut /\ Validate
  <2>1. Collected /\ DOMAIN status = Nodes /\ (\A n \in Nodes : Recorded(n))
    BY <1>2 DEF Whole
  <2>2. /\ UNCHANGED <<depends_on, status, agent, failed, results, next>>
        /\ \A n \in Nodes : at[n] = "absent" /\ at'[n] \in {"absent", "created"}
        /\ next = 1 /\ main' # "returned"
    BY <1>2, <2>1 DEF Validate, Unborn, Collected
  <2>3. \A n \in Nodes : Recorded(n)'
    BY <2>1, <2>2 DEF Recorded
  <2>4. \A i \in DOMAIN order' : ~(i < next')
    BY <2>2 DEF OrderListsNodes
  <2>5. Collected'
    BY <2>1, <2>2, <2>4 DEF Collected
  <2> QED
    BY <2>1, <2>2, <2>3, <2>5 DEF Whole
<1>3. CASE ~Cut /\ Collect
  <2>1. Collected /\ DOMAIN status = Nodes /\ (\A n \in Nodes : Recorded(n))
    BY <1>3 DEF Whole
  <2>2. /\ UNCHANGED <<depends_on, order, at, status, agent, failed, main>>
        /\ next' = next + 1 /\ next <= Len(order) /\ at[order[next]] = "ended"
        /\ results' = IF agent[order[next]] # "none" THEN results \cup {order[next]} ELSE results
        /\ main = "awaiting"
    BY <1>3 DEF Collect, graphVars, nodeVars
  <2>3. next \in DOMAIN order /\ next \in Nat \ {0}
    BY <1>0, <2>1, <2>2 DEF Collected
  <2>4. \A n \in Nodes : Recorded(n)'
    BY <2>1, <2>2 DEF Recorded, Deps
  <2>5. \A i \in DOMAIN order : i < next + 1 => i < next \/ i = next
    BY <1>0, <2>3
  <2>6. Collected'
    BY <1>0, <2>1, <2>2, <2>3, <2>5 DEF Collected
  <2> QED
    BY <2>1, <2>2, <2>4, <2>6 DEF Whole
<1>4. CASE ~Cut /\ (Return \/ Unwind)
  <2>1. /\ UNCHANGED <<depends_on, order, at, status, agent, failed, results, next>>
        /\ main = "awaiting" /\ next > Len(order) /\ main' = "returned"
    BY <1>4 DEF Return, Unwind, Cut, graphVars, nodeVars
  <2>2. Collected /\ DOMAIN status = Nodes /\ (\A n \in Nodes : Recorded(n))
    BY <1>4 DEF Whole
  <2>3. Collected'
    BY <2>1, <2>2 DEF Collected
  <2>4. \A n \in Nodes : Recorded(n)'
    BY <2>1, <2>2 DEF Recorded, Deps
  <2> QED
    BY <2>1, <2>2, <2>3, <2>4 DEF Whole
<1> QED
  BY <1>1, <1>2, <1>3, <1>4 DEF MainStep

\* What execute_dag returns is the whole graph, told alike by all records.
THEOREM Wholeness == Spec => []ReturnsTheWhole
<1>0. GraphInv => OrderListsNodes
  BY DEF GraphInv
<1>1. Init => Whole
  BY DEF Init, Whole, Collected, Recorded
<1>2. /\ DagInv /\ Unborn /\ Whole /\ OrderListsNodes /\ OrderListsNodes'
      /\ [Next]_vars
      => Whole'
  <2> SUFFICES ASSUME DagInv, Unborn, Whole, OrderListsNodes, OrderListsNodes', [Next]_vars
               PROVE  Whole'
    OBVIOUS
  <2>1. CASE \E n \in Nodes : NodeStep(n)
    BY <2>1, NodeWhole
  <2>2. CASE MainStep \/ Cancel
    BY <2>2, MainWhole
  <2>3. CASE UNCHANGED vars
    BY <2>3 DEF vars, graphVars, nodeVars, mainVars, Whole, Cut, Collected, Recorded, Deps
  <2> QED
    BY <2>1, <2>2, <2>3 DEF Next
<1>3. Whole /\ OrderListsNodes => ReturnsTheWhole
  <2> SUFFICES ASSUME Whole, OrderListsNodes, main = "returned", NEW i \in DOMAIN order
               PROVE  LET n == order[i] IN
                      /\ at[n] = "ended"
                      /\ n \in results <=> agent[n] # "none"
                      /\ n \notin results => status[n] = "blocked" /\ Deps(n) \cap failed # {}
                      /\ n \in failed <=> agent[n] \in {"stuck", "failed"}
                      /\ status[n] = "completed" <=> agent[n] = "complete"
                      /\ status[n] = "failed" <=> n \in failed
    BY DEF ReturnsTheWhole, Names, ToSet
  <2>1. order[i] \in Nodes /\ i < next /\ Collected /\ Recorded(order[i])
    BY DEF OrderListsNodes, Whole, Cut, Collected
  <2>2. at[order[i]] = "ended"
    BY <2>1 DEF Collected
  <2>3. order[i] \in results <=> agent[order[i]] # "none"
    BY <2>1 DEF Collected
  <2> QED
    BY <2>1, <2>2, <2>3 DEF Recorded
<1> QED
  BY Invariance, GraphInvariance, <1>0, <1>1, <1>2, <1>3, PTL DEF Spec

---------------------------------------------------------------------------
(* Types.                                                                  *)

LEMMA TypeStep ==
    ASSUME DagInv, TypeOK, OrderListsNodes, [Next]_vars
    PROVE  TypeOK'
<1>1. ASSUME NEW n \in Nodes, NodeStep(n) PROVE TypeOK'
  <2>1. /\ depends_on' = depends_on /\ UNCHANGED <<results, main, next>>
    BY <1>1 DEF NodeStep, Begin, Resume, Finish, FinishCancelled, graphVars, mainVars
  <2>2. /\ \E p \in {"waiting", "running", "ended"} : at' = [at EXCEPT ![n] = p]
        /\ status' = status \/ \E s \in {"blocked", "running", "completed", "failed"} :
                                 status' = [status EXCEPT ![n] = s]
        /\ agent' = agent \/ \E s \in {"running", "complete", "stuck", "failed", "cancelled"} :
                               agent' = [agent EXCEPT ![n] = s]
        /\ failed' \in {failed, failed \cup {n}} /\ signalled' \in {signalled, signalled \cup {n}}
    <3>1. CASE Enter(n)
      BY <3>1 DEF Enter, Record
    <3>2. CASE Block(n)
      BY <3>2 DEF Block
    <3>3. CASE Finish(n)
      BY <3>3 DEF Finish, Record
    <3> QED
      BY <1>1, <3>1, <3>2, <3>3 DEF NodeStep, Begin, Resume, FinishCancelled
  <2>3. at' \in [Nodes -> Points]
    BY <2>2 DEF TypeOK, Points
  <2>4. status' \in [Nodes -> {"pending", "blocked", "running", "completed", "failed"}]
    BY <2>2 DEF TypeOK
  <2>5. agent' \in [Nodes -> {"none", "running", "complete", "stuck", "failed", "cancelled"}]
    BY <2>2 DEF TypeOK
  <2>6. failed' \subseteq Nodes /\ signalled' \subseteq Nodes
    BY <2>2 DEF TypeOK
  <2> QED
    BY <2>1, <2>3, <2>4, <2>5, <2>6 DEF TypeOK, Points
<1>2. CASE Validate
  BY <1>2 DEF Validate, TypeOK
<1>3. CASE Collect
  <2>1. next \in DOMAIN order /\ order[next] \in Nodes
    BY <1>3 DEF Collect, OrderListsNodes, TypeOK
  <2> QED
    BY <1>3, <2>1 DEF Collect, graphVars, nodeVars, TypeOK
<1>4. CASE Return \/ Unwind \/ UNCHANGED vars
  BY <1>4 DEF Return, Unwind, vars, graphVars, nodeVars, mainVars, TypeOK
<1>5. CASE Cancel
  BY <1>5 DEF Cancel, graphVars, TypeOK
<1> QED
  BY <1>1, <1>2, <1>3, <1>4, <1>5 DEF Next, MainStep

\* Every variable of execute_dag keeps its type.
THEOREM TypeCorrect == Spec => []TypeOK
<1>0. GraphInv => OrderListsNodes
  BY DEF GraphInv
<1>1. Init => TypeOK
  BY DEF Init, TypeOK
<1> QED
  BY Invariance, GraphInvariance, <1>0, <1>1, TypeStep, PTL DEF Spec

---------------------------------------------------------------------------
(* That execute_dag ends rests on two facts about its steps: one of them is *)
(* always left to take, and each leads on.                                  *)

Rows ==
    /\ main \in {"validating", "rejected"} => next = 1 /\ \A n \in Nodes : at[n] = "absent"
    /\ main \notin {"validating", "rejected"} =>
          \A n \in Nodes : at[n] # "absent" <=> n \in Names(order)
    /\ main = "awaiting" => \A n \in Nodes : at[n] = "ended" => n \in signalled
    /\ main = "cancelling" => next \in DOMAIN order /\ at[order[next]] \in {"cancelling", "ended"}
    /\ next \in 1..(Len(order) + 1)
    /\ main \in {"validating", "rejected", "awaiting", "returned", "cancelling", "cancelled"}

LEMMA RowsNode ==
    ASSUME GraphInv, DagInv, Rows, NEW n \in Nodes, NodeStep(n)
    PROVE  Rows'
<1>1. UNCHANGED <<order, main, next>>
  BY DEF NodeStep, Begin, Resume, Finish, FinishCancelled, graphVars, mainVars
<1>2. /\ at \in [Nodes -> Points] /\ at[n] \notin {"absent", "ended"}
      /\ \E p \in {"waiting", "running", "ended"} : at' = [at EXCEPT ![n] = p]
      /\ at'[n] = "ended" => signalled' = signalled \cup {n}
      /\ at'[n] # "ended" => signalled' = signalled
      /\ at[n] = "cancelling" => at'[n] = "ended"
  <2>1. at \in [Nodes -> Points]
    BY DEF DagInv, Types
  <2>2. CASE Enter(n) /\ at[n] \in {"created", "waiting"}
    BY <2>1, <2>2 DEF Enter, Record
  <2>3. CASE Block(n) /\ at[n] = "created"
    BY <2>1, <2>3 DEF Block
  <2>4. CASE Finish(n) \/ FinishCancelled(n)
    BY <2>1, <2>4 DEF Finish, FinishCancelled, Record
  <2>5. CASE at[n] = "created" /\ at' = [at EXCEPT ![n] = "waiting"] /\ signalled' = signalled
    BY <2>1, <2>5
  <2> QED
    BY <2>2, <2>3, <2>4, <2>5 DEF NodeStep, Begin, Resume
<1>3. \A m \in Nodes : m # n => at'[m] = at[m]
  BY <1>2
<1>4. at'[n] # "absent" /\ signalled \subseteq signalled'
  BY <1>2
<1>5. main \notin {"validating", "rejected"}
  BY <1>2 DEF Rows
<1>6. ASSUME main = "awaiting", NEW m \in Nodes, at'[m] = "ended" PROVE m \in signalled'
  BY <1>2, <1>3, <1>6 DEF Rows
<1>7. ASSUME main = "cancelling" PROVE at'[order[next]] \in {"cancelling", "ended"}
  <2>1. order[next] \in Nodes
    BY <1>7 DEF Rows, GraphInv, OrderListsNodes
  <2> QED
    BY <1>2, <1>3, <1>7, <2>1 DEF Rows
<1> QED
  BY <1>1, <1>2, <1>3, <1>4, <1>5, <1>6, <1>7 DEF Rows

LEMMA RowsMain ==
    ASSUME GraphInv, GraphInv', DagInv, Rows, MainStep \/ Cancel
    PROVE  Rows'
<1>0. /\ order \in Seq(Nodes) /\ order' \in Seq(Nodes) /\ at \in [Nodes -> Points]
      /\ Len(order) \in Nat /\ DOMAIN order = 1..Len(order) /\ Len(order') \in Nat
  BY DEF GraphInv, OrderListsNodes, DagInv, Types
<1>1. CASE Validate
  <2>1. CASE main' = "awaiting"
    <3>1. /\ next = 1 /\ next' = 1
          /\ \A n \in Nodes : at'[n] = IF n \in Names(order') THEN "created" ELSE "absent"
      BY <1>1, <2>1 DEF Validate, Rows
    <3> QED
      BY <1>0, <2>1, <3>1 DEF Rows
  <2>2. CASE main' = "rejected"
    BY <1>1, <2>2 DEF Validate, Rows
  <2> QED
    BY <1>1, <2>1, <2>2 DEF Validate
<1>2. CASE Collect
  BY <1>0, <1>2 DEF Collect, graphVars, nodeVars, Rows
<1>3. CASE Return \/ Unwind
  BY <1>3 DEF Return, Unwind, graphVars, nodeVars, Rows
<1>4. CASE Cancel
  <2>1. /\ main = "awaiting" /\ next \in DOMAIN order /\ order[next] \in Nodes
        /\ main' = "cancelling" /\ UNCHANGED <<order, next>>
        /\ at' = [at EXCEPT ![order[next]] = IF @ = "running" THEN "cancelling" ELSE "ended"]
    BY <1>0, <1>4 DEF Cancel, graphVars, Rows
  <2>2. order[next] \in Names(order)
    BY <2>1 DEF Names, ToSet
  <2>3. at'[order[next]] \in {"cancelling", "ended"}
    BY <1>0, <2>1
  <2>4. \A m \in Nodes : m # order[next] => at'[m] = at[m]
    BY <1>0, <2>1
  <2> QED
    BY <2>1, <2>2, <2>3, <2>4 DEF Rows
<1> QED
  BY <1>1, <1>2, <1>3, <1>4 DEF MainStep

LEMMA RowsInvariance == Spec => []Rows
<1>1. Init => Rows
  BY DEF Init, Rows
<1>2. ASSUME GraphInv, GraphInv', DagInv, Rows, [Next]_vars PROVE Rows'
  <2>1. CASE UNCHANGED vars
    BY <1>2, <2>1 DEF vars, graphVars, nodeVars, mainVars, Rows
  <2> QED
    BY <1>2, <2>1, RowsNode, RowsMain DEF Next
<1> QED
  BY Invariance, GraphInvariance, <1>1, <1>2, PTL DEF Spec

\* The steps that are left to take: the guards of NodeStep and MainStep.
NodeMay(n) ==
    \/ /\ at[n] = "created"
       /\ \A i, j \in DOMAIN order : i < j /\ order[j] = n => at[order[i]] # "created"
    \/ at[n] = "waiting" /\ Begun /\ Ready(n)
    \/ at[n] \in {"running", "cancelling"} /\ Begun

MainMay ==
    \/ main = "validating"
    \/ main = "awaiting" /\ (next > Len(order) \/ at[order[next]] = "ended")
    \/ main = "cancelling" /\ at[order[next]] = "ended"

NeverStuck ==
    main \in {"validating", "awaiting", "cancelling"} => MainMay \/ \E n \in Nodes : NodeMay(n)

\* The first node of the order whose coroutine is at p.
LEMMA FirstAt ==
    ASSUME GraphInv, Rows, main \in {"awaiting", "cancelling"}, NEW p, p # "absent",
           NEW n \in Nodes, at[n] = p
    PROVE  \E i \in DOMAIN order : /\ order[i] \in Nodes /\ at[order[i]] = p
                                   /\ \A k \in DOMAIN order : k < i => at[order[k]] # p
<1> DEFINE S == {i \in DOMAIN order : at[order[i]] = p}
<1>1. order \in Seq(Nodes) /\ DOMAIN order = 1..Len(order) /\ Len(order) \in Nat
  BY DEF GraphInv, OrderListsNodes
<1>2. n \in Names(order)
  BY DEF Rows
<1>3. S \subseteq Nat /\ S # {}
  BY <1>1, <1>2 DEF Names, ToSet
<1>4. PICK i \in S : \A k \in S : i <= k
  <2> HIDE DEF S
  <2> QED
    BY <1>3, LeastOf
<1>5. \A k \in DOMAIN order : k < i => k \notin S
  BY <1>1, <1>4
<1> QED
  BY <1>1, <1>4, <1>5

\* Until execute_dag has ended there is a coroutine that can go on, or
\* execute_dag itself: the nodes do not wait for each other in a circle, nor
\* for events that are never set.
THEOREM Unstuck == Spec => []NeverStuck
<1>1. ASSUME GraphInv, DagInv, Rows, main \in {"awaiting", "cancelling"}
      PROVE  NeverStuck
  <2>1. /\ order \in Seq(Nodes) /\ DOMAIN order = 1..Len(order) /\ Len(order) \in Nat
        /\ at \in [Nodes -> Points] /\ IsExecutionOrder(order, depends_on)
        /\ DOMAIN depends_on = Nodes
    BY <1>1 DEF GraphInv, OrderListsNodes, GraphsAreOrdered, DagInv, Types
  <2>2. /\ \A i, j \in DOMAIN order : order[i] = order[j] => i = j
        /\ \A i \in DOMAIN order : Deps(order[i]) \subseteq {order[j] : j \in 1..(i - 1)}
    <3>1. /\ IsInjective(order)
          /\ \A i \in DOMAIN order : AsGraph(depends_on)[order[i]] \subseteq {order[j] : j \in 1..(i - 1)}
      BY <2>1 DEF IsExecutionOrder
    <3>2. \A i \in DOMAIN order : AsGraph(depends_on)[order[i]] = Deps(order[i])
      BY <2>1 DEF AsGraph, Deps
    <3> QED
      BY <3>1, <3>2 DEF IsInjective
  <2>3. CASE ~Begun
    <3>1. PICK n \in Nodes : at[n] = "created"
      BY <2>3 DEF Begun
    <3>2. PICK i \in DOMAIN order : /\ order[i] \in Nodes /\ at[order[i]] = "created"
                                    /\ \A k \in DOMAIN order : k < i => at[order[k]] # "created"
      BY <1>1, <3>1, FirstAt
    <3>3. NodeMay(order[i])
      BY <2>2, <3>2 DEF NodeMay
    <3> QED
      BY <3>2, <3>3 DEF NeverStuck
  <2>4. CASE Begun /\ Holders # {}
    BY <2>4 DEF Holders, NodeMay, NeverStuck
  <2>5. CASE Begun /\ Holders = {} /\ main = "cancelling"
    <3>1. next \in DOMAIN order /\ at[order[next]] \in {"cancelling", "ended"} /\ order[next] \in Nodes
      BY <1>1, <2>1, <2>5 DEF Rows
    <3> QED
      BY <2>5, <3>1 DEF Holders, MainMay, NeverStuck
  <2>6. CASE Begun /\ Holders = {} /\ main = "awaiting"
    <3> SUFFICES ASSUME next <= Len(order), at[order[next]] # "ended"
                 PROVE  \E n \in Nodes : NodeMay(n)
      <4>1. next \in Nat
        BY <1>1, <2>1 DEF Rows
      <4> QED
        BY <2>1, <2>6, <4>1 DEF MainMay, NeverStuck
    <3>1. next \in DOMAIN order /\ order[next] \in Nodes
      BY <1>1, <2>1 DEF Rows
    <3>2. \A i \in DOMAIN order : /\ order[i] \in Nodes /\ at[order[i]] # "absent"
                                  /\ at[order[i]] \in {"waiting", "ended"}
      <4> TAKE i \in DOMAIN order
      <4>1. order[i] \in Nodes /\ order[i] \in Names(order)
        BY <2>1 DEF Names, ToSet
      <4>2. at[order[i]] # "absent"
        BY <1>1, <2>6, <4>1 DEF Rows
      <4> QED
        BY <2>1, <2>6, <4>1, <4>2 DEF Begun, Holders, Points
    <3>3. PICK i \in DOMAIN order : /\ order[i] \in Nodes /\ at[order[i]] = "waiting"
                                    /\ \A k \in DOMAIN order : k < i => at[order[k]] # "waiting"
      BY <1>1, <2>6, <3>1, <3>2, FirstAt
    <3>4. AllSignalled(order[i])
      <4> SUFFICES ASSUME NEW d \in Deps(order[i]) PROVE d \in signalled
        BY DEF AllSignalled
      <4>1. PICK j \in 1..(i - 1) : d = order[j]
        BY <2>2, <3>3
      <4>2. j \in DOMAIN order /\ j < i
        BY <2>1, <4>1
      <4>3. d \in Nodes /\ at[d] = "ended"
        BY <3>2, <3>3, <4>1, <4>2
      <4> QED
        BY <1>1, <2>6, <4>3 DEF Rows
    <3>5. Free
      <4>1. Cardinality(Holders) = 0
        BY <2>6, FS_EmptySet
      <4> QED
        BY <4>1 DEF Free
    <3>6. NodeMay(order[i])
      BY <2>6, <3>3, <3>4, <3>5 DEF NodeMay, Ready
    <3> QED
      BY <3>3, <3>6
  <2> QED
    BY <1>1, <2>3, <2>4, <2>5, <2>6
<1>2. GraphInv /\ DagInv /\ Rows => NeverStuck
  <2>1. main = "validating" => NeverStuck
    BY DEF NeverStuck, MainMay
  <2>2. main \notin {"validating", "awaiting", "cancelling"} => NeverStuck
    BY DEF NeverStuck
  <2> QED
    BY <1>1, <2>1, <2>2
<1> QED
  BY Invariance, GraphInvariance, RowsInvariance, <1>2, PTL

\* How far a coroutine and execute_dag are.
Place(p) ==
    CASE p = "absent" -> 0 [] p = "created" -> 1 [] p = "waiting" -> 2
      [] p = "running" -> 3 [] p = "cancelling" -> 4 [] p = "ended" -> 5

Stage(m) ==
    CASE m = "validating" -> 0 [] m = "awaiting" -> 1 [] m = "cancelling" -> 2
      [] m \in {"rejected", "returned", "cancelled"} -> 3

Onward ==
    /\ \A n \in Nodes : Place(at'[n]) >= Place(at[n])
    /\ Stage(main') >= Stage(main) /\ next' >= next /\ next' <= Len(order') + 1
    /\ \/ \E n \in Nodes : Place(at'[n]) > Place(at[n])
       \/ Stage(main') > Stage(main) \/ next' > next

\* No step is taken back: each brings a coroutine or execute_dag further, and
\* there are only as many steps as places.
THEOREM NoWayBack == Spec => [][Onward]_vars
<1>1. ASSUME GraphInv, GraphInv', DagInv, Rows, Rows', Next PROVE Onward
  <2>1. /\ at \in [Nodes -> Points] /\ Len(order) \in Nat /\ Len(order') \in Nat
        /\ next \in Nat /\ next' \in Nat /\ next' <= Len(order') + 1
    <3>1. order \in Seq(Nodes) /\ order' \in Seq(Nodes)
      BY <1>1 DEF GraphInv, OrderListsNodes
    <3> QED
      BY <1>1, <3>1 DEF DagInv, Types, Rows
  <2>2. CASE \E n \in Nodes : NodeStep(n)
    <3>1. PICK n \in Nodes : NodeStep(n)
      BY <2>2
    <3>2. UNCHANGED <<main, next>>
      BY <3>1 DEF NodeStep, Begin, Resume, Finish, FinishCancelled, graphVars, mainVars
    <3>3. \/ /\ at[n] = "created"
             /\ \E p \in {"waiting", "running", "ended"} : at' = [at EXCEPT ![n] = p]
          \/ /\ at[n] = "waiting"
             /\ \E p \in {"running", "ended"} : at' = [at EXCEPT ![n] = p]
          \/ at[n] \in {"running", "cancelling"} /\ at' = [at EXCEPT ![n] = "ended"]
      BY <3>1 DEF NodeStep, Begin, Resume, Finish, FinishCancelled, Enter, Block, Record
    <3>4. Place(at'[n]) > Place(at[n]) /\ \A m \in Nodes : m # n => at'[m] = at[m]
      BY <2>1, <3>3 DEF Place
    <3>5. \A m \in Nodes : Place(at[m]) \in Nat
      BY <2>1 DEF Place, Points
    <3>6. \A m \in Nodes : Place(at'[m]) >= Place(at[m])
      <4> HIDE DEF Place
      <4> TAKE m \in Nodes
      <4>1. CASE m = n
        <5>1. Place(at'[n]) \in Nat
          BY <2>1, <3>3 DEF Place
        <5> QED
          BY <3>4, <3>5, <4>1, <5>1
      <4>2. CASE m # n
        BY <3>4, <3>5, <4>2
      <4> QED
        BY <4>1, <4>2
    <3>7. Stage(main') >= Stage(main) /\ next' >= next
      <4>1. main \in {"awaiting", "cancelling", "returned", "cancelled"}
        BY <1>1, <3>1 DEF Rows, NodeStep, Begin, Resume, Finish, FinishCancelled
      <4> QED
        BY <2>1, <3>2, <4>1 DEF Stage
    <3> QED
      BY <2>1, <3>4, <3>6, <3>7 DEF Onward
  <2>3. CASE Validate
    BY <1>1, <2>1, <2>3 DEF Validate, Rows, Place, Stage, Onward
  <2>4. CASE Collect \/ Return \/ Unwind
    BY <1>1, <2>1, <2>4 DEF Collect, Return, Unwind, nodeVars, Place, Points, Stage, Onward
  <2>5. CASE Cancel
    BY <1>1, <2>1, <2>5 DEF Cancel, Place, Points, Stage, Onward
  <2> QED
    BY <1>1, <2>2, <2>3, <2>4, <2>5 DEF Next, MainStep
<1> QED
  BY Invariance, GraphInvariance, RowsInvariance, <1>1, PTL DEF Spec
=============================================================================
