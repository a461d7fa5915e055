----------------------------- MODULE Inductions -----------------------------
(***************************************************************************)
(* What needs an induction, which the provers do not find: what            *)
(* SumFunction of the module Functions computes, and what a branch of a    *)
(* Merkle tree opens.                                                      *)
(*                                                                         *)
(* SumFunction is defined by a recursive function on the subsets of the    *)
(* domain that takes elements away in an order the definition does not     *)
(* give.  For a finite domain that function exists, and its value does not *)
(* depend on the order: the sum of a function is any one of its values     *)
(* plus the sum of the rest.                                               *)
(*                                                                         *)
(* Induction is over sets of numbers: a set of naturals that is not empty  *)
(* has a least element, and the least counterexample is refuted.           *)
(***************************************************************************)
EXTENDS Merkle, Functions, FiniteSetTheorems, WellFoundedInduction, TLAPS

\* A set of naturals that is not empty has a least element.
LEMMA LeastNatural ==
    ASSUME NEW T, T \subseteq Nat, T # {}
    PROVE  \E x \in T : \A y \in T : x <= y
<1>1. PICK x \in T : \A y \in T : ~ (<<y, x>> \in OpToRel(<, Nat))
  BY WFMin, NatLessThanWellFounded, Zenon
<1>2. \A y \in T : ~(y < x)
  <2> TAKE y \in T
  <2>1. ~ (<<y, x>> \in OpToRel(<, Nat))
    BY <1>1, Zenon
  <2> QED BY <2>1, T \subseteq Nat, Zenon DEF OpToRel
<1> QED BY <1>2

\* Induction for a set of naturals.
LEMMA Induct ==
    ASSUME NEW S \in SUBSET Nat, 0 \in S, \A n \in S : n + 1 \in S
    PROVE  S = Nat
<1> SUFFICES ASSUME S # Nat PROVE FALSE
  OBVIOUS
<1>1. PICK x \in Nat \ S : \A y \in Nat \ S : x <= y
  BY LeastNatural
<1>2. x # 0 /\ x - 1 \in Nat
  BY <1>1
<1>3. x - 1 \in S
  BY <1>1, <1>2
<1> QED BY <1>1, <1>2, <1>3

\* Induction up to a bound.
LEMMA InductTo ==
    ASSUME NEW n \in Nat, NEW S, 0 \in S, \A i \in 0 .. (n - 1) : i \in S => i + 1 \in S
    PROVE  \A i \in 0 .. n : i \in S
<1> DEFINE T == {i \in Nat : i <= n => i \in S}
<1>1. 0 \in T /\ T \in SUBSET Nat
  OBVIOUS
<1>2. ASSUME NEW i \in T PROVE i + 1 \in T
  <2>1. CASE i + 1 <= n
    <3>1. i \in 0 .. (n - 1) /\ i \in S
      BY <2>1
    <3> QED BY <3>1
  <2> QED BY <2>1
<1>3. T = Nat
  <2> HIDE DEF T
  <2> QED BY <1>1, <1>2, Induct
<1> QED BY <1>3

-----------------------------------------------------------------------------
(* The recursive function *)

FirstOf(s) == CHOOSE x \in s : TRUE

FoldStep(w, S, h) ==
    [s \in SUBSET S |-> IF s = {} THEN 0 ELSE w[FirstOf(s)] + h[s \ {FirstOf(s)}]]

\* SumFunction is the value at the whole domain of a function that is its own
\* FoldStep.
LEMMA SumIsFold ==
    ASSUME NEW w
    PROVE  SumFunction(w) = (CHOOSE h : h = FoldStep(w, DOMAIN w, h))[DOMAIN w]
  BY Zenon DEF SumFunction, SumFunctionOnSet, FoldFunctionOnSet, MapThenFoldSet, FoldStep, FirstOf

\* Taking away the first element of a finite set makes it smaller.
LEMMA FirstTaken ==
    ASSUME NEW s, IsFiniteSet(s), s # {}
    PROVE  /\ FirstOf(s) \in s
           /\ IsFiniteSet(s \ {FirstOf(s)})
           /\ Cardinality(s) \in Nat /\ Cardinality(s) # 0
           /\ Cardinality(s \ {FirstOf(s)}) = Cardinality(s) - 1
<1>1. FirstOf(s) \in s
  BY Zenon DEF FirstOf
<1>2. Cardinality(s) \in Nat /\ Cardinality(s) # 0
  BY FS_EmptySet, FS_CardinalityType
<1> QED BY <1>1, <1>2, FS_RemoveElement

\* Subsets of S with no more than n elements.
NoMoreThan(S, n) == {s \in SUBSET S : Cardinality(s) <= n}

\* The function exists on the subsets up to any size, and so on all of them.
LEMMA FoldExists ==
    ASSUME NEW S, IsFiniteSet(S), NEW w
    PROVE  \E h : h = FoldStep(w, S, h)
<1> DEFINE G(n, h) == h = [s \in NoMoreThan(S, n) |->
                              IF s = {} THEN 0 ELSE w[FirstOf(s)] + h[s \ {FirstOf(s)}]]
           N == {n \in Nat : \E h : G(n, h)}
<1>1. \A s \in SUBSET S : IsFiniteSet(s) /\ Cardinality(s) \in Nat /\ Cardinality(s) <= Cardinality(S)
  BY FS_Subset, FS_CardinalityType
<1>2. 0 \in N
  <2> DEFINE h == [s \in NoMoreThan(S, 0) |-> 0]
  <2>1. \A s \in NoMoreThan(S, 0) : s = {}
    BY <1>1, FS_EmptySet DEF NoMoreThan
  <2>2. G(0, h)
    BY <2>1
  <2> HIDE DEF G
  <2> QED BY <2>2
<1>3. ASSUME NEW n \in N PROVE n + 1 \in N
  <2>1. PICK h : G(n, h)
    OBVIOUS
  <2> DEFINE k == [s \in NoMoreThan(S, n + 1) |->
                      IF s = {} THEN 0 ELSE w[FirstOf(s)] + h[s \ {FirstOf(s)}]]
  <2>2. \A s \in NoMoreThan(S, n) : s \in NoMoreThan(S, n + 1)
    BY <1>1 DEF NoMoreThan
  <2>3. \A s \in NoMoreThan(S, n) : k[s] = h[s]
    BY <2>1, <2>2
  <2>4. \A s \in NoMoreThan(S, n + 1) : s # {} => s \ {FirstOf(s)} \in NoMoreThan(S, n)
    BY <1>1, FirstTaken DEF NoMoreThan
  <2>5. G(n + 1, k)
    BY <2>3, <2>4
  <2> HIDE DEF G
  <2> QED BY <2>5
<1>4. N = Nat
  <2> HIDE DEF N
  <2>1. N \in SUBSET Nat
    BY DEF N
  <2> QED BY <1>2, <1>3, <2>1, Induct
<1>5. Cardinality(S) \in N
  BY <1>4, FS_CardinalityType
<1>6. PICK h : G(Cardinality(S), h)
  BY <1>5
<1>7. NoMoreThan(S, Cardinality(S)) = SUBSET S
  BY <1>1 DEF NoMoreThan
<1>8. h = FoldStep(w, S, h)
  BY <1>6, <1>7 DEF FoldStep
<1> QED BY <1>8

\* Two such functions agree where the functions they sum do.
LEMMA FoldsAgree ==
    ASSUME NEW S, NEW T, NEW U, IsFiniteSet(U), U \subseteq S, U \subseteq T,
           NEW w, NEW v, \A x \in U : w[x] = v[x],
           NEW h, h = FoldStep(w, S, h), NEW k, k = FoldStep(v, T, k)
    PROVE  h[U] = k[U]
<1> DEFINE N == {Cardinality(s) : s \in {u \in SUBSET U : h[u] # k[u]}}
<1>1. \A s \in SUBSET U : IsFiniteSet(s) /\ Cardinality(s) \in Nat
  BY FS_Subset, FS_CardinalityType
<1>2. \A s \in SUBSET U :
         /\ h[s] = IF s = {} THEN 0 ELSE w[FirstOf(s)] + h[s \ {FirstOf(s)}]
         /\ k[s] = IF s = {} THEN 0 ELSE v[FirstOf(s)] + k[s \ {FirstOf(s)}]
  BY DEF FoldStep
<1> SUFFICES ASSUME h[U] # k[U] PROVE FALSE
  OBVIOUS
<1>3. N # {} /\ N \subseteq Nat
  BY <1>1
<1>4. PICK n \in N : \A m \in N : n <= m
  <2> HIDE DEF N
  <2> QED BY <1>3, LeastNatural
<1>5. PICK s \in SUBSET U : Cardinality(s) = n /\ h[s] # k[s]
  BY <1>4
<1>6. s # {}
  BY <1>2, <1>5
<1>7. /\ FirstOf(s) \in s /\ s \ {FirstOf(s)} \in SUBSET U
      /\ Cardinality(s) \in Nat /\ Cardinality(s \ {FirstOf(s)}) = Cardinality(s) - 1
  BY <1>1, <1>6, FirstTaken
<1>8. h[s \ {FirstOf(s)}] = k[s \ {FirstOf(s)}]
  <2>1. Cardinality(s \ {FirstOf(s)}) \notin N
    <3> HIDE DEF N
    <3> QED BY <1>4, <1>5, <1>7
  <2> QED BY <1>7, <2>1
<1> QED BY <1>2, <1>5, <1>6, <1>7, <1>8

\* Any element may be taken first.
TakesAny(w, S, h) ==
    \A s \in SUBSET S : h[s] \in Nat /\ \A x \in s : h[s] = w[x] + h[s \ {x}]

\* The sum does not depend on which element is taken first.
LEMMA FoldTakesAny ==
    ASSUME NEW S, IsFiniteSet(S), NEW w \in [S -> Nat], NEW h, h = FoldStep(w, S, h)
    PROVE  TakesAny(w, S, h)
<1> DEFINE Good(s) == h[s] \in Nat /\ \A x \in s : h[s] = w[x] + h[s \ {x}]
           N == {Cardinality(s) : s \in {u \in SUBSET S : ~Good(u)}}
<1>1. \A s \in SUBSET S : IsFiniteSet(s) /\ Cardinality(s) \in Nat
  BY FS_Subset, FS_CardinalityType
<1>2. \A s \in SUBSET S : h[s] = IF s = {} THEN 0 ELSE w[FirstOf(s)] + h[s \ {FirstOf(s)}]
  BY DEF FoldStep
<1> SUFFICES ASSUME NEW u \in SUBSET S, ~Good(u) PROVE FALSE
  BY DEF TakesAny
<1>3. N # {} /\ N \subseteq Nat
  BY <1>1
<1>4. PICK n \in N : \A m \in N : n <= m
  <2> HIDE DEF N
  <2> QED BY <1>3, LeastNatural
<1>5. PICK s \in SUBSET S : Cardinality(s) = n /\ ~Good(s)
  BY <1>4
<1>6. \A x \in s : /\ s \ {x} \in SUBSET S /\ Cardinality(s) \in Nat
                   /\ Cardinality(s \ {x}) = Cardinality(s) - 1
  BY <1>1, FS_RemoveElement
<1>7. \A x \in s : Good(s \ {x})
  <2> SUFFICES ASSUME NEW x \in s PROVE Good(s \ {x})
    OBVIOUS
  <2>1. Cardinality(s \ {x}) \notin N
    <3> HIDE DEF N
    <3> QED BY <1>4, <1>5, <1>6
  <2> HIDE DEF Good
  <2> QED BY <1>6, <2>1
<1> HIDE DEF N
<1>8. CASE s = {}
  <2>1. h[s] = 0
    BY <1>2, <1>8
  <2>2. Good(s)
    BY <1>8, <2>1
  <2> QED BY <1>5, <2>2
<1>9. CASE s # {}
  <2> DEFINE c == FirstOf(s)
  <2>1. c \in s /\ c \in S /\ w[c] \in Nat
    BY <1>1, <1>9, FirstTaken
  <2>2. h[s] = w[c] + h[s \ {c}]
    BY <1>2, <1>9
  <2> HIDE DEF c
  <2>3. h[s] \in Nat
    <3>1. h[s \ {c}] \in Nat
      BY <1>7, <2>1
    <3> HIDE DEF Good
    <3> QED BY <2>1, <2>2, <3>1
  <2>4. ASSUME NEW x \in s PROVE h[s] = w[x] + h[s \ {x}]
    <3>1. CASE x = c
      BY <2>2, <3>1
    <3>2. CASE x # c
      <4>1. x \in s \ {c} /\ c \in s \ {x} /\ (s \ {c}) \ {x} = (s \ {x}) \ {c}
        BY <2>1, <3>2
      <4>2. h[s \ {c}] = w[x] + h[(s \ {c}) \ {x}] /\ h[s \ {c}] \in Nat
        BY <1>7, <2>1, <4>1
      <4>3. h[s \ {x}] = w[c] + h[(s \ {x}) \ {c}] /\ h[s \ {x}] \in Nat
        BY <1>7, <4>1
      <4>4. (s \ {c}) \ {x} \in SUBSET S /\ w[x] \in Nat
        OBVIOUS
      <4>5. h[(s \ {c}) \ {x}] \in Nat
        <5>1. IsFiniteSet(s) /\ IsFiniteSet(s \ {c})
          BY <1>1
        <5>2. Cardinality((s \ {c}) \ {x}) = Cardinality(s \ {c}) - 1 /\ Cardinality(s \ {c}) \in Nat
          BY <4>1, <5>1, FS_RemoveElement, FS_CardinalityType
        <5>3. Cardinality((s \ {c}) \ {x}) \notin N
          BY <1>4, <1>5, <1>6, <2>1, <5>2
        <5> USE DEF N
        <5> QED BY <4>4, <5>3
      <4> HIDE DEF Good
      <4>6. h[(s \ {c}) \ {x}] = h[(s \ {x}) \ {c}]
        BY <4>1
      <4>7. h[s] = w[c] + (w[x] + h[(s \ {c}) \ {x}])
        BY <2>2, <4>2
      <4>8. w[x] + h[s \ {x}] = w[x] + (w[c] + h[(s \ {c}) \ {x}])
        BY <4>3, <4>6
      <4> QED BY <2>1, <4>4, <4>5, <4>7, <4>8
    <3> QED BY <3>1, <3>2
  <2> QED BY <1>5, <2>3, <2>4
<1> QED BY <1>8, <1>9

-----------------------------------------------------------------------------
(* Sums *)

\* Sums of finitely many numbers are numbers, and can be taken apart.
LEMMA SumRemove ==
    ASSUME NEW S, IsFiniteSet(S), NEW w \in [S -> Nat]
    PROVE  /\ SumFunction(w) \in Nat
           /\ S = {} => SumFunction(w) = 0
           /\ \A x \in S : SumFunction(w) = w[x] + SumFunction([y \in S \ {x} |-> w[y]])
<1> DEFINE h == CHOOSE f : f = FoldStep(w, S, f)
<1>1. h = FoldStep(w, S, h)
  BY FoldExists, Zenon
<1>2. SumFunction(w) = h[S]
  <2>1. DOMAIN w = S
    OBVIOUS
  <2> QED BY <2>1, SumIsFold, Zenon
<1> HIDE DEF h
<1>3. h[S] \in Nat /\ \A x \in S : h[S] = w[x] + h[S \ {x}]
  <2>1. TakesAny(w, S, h)
    BY <1>1, FoldTakesAny
  <2> QED BY <2>1 DEF TakesAny
<1>4. S = {} => h[S] = 0
  BY <1>1 DEF FoldStep
<1>5. ASSUME NEW x \in S PROVE h[S \ {x}] = SumFunction([y \in S \ {x} |-> w[y]])
  <2> DEFINE v == [y \in S \ {x} |-> w[y]]
             k == CHOOSE f : f = FoldStep(v, S \ {x}, f)
  <2>1. IsFiniteSet(S \ {x})
    BY FS_RemoveElement
  <2>2. DOMAIN v = S \ {x} /\ \A y \in S \ {x} : w[y] = v[y]
    OBVIOUS
  <2> HIDE DEF v
  <2>3. k = FoldStep(v, S \ {x}, k)
    BY <2>1, FoldExists, Zenon
  <2>4. SumFunction(v) = k[S \ {x}]
    BY <2>2, SumIsFold, Zenon
  <2> HIDE DEF k
  <2>5. h[S \ {x}] = k[S \ {x}]
    <3>1. S \ {x} \subseteq S /\ S \ {x} \subseteq S \ {x}
      OBVIOUS
    <3> QED BY <1>1, <2>1, <2>2, <2>3, <3>1, FoldsAgree
  <2> QED BY <2>4, <2>5 DEF v
<1> QED BY <1>2, <1>3, <1>4, <1>5

\* One more number.
LEMMA SumAdd ==
    ASSUME NEW S, IsFiniteSet(S), NEW w \in [S -> Nat], NEW x, x \notin S, NEW n \in Nat
    PROVE  SumFunction([y \in S \cup {x} |-> IF y = x THEN n ELSE w[y]]) = SumFunction(w) + n
<1> DEFINE v == [y \in S \cup {x} |-> IF y = x THEN n ELSE w[y]]
<1>1. IsFiniteSet(S \cup {x})
  BY FS_AddElement
<1>2. v \in [S \cup {x} -> Nat] /\ v[x] = n
  OBVIOUS
<1>3. [y \in (S \cup {x}) \ {x} |-> v[y]] = w
  <2>1. (S \cup {x}) \ {x} = S
    OBVIOUS
  <2>2. \A y \in S : v[y] = w[y]
    OBVIOUS
  <2> HIDE DEF v
  <2> QED BY <2>1, <2>2
<1> HIDE DEF v
<1>4. SumFunction(v) = v[x] + SumFunction([y \in (S \cup {x}) \ {x} |-> v[y]])
  <2> DEFINE U == S \cup {x}
  <2>1. IsFiniteSet(U) /\ v \in [U -> Nat] /\ x \in U
    BY <1>1, <1>2
  <2> HIDE DEF U
  <2>2. SumFunction(v) = v[x] + SumFunction([y \in U \ {x} |-> v[y]])
    BY <2>1, SumRemove
  <2> QED BY <2>2 DEF U
<1>5. SumFunction(w) \in Nat
  BY SumRemove
<1> QED BY <1>2, <1>3, <1>4, <1>5 DEF v

\* One number changed.
LEMMA SumChange ==
    ASSUME NEW S, IsFiniteSet(S), NEW w \in [S -> Nat], NEW v \in [S -> Nat], NEW x \in S,
           \A y \in S : y # x => v[y] = w[y]
    PROVE  SumFunction(v) + w[x] = SumFunction(w) + v[x]
<1> DEFINE r == [y \in S \ {x} |-> w[y]]
<1>1. r = [y \in S \ {x} |-> v[y]]
  OBVIOUS
<1>2. SumFunction(w) = w[x] + SumFunction(r) /\ SumFunction(v) = v[x] + SumFunction(r)
  BY <1>1, SumRemove
<1>3. SumFunction(r) \in Nat
  <2>1. IsFiniteSet(S \ {x}) /\ r \in [S \ {x} -> Nat]
    BY FS_RemoveElement
  <2> HIDE DEF r
  <2> QED BY <2>1, SumRemove
<1> HIDE DEF r
<1> QED BY <1>2, <1>3

\* Fewer numbers.
LEMMA SumFewer ==
    ASSUME NEW S, IsFiniteSet(S), NEW w \in [S -> Nat], NEW U, U \subseteq S
    PROVE  SumFunction([u \in U |-> w[u]]) <= SumFunction(w)
<1> DEFINE sum(V) == SumFunction([v \in V |-> w[v]])
           N == {n \in Nat : \A V \in SUBSET S :
                                Cardinality(V) = n /\ U \subseteq V => sum(U) <= sum(V)}
<1>1. \A V \in SUBSET S : IsFiniteSet(V) /\ Cardinality(V) \in Nat
  BY FS_Subset, FS_CardinalityType
<1>2. \A V \in SUBSET S :
         /\ sum(V) \in Nat
         /\ \A x \in V : sum(V) = w[x] + sum(V \ {x})
  <2> TAKE V \in SUBSET S
  <2> DEFINE v == [y \in V |-> w[y]]
  <2>1. v \in [V -> Nat] /\ IsFiniteSet(V)
    BY <1>1
  <2>2. \A x \in V : [y \in V \ {x} |-> v[y]] = [y \in V \ {x} |-> w[y]] /\ v[x] = w[x]
    OBVIOUS
  <2>3. /\ SumFunction(v) \in Nat
        /\ \A x \in V : SumFunction(v) = v[x] + SumFunction([y \in V \ {x} |-> v[y]])
    <3> HIDE DEF v
    <3> QED BY <2>1, SumRemove
  <2> QED BY <2>2, <2>3
<1> HIDE DEF sum
<1>3. 0 \in N
  <2>1. \A V \in SUBSET S : Cardinality(V) = 0 /\ U \subseteq V => V = U
    BY <1>1, FS_EmptySet
  <2> QED BY <2>1, <1>2
<1>4. ASSUME NEW n \in N PROVE n + 1 \in N
  <2> SUFFICES ASSUME NEW V \in SUBSET S, Cardinality(V) = n + 1, U \subseteq V
               PROVE  sum(U) <= sum(V)
    OBVIOUS
  <2>1. CASE U = V
    BY <2>1, <1>2
  <2>2. CASE U # V
    <3>1. PICK x \in V : x \notin U
      BY <2>2
    <3>2. IsFiniteSet(V)
      BY <1>1
    <3>3. Cardinality(V \ {x}) = n
      <4>1. Cardinality(V \ {x}) = Cardinality(V) - 1
        BY <3>1, <3>2, FS_RemoveElement
      <4> QED BY <4>1
    <3>4. sum(U) <= sum(V \ {x})
      BY <3>1, <3>3
    <3>5. sum(V) = w[x] + sum(V \ {x}) /\ sum(V \ {x}) \in Nat /\ sum(U) \in Nat
      BY <1>2, <3>1
    <3>6. w[x] \in Nat
      BY <3>1
    <3> QED BY <3>4, <3>5, <3>6
  <2> QED BY <2>1, <2>2
<1>5. N = Nat
  <2>1. N \in SUBSET Nat
    OBVIOUS
  <2> HIDE DEF N
  <2> QED BY <1>3, <1>4, <2>1, Induct
<1>6. sum(U) <= sum(S)
  BY <1>1, <1>5
<1>7. [s \in S |-> w[s]] = w
  OBVIOUS
<1> QED BY <1>6, <1>7 DEF sum

-----------------------------------------------------------------------------
(* The trees of Merkle *)

LevelsFrom(t, n, f) == f = [k \in 0 .. n |-> IF k = 0 THEN t ELSE pair_up(f[k - 1])]

\* The levels of a tree exist.
LEMMA LevelsExist ==
    ASSUME NEW t, NEW n \in Nat
    PROVE  \E f : LevelsFrom(t, n, f)
<1> DEFINE S == {m \in Nat : \E f : LevelsFrom(t, m, f)}
<1>1. 0 \in S
  <2>1. LevelsFrom(t, 0, [k \in 0 .. 0 |-> t])
    BY DEF LevelsFrom
  <2> QED BY <2>1
<1>2. ASSUME NEW m \in S PROVE m + 1 \in S
  <2>1. PICK f : LevelsFrom(t, m, f)
    OBVIOUS
  <2> DEFINE g == [k \in 0 .. (m + 1) |-> IF k <= m THEN f[k] ELSE pair_up(f[m])]
  <2>2. \A k \in 0 .. m : f[k] = IF k = 0 THEN t ELSE pair_up(f[k - 1])
    BY <2>1 DEF LevelsFrom
  <2>3. \A k \in 0 .. (m + 1) : g[k] = IF k = 0 THEN t ELSE pair_up(g[k - 1])
    BY <2>2
  <2>4. LevelsFrom(t, m + 1, g)
    <3>1. g = [k \in 0 .. (m + 1) |-> g[k]]
      OBVIOUS
    <3> HIDE DEF g
    <3> QED BY <2>3, <3>1 DEF LevelsFrom
  <2> HIDE DEF g
  <2> QED BY <2>4
<1>3. S = Nat
  <2>1. S \in SUBSET Nat
    OBVIOUS
  <2> HIDE DEF S
  <2> QED BY <1>1, <1>2, <2>1, Induct
<1> QED BY <1>3

\* What levels is.
LEMMA LevelsAre ==
    ASSUME NEW t, Len(t) \in Nat
    PROVE  /\ levels(t)[0] = t
           /\ \A k \in 1 .. Len(t) : levels(t)[k] = pair_up(levels(t)[k - 1])
<1>1. LevelsFrom(t, Len(t), levels(t))
  <2>1. levels(t) = CHOOSE f : LevelsFrom(t, Len(t), f)
    BY Zenon DEF levels, LevelsFrom
  <2>2. \E f : LevelsFrom(t, Len(t), f)
    BY LevelsExist
  <2> QED BY <2>1, <2>2, Zenon
<1> HIDE DEF levels
<1> QED BY <1>1 DEF LevelsFrom

IsSeq(s) == Len(s) \in Nat /\ DOMAIN s = 1 .. Len(s)

\* The next level: halves, of pairs of nodes of this one.
LEMMA PairsUp ==
    ASSUME NEW s, IsSeq(s), Len(s) # 0
    PROVE  /\ IsSeq(pair_up(s)) /\ Len(pair_up(s)) # 0
           /\ Len(s) = 1 => pair_up(s) = s
           /\ Len(s) > 1 => /\ Len(pair_up(s)) < Len(s)
                            /\ \A i \in DOMAIN pair_up(s) :
                                  /\ 2 * i - 1 \in DOMAIN s
                                  /\ \E j \in DOMAIN s : pair_up(s)[i] = Pair(s[2 * i - 1], s[j])
<1>1. CASE Len(s) = 1
  <2>1. pair_up(s) = s
    BY <1>1 DEF pair_up
  <2> QED BY <1>1, <2>1
<1>2. CASE Len(s) # 1
  <2> DEFINE h == (Len(s) + 1) \div 2
             other(i) == IF 2 * i <= Len(s) THEN 2 * i ELSE 2 * i - 1
             u == [i \in 1 .. h |-> Pair(s[2 * i - 1], s[other(i)])]
  <2>1. h \in Nat /\ 1 <= h /\ h < Len(s) /\ 2 * h <= Len(s) + 1
    BY <1>2 DEF IsSeq
  <2>2. pair_up(s) = u
    BY <1>2 DEF pair_up
  <2>3. \A i \in 1 .. h : 2 * i - 1 \in DOMAIN s /\ other(i) \in DOMAIN s
    BY <2>1 DEF IsSeq
  <2>4. Len(u) = h /\ DOMAIN u = 1 .. h
    <3>1. h \in Nat
      BY <2>1
    <3> HIDE DEF h
    <3> QED BY <3>1
  <2>5. \A i \in 1 .. h : u[i] = Pair(s[2 * i - 1], s[other(i)])
    OBVIOUS
  <2> HIDE DEF h, u, other
  <2> QED BY <1>2, <2>1, <2>2, <2>3, <2>4, <2>5 DEF IsSeq
<1> QED BY <1>1, <1>2

\* The levels of a tree and the number d of them above the leaves.
IsHeight(t, d) ==
    /\ d \in 0 .. Len(t)
    /\ levels(t)[d][1] = merkle_root(t)
    /\ \A k \in 0 .. d : IsSeq(levels(t)[k]) /\ Len(levels(t)[k]) # 0
    /\ DOMAIN levels(t)[d] = {1}
    /\ \A k \in 1 .. d : \A i \in DOMAIN levels(t)[k] :
          /\ 2 * i - 1 \in DOMAIN levels(t)[k - 1]
          /\ \E j \in DOMAIN levels(t)[k - 1] :
                levels(t)[k][i] = Pair(levels(t)[k - 1][2 * i - 1], levels(t)[k - 1][j])

\* A tree has a height.
LEMMA TreeHeight ==
    ASSUME NEW t, IsSeq(t), Len(t) # 0
    PROVE  \E d : IsHeight(t, d)
<1> DEFINE n == Len(t)
           L == levels(t)
<1>0. n \in Nat /\ n >= 1
  BY DEF IsSeq
<1>1. L[0] = t /\ \A k \in 1 .. n : L[k] = pair_up(L[k - 1])
  BY <1>0, LevelsAre
<1> HIDE DEF L, n
<1>2. \A k \in 0 .. n : IsSeq(L[k]) /\ Len(L[k]) # 0 /\ (Len(L[k]) = 1 \/ Len(L[k]) <= n - k)
  <2> DEFINE S == {k \in 0 .. n :
                     IsSeq(L[k]) /\ Len(L[k]) # 0 /\ (Len(L[k]) = 1 \/ Len(L[k]) <= n - k)}
  <2>1. 0 \in S
    BY <1>0, <1>1 DEF IsSeq, n
  <2>2. ASSUME NEW k \in 0 .. (n - 1), k \in S PROVE k + 1 \in S
    <3>1. L[k + 1] = pair_up(L[k]) /\ k + 1 \in 0 .. n
      BY <1>0, <1>1
    <3>2. IsSeq(L[k]) /\ Len(L[k]) # 0 /\ (Len(L[k]) = 1 \/ Len(L[k]) <= n - k)
      BY <2>2
    <3>3. /\ IsSeq(pair_up(L[k])) /\ Len(pair_up(L[k])) # 0
          /\ Len(L[k]) = 1 => pair_up(L[k]) = L[k]
          /\ Len(L[k]) > 1 => Len(pair_up(L[k])) < Len(L[k])
      BY <3>2, PairsUp
    <3>4. IsSeq(L[k + 1]) /\ Len(L[k + 1]) # 0
      BY <3>1, <3>3
    <3>5. Len(L[k]) \in Nat /\ Len(L[k + 1]) \in Nat
      BY <3>2, <3>4 DEF IsSeq
    <3>6. Len(L[k + 1]) = 1 \/ Len(L[k + 1]) <= n - (k + 1)
      <4>1. CASE Len(L[k]) = 1
        BY <3>1, <3>3, <4>1
      <4>2. CASE Len(L[k]) # 1
        <5>1. Len(L[k]) > 1 /\ Len(L[k]) <= n - k
          <6> DEFINE l == Len(L[k])
          <6>1. l \in Nat /\ l # 0 /\ l # 1 /\ l <= n - k
            BY <3>2, <3>5, <4>2
          <6> HIDE DEF l
          <6>2. l > 1 /\ l <= n - k
            BY <6>1
          <6> QED BY <6>2 DEF l
        <5>2. Len(L[k + 1]) < Len(L[k])
          BY <3>1, <3>3, <5>1
        <5> QED BY <1>0, <3>5, <5>1, <5>2
      <4> QED BY <4>1, <4>2
    <3> QED BY <3>1, <3>4, <3>6
  <2>3. \A k \in 0 .. n : k \in S
    <3> HIDE DEF S
    <3> QED BY <1>0, <2>1, <2>2, InductTo
  <2> QED BY <2>3
<1> DEFINE D == {k \in 0 .. n : Len(L[k]) = 1}
<1>3. D # {} /\ D \subseteq Nat
  <2>1. n \in D
    BY <1>0, <1>2 DEF IsSeq
  <2> QED BY <1>0, <2>1
<1>4. PICK d \in D : \A k \in D : d <= k
  <2> HIDE DEF D
  <2> QED BY <1>3, LeastNatural
<1>5. d \in 0 .. n /\ Len(L[d]) = 1 /\ \A k \in 0 .. (d - 1) : Len(L[k]) > 1
  <2>1. d \in 0 .. n /\ Len(L[d]) = 1
    BY <1>4
  <2>2. ASSUME NEW k \in 0 .. (d - 1) PROVE Len(L[k]) > 1
    <3>1. k \in 0 .. n /\ ~(d <= k)
      BY <1>0, <2>1
    <3>2. Len(L[k]) # 1
      BY <1>4, <3>1
    <3>3. Len(L[k]) \in Nat /\ Len(L[k]) # 0
      BY <1>2, <3>1 DEF IsSeq
    <3> DEFINE l == Len(L[k])
    <3>4. l \in Nat /\ l # 0 /\ l # 1
      BY <3>2, <3>3
    <3> HIDE DEF l
    <3>5. l > 1
      BY <3>4
    <3> QED BY <3>5 DEF l
  <2> QED BY <2>1, <2>2
<1> HIDE DEF D
<1>6. L[n] = L[d]
  <2> DEFINE S == {k \in 0 .. (n - d) : L[d + k] = L[d]}
  <2>0. n - d \in Nat
    BY <1>0, <1>5
  <2>1. 0 \in S
    BY <1>0, <1>5
  <2>2. ASSUME NEW k \in 0 .. ((n - d) - 1), k \in S PROVE k + 1 \in S
    <3>1. L[d + k] = L[d] /\ d + k + 1 \in 1 .. n /\ d + k \in 0 .. n
      BY <1>0, <1>5, <2>2
    <3>2. L[d + (k + 1)] = pair_up(L[d + k])
      <4>1. L[d + k + 1] = pair_up(L[d + k + 1 - 1])
        BY <1>1, <3>1
      <4> QED BY <1>0, <1>5, <4>1
    <3>3. pair_up(L[d]) = L[d]
      BY <1>2, <1>5, PairsUp
    <3> QED BY <1>0, <1>5, <3>1, <3>2, <3>3
  <2>3. \A k \in 0 .. (n - d) : k \in S
    <3> HIDE DEF S
    <3> QED BY <2>0, <2>1, <2>2, InductTo
  <2>4. n - d \in S /\ d + (n - d) = n
    BY <1>0, <1>5, <2>0, <2>3
  <2> QED BY <2>4
<1>7. L[d][1] = merkle_root(t)
  BY <1>6 DEF merkle_root, L, n
<1>8. DOMAIN L[d] = {1}
  BY <1>2, <1>5 DEF IsSeq
<1>9. ASSUME NEW k \in 1 .. d, NEW i \in DOMAIN L[k]
      PROVE  /\ 2 * i - 1 \in DOMAIN L[k - 1]
             /\ \E j \in DOMAIN L[k - 1] : L[k][i] = Pair(L[k - 1][2 * i - 1], L[k - 1][j])
  <2>1. k - 1 \in 0 .. n /\ k - 1 \in 0 .. (d - 1) /\ k \in 1 .. n
    BY <1>0, <1>5
  <2>2. IsSeq(L[k - 1]) /\ Len(L[k - 1]) # 0 /\ Len(L[k - 1]) > 1 /\ L[k] = pair_up(L[k - 1])
    BY <1>1, <1>2, <1>5, <2>1
  <2> QED BY <2>2, PairsUp
<1>10. IsHeight(t, d)
  <2>1. \A k \in 0 .. d : IsSeq(L[k]) /\ Len(L[k]) # 0
    BY <1>0, <1>2, <1>5
  <2> QED BY <1>5, <1>7, <1>8, <1>9, <2>1 DEF IsHeight, L, n
<1> QED BY <1>10

ClimbFrom(x, b, n, f) == f = [i \in 0 .. n |-> IF i = 0 THEN x ELSE fold_step(f[i - 1], b[i])]

\* The nodes on the way up exist.
LEMMA ClimbExists ==
    ASSUME NEW x, NEW b, NEW n \in Nat
    PROVE  \E f : ClimbFrom(x, b, n, f)
<1> DEFINE S == {m \in Nat : \E f : ClimbFrom(x, b, m, f)}
<1>1. 0 \in S
  <2>1. ClimbFrom(x, b, 0, [i \in 0 .. 0 |-> x])
    BY DEF ClimbFrom
  <2> QED BY <2>1
<1>2. ASSUME NEW m \in S PROVE m + 1 \in S
  <2>1. PICK f : ClimbFrom(x, b, m, f)
    OBVIOUS
  <2> DEFINE g == [i \in 0 .. (m + 1) |-> IF i <= m THEN f[i] ELSE fold_step(f[m], b[m + 1])]
  <2>2. \A i \in 0 .. m : f[i] = IF i = 0 THEN x ELSE fold_step(f[i - 1], b[i])
    BY <2>1 DEF ClimbFrom
  <2>3. \A i \in 0 .. (m + 1) : g[i] = IF i = 0 THEN x ELSE fold_step(g[i - 1], b[i])
    BY <2>2
  <2>4. ClimbFrom(x, b, m + 1, g)
    <3>1. g = [i \in 0 .. (m + 1) |-> g[i]]
      OBVIOUS
    <3> HIDE DEF g
    <3> QED BY <2>3, <3>1 DEF ClimbFrom
  <2> HIDE DEF g
  <2> QED BY <2>4
<1>3. S = Nat
  <2>1. S \in SUBSET Nat
    OBVIOUS
  <2> HIDE DEF S
  <2> QED BY <1>1, <1>2, <2>1, Induct
<1> QED BY <1>3

\* What climb is.
LEMMA ClimbIs ==
    ASSUME NEW x, NEW b, Len(b) \in Nat
    PROVE  /\ climb(x, b)[0] = x
           /\ \A i \in 1 .. Len(b) : climb(x, b)[i] = fold_step(climb(x, b)[i - 1], b[i])
<1>1. ClimbFrom(x, b, Len(b), climb(x, b))
  <2>1. climb(x, b) = CHOOSE f : ClimbFrom(x, b, Len(b), f)
    BY Zenon DEF climb, ClimbFrom
  <2>2. \E f : ClimbFrom(x, b, Len(b), f)
    BY ClimbExists
  <2> QED BY <2>1, <2>2, Zenon
<1> QED BY <1>1 DEF ClimbFrom

\* Two nodes and their hash.
LEMMA PairsAre ==
    ASSUME NEW l, NEW r, NEW m, NEW s
    PROVE  Pair(l, r) = Pair(m, s) => l = m /\ r = s
  BY DEF Pair

\* On the way down from the root every node is one of its level.
LEMMA Descends ==
    ASSUME NEW t, NEW d, IsHeight(t, d), Len(t) \in Nat, NEW x, NEW b, IsSeq(b),
           fold_merkle_branch(x, b) = merkle_root(t)
    PROVE  \A j \in 0 .. Len(b) : j <= d =>
              \E i \in DOMAIN levels(t)[d - j] : climb(x, b)[Len(b) - j] = levels(t)[d - j][i]
<1> DEFINE L == levels(t)
           c == climb(x, b)
           m == Len(b)
           Down(j) == j <= d => \E i \in DOMAIN L[d - j] : c[m - j] = L[d - j][i]
           S == {j \in 0 .. m : Down(j)}
<1>1. /\ d \in Nat /\ m \in Nat /\ c[m] = L[d][1] /\ DOMAIN L[d] = {1}
      /\ \A i \in 1 .. m : c[i] = fold_step(c[i - 1], b[i])
  BY ClimbIs DEF IsHeight, IsSeq, fold_merkle_branch
<1>2. \A k \in 1 .. d : \A i \in DOMAIN L[k] :
         /\ 2 * i - 1 \in DOMAIN L[k - 1]
         /\ \E j \in DOMAIN L[k - 1] : L[k][i] = Pair(L[k - 1][2 * i - 1], L[k - 1][j])
  BY DEF IsHeight
<1> HIDE DEF L, c, m
<1>3. 0 \in S
  <2>1. d - 0 = d /\ m - 0 = m
    BY <1>1
  <2> QED BY <1>1, <2>1
<1>4. ASSUME NEW j \in 0 .. (m - 1), j \in S PROVE j + 1 \in S
  <2>1. SUFFICES ASSUME j + 1 <= d PROVE \E i \in DOMAIN L[d - (j + 1)] : c[m - (j + 1)] = L[d - (j + 1)][i]
    BY <1>1
  <2>2. PICK i \in DOMAIN L[d - j] : c[m - j] = L[d - j][i]
    BY <1>1, <1>4, <2>1
  <2>3. d - j \in 1 .. d /\ (d - j) - 1 = d - (j + 1) /\ m - j \in 1 .. m /\ (m - j) - 1 = m - (j + 1)
    BY <1>1, <2>1
  <2>4. PICK k \in DOMAIN L[d - (j + 1)] :
           /\ 2 * i - 1 \in DOMAIN L[d - (j + 1)]
           /\ L[d - j][i] = Pair(L[d - (j + 1)][2 * i - 1], L[d - (j + 1)][k])
    <3>1. /\ 2 * i - 1 \in DOMAIN L[(d - j) - 1]
          /\ \E k \in DOMAIN L[(d - j) - 1] : L[d - j][i] = Pair(L[(d - j) - 1][2 * i - 1], L[(d - j) - 1][k])
      BY <1>2, <2>2, <2>3
    <3> QED BY <2>3, <3>1
  <2>5. c[m - j] = fold_step(c[m - (j + 1)], b[m - j])
    <3>1. c[m - j] = fold_step(c[(m - j) - 1], b[m - j])
      BY <1>1, <2>3
    <3> QED BY <2>3, <3>1
  <2>6. \/ \E h : c[m - j] = Pair(h, c[m - (j + 1)])
        \/ \E h : c[m - j] = Pair(c[m - (j + 1)], h)
    BY <2>5 DEF fold_step
  <2>7. c[m - (j + 1)] = L[d - (j + 1)][2 * i - 1] \/ c[m - (j + 1)] = L[d - (j + 1)][k]
    BY <2>2, <2>4, <2>6, PairsAre
  <2> QED BY <2>4, <2>7
<1>5. \A j \in 0 .. m : j \in S
  <2> HIDE DEF S
  <2> QED BY <1>1, <1>3, <1>4, InductTo
<1> QED BY <1>5 DEF L, c, m

\* With no sibling on the left it is the first of its level.
LEMMA DescendsLeft ==
    ASSUME NEW t, NEW d, IsHeight(t, d), Len(t) \in Nat, NEW x, NEW b, IsSeq(b),
           \A i \in DOMAIN b : ~b[i].sibling_on_left,
           fold_merkle_branch(x, b) = merkle_root(t)
    PROVE  \A j \in 0 .. Len(b) : j <= d => climb(x, b)[Len(b) - j] = levels(t)[d - j][1]
<1> DEFINE L == levels(t)
           c == climb(x, b)
           m == Len(b)
           S == {j \in 0 .. m : j <= d => c[m - j] = L[d - j][1]}
<1>1. /\ d \in Nat /\ m \in Nat /\ c[m] = L[d][1]
      /\ \A i \in 1 .. m : c[i] = Pair(c[i - 1], b[i].hash)
  <2>1. d \in Nat /\ m \in Nat /\ DOMAIN b = 1 .. m /\ c[m] = L[d][1]
    BY DEF IsHeight, IsSeq, fold_merkle_branch
  <2>2. \A i \in 1 .. m : c[i] = fold_step(c[i - 1], b[i]) /\ ~b[i].sibling_on_left
    BY <2>1, ClimbIs
  <2> HIDE DEF c, L, m
  <2> QED BY <2>1, <2>2 DEF fold_step
<1>2. \A k \in 1 .. d : \E r : L[k][1] = Pair(L[k - 1][1], r)
  <2> SUFFICES ASSUME NEW k \in 1 .. d PROVE \E r : L[k][1] = Pair(L[k - 1][1], r)
    OBVIOUS
  <2>1. IsSeq(L[k]) /\ Len(L[k]) # 0
    BY <1>1 DEF IsHeight
  <2>2. 1 \in DOMAIN L[k]
    <3> DEFINE l == Len(L[k])
    <3>1. l \in Nat /\ l # 0 /\ DOMAIN L[k] = 1 .. l
      BY <2>1 DEF IsSeq
    <3> HIDE DEF l
    <3> QED BY <3>1
  <2>3. \E j \in DOMAIN L[k - 1] : L[k][1] = Pair(L[k - 1][2 * 1 - 1], L[k - 1][j])
    BY <2>2 DEF IsHeight
  <2> QED BY <2>3
<1> HIDE DEF L, c, m
<1>3. 0 \in S
  <2>1. d - 0 = d /\ m - 0 = m
    BY <1>1
  <2> QED BY <1>1, <2>1
<1>4. ASSUME NEW j \in 0 .. (m - 1), j \in S PROVE j + 1 \in S
  <2>1. SUFFICES ASSUME j + 1 <= d PROVE c[m - (j + 1)] = L[d - (j + 1)][1]
    BY <1>1
  <2>2. c[m - j] = L[d - j][1]
    BY <1>1, <1>4, <2>1
  <2>3. d - j \in 1 .. d /\ (d - j) - 1 = d - (j + 1) /\ m - j \in 1 .. m /\ (m - j) - 1 = m - (j + 1)
    BY <1>1, <2>1
  <2>4. PICK r : L[d - j][1] = Pair(L[(d - j) - 1][1], r)
    BY <1>2, <2>3
  <2>5. c[m - j] = Pair(c[(m - j) - 1], b[m - j].hash)
    BY <1>1, <2>3
  <2>6. c[(m - j) - 1] = L[(d - j) - 1][1]
    BY <2>2, <2>4, <2>5, PairsAre
  <2> QED BY <2>3, <2>6
<1>5. \A j \in 0 .. m : j \in S
  <2> HIDE DEF S
  <2> QED BY <1>1, <1>3, <1>4, InductTo
<1> QED BY <1>5 DEF L, c, m

\* What is under the root at the depth of a leaf that is the first one is a
\* leaf: the length of the coinbase's branch is the height of the tree, unless
\* the first leaf or the coinbase's id is the hash of two nodes.
LEMMA LeafOpened ==
    ASSUME NEW t, IsSeq(t), Len(t) # 0, NEW x, NEW b, IsSeq(b), NEW y, NEW e, IsSeq(e),
           Len(b) = Len(e), \A i \in DOMAIN e : ~e[i].sibling_on_left,
           \A l, r : t[1] # Pair(l, r) /\ y # Pair(l, r),
           fold_merkle_branch(x, b) = merkle_root(t),
           fold_merkle_branch(y, e) = merkle_root(t)
    PROVE  \E i \in DOMAIN t : x = t[i]
<1>1. PICK d : IsHeight(t, d)
  BY TreeHeight
<1>2. d \in Nat /\ Len(b) \in Nat /\ Len(t) \in Nat
  BY <1>1 DEF IsHeight, IsSeq
<1>3. levels(t)[0] = t
  BY <1>2, LevelsAre
<1>4. /\ climb(x, b)[0] = x /\ climb(y, e)[0] = y
      /\ \A i \in 1 .. Len(b) : climb(y, e)[i] = Pair(climb(y, e)[i - 1], e[i].hash)
  BY <1>2, ClimbIs DEF IsSeq, fold_step
<1>5. \A j \in 0 .. Len(b) : j <= d => climb(y, e)[Len(b) - j] = levels(t)[d - j][1]
  BY <1>1, <1>2, DescendsLeft
<1>6. ~(Len(b) < d)
  <2> SUFFICES ASSUME Len(b) < d PROVE FALSE
    OBVIOUS
  <2>1. y = levels(t)[d - Len(b)][1]
    <3>1. Len(b) - Len(b) = 0 /\ Len(b) \in 0 .. Len(b) /\ Len(b) <= d
      BY <1>2
    <3> QED BY <1>4, <1>5, <3>1
  <2>2. d - Len(b) \in 1 .. d
    BY <1>2
  <2>3. 1 \in DOMAIN levels(t)[d - Len(b)]
    <3> DEFINE s == levels(t)[d - Len(b)]
               l == Len(s)
    <3>1. l \in Nat /\ l # 0 /\ DOMAIN s = 1 .. l
      <4>1. d - Len(b) \in 0 .. d
        BY <1>2
      <4> QED BY <1>1, <4>1 DEF IsHeight, IsSeq
    <3> HIDE DEF l, s
    <3>2. 1 \in DOMAIN s
      BY <3>1
    <3> QED BY <3>2 DEF s
  <2>4. \E l, r : y = Pair(l, r)
    BY <1>1, <2>1, <2>2, <2>3 DEF IsHeight
  <2> QED BY <2>4
<1>7. ~(Len(b) > d)
  <2> SUFFICES ASSUME Len(b) > d PROVE FALSE
    OBVIOUS
  <2>1. d \in 0 .. Len(b) /\ d <= d /\ d - d = 0 /\ Len(b) - d \in 1 .. Len(b)
    BY <1>2
  <2>2. climb(y, e)[Len(b) - d] = t[1]
    BY <1>3, <1>5, <2>1
  <2>3. \E l, r : climb(y, e)[Len(b) - d] = Pair(l, r)
    BY <1>4, <2>1
  <2> QED BY <2>2, <2>3
<1>8. Len(b) = d /\ d \in 0 .. Len(b) /\ d <= d /\ d - d = 0 /\ Len(b) - d = 0
  BY <1>2, <1>6, <1>7
<1>9. \E i \in DOMAIN levels(t)[d - d] : climb(x, b)[Len(b) - d] = levels(t)[d - d][i]
  BY <1>1, <1>2, <1>8, Descends
<1> QED BY <1>3, <1>4, <1>8, <1>9
=============================================================================
