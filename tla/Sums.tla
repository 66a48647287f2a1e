-------------------------------- MODULE Sums --------------------------------
(***************************************************************************)
(* What the sums of the models add up to: the folds of the community       *)
(* modules over a finite set, whatever element they take first.  The       *)
(* recursive function behind a fold is shown to exist, and its value to    *)
(* lose any one element's weight when that element is taken out.           *)
(*                                                                         *)
(* The induction is on the least subset that would be a counterexample.    *)
(***************************************************************************)
EXTENDS FiniteSetsExt, FiniteSetTheorems, WellFoundedInduction, TLAPS

Some(s) == CHOOSE x \in s : TRUE

(* The weights w of the elements of S, added up. *)
Sum(w, S) == MapThenSumSet(LAMBDA x : w[x], S)

(* What the fold computes of each subset, once the next element is taken. *)
Adds(g, w, S) ==
    g = [s \in SUBSET S |-> IF s = {} THEN 0 ELSE w[Some(s)] + g[s \ {Some(s)}]]

LEMMA SumIsFold == \A w, S : Sum(w, S) = (CHOOSE g : Adds(g, w, S))[S]
BY DEF Sum, MapThenSumSet, MapThenFoldSet, Adds, Some

LEMMA LeastNumber ==
  ASSUME NEW T \in SUBSET Nat, T # {}
  PROVE  \E n \in T : \A m \in T : n <= m
<1>1. PICK n \in T : \A m \in T : ~(<<m, n>> \in OpToRel(<, Nat))
  BY NatLessThanWellFounded, WFMin
<1>2. \A m \in T : <<m, n>> \in OpToRel(<, Nat) <=> m < n
  BY DEF OpToRel
<1>3. \A m \in T : ~(m < n)
  BY <1>1, <1>2
<1> QED
  BY <1>3

(* Of the subsets of a finite set there is one with no smaller one. *)
LEMMA LeastSubset ==
  ASSUME NEW S, IsFiniteSet(S), NEW T \in SUBSET SUBSET S, T # {}
  PROVE  \E s \in T : \A t \in T : t \subseteq s => t = s
<1>1. \A s \in T : IsFiniteSet(s) /\ Cardinality(s) \in Nat
  BY FS_Subset, FS_CardinalityType
<1> DEFINE sizes == {Cardinality(s) : s \in T}
<1>2. sizes \in SUBSET Nat /\ sizes # {}
  BY <1>1
<1>3. PICK n \in sizes : \A m \in sizes : n <= m
  BY <1>2, LeastNumber
<1>4. PICK s \in T : n = Cardinality(s)
  BY <1>3
<1>5. ASSUME NEW t \in T, t \subseteq s PROVE t = s
  <2>1. Cardinality(t) <= Cardinality(s) /\ (Cardinality(s) = Cardinality(t) => s = t)
    BY <1>1, <1>5, FS_Subset
  <2>2. Cardinality(s) <= Cardinality(t)
    BY <1>3, <1>4
  <2> QED
    BY <1>1, <2>1, <2>2
<1> QED
  BY <1>5

LEMMA SomeElement ==
  ASSUME NEW s, s # {}
  PROVE  Some(s) \in s
BY DEF Some

(* The function behind a fold over a finite set exists. *)
LEMMA FoldExists ==
  ASSUME NEW w, NEW S, IsFiniteSet(S)
  PROVE  \E g : Adds(g, w, S)
<1> DEFINE P(n) == {s \in SUBSET S : Cardinality(s) <= n}
           Upto(g, n) == g = [s \in P(n) |-> IF s = {} THEN 0 ELSE w[Some(s)] + g[s \ {Some(s)}]]
           bad == {n \in Nat : \A g : ~Upto(g, n)}
<1>0. \A s \in SUBSET S : IsFiniteSet(s) /\ Cardinality(s) \in Nat /\ Cardinality(s) <= Cardinality(S)
  BY FS_Subset, FS_CardinalityType
<1>1. bad = {}
  <2> SUFFICES ASSUME bad # {} PROVE FALSE
    OBVIOUS
  <2>1. PICK n \in bad : \A m \in bad : n <= m
    BY LeastNumber
  <2>2. CASE n = 0
    <3> DEFINE g == [s \in P(n) |-> 0]
    <3>1. \A s \in P(n) : s = {}
      BY <1>0, <2>2, FS_EmptySet
    <3>2. Upto(g, n)
      BY <3>1
    <3> QED
      BY <3>2
  <2>3. CASE n # 0
    <3>1. n - 1 \in Nat /\ n - 1 \notin bad
      <4>1. n \in Nat
        OBVIOUS
      <4>2. n - 1 \in Nat /\ ~(n <= n - 1)
        BY <2>3, <4>1
      <4> HIDE DEF bad
      <4> QED
        BY <2>1, <4>2
    <3>2. PICK g : Upto(g, n - 1)
      BY <3>1
    <3> DEFINE h == [s \in P(n) |-> IF s = {} THEN 0 ELSE w[Some(s)] + g[s \ {Some(s)}]]
    <3>3. ASSUME NEW s \in P(n), s # {} PROVE s \ {Some(s)} \in P(n - 1) /\ s \ {Some(s)} \in P(n)
      <4>1. Cardinality(s \ {Some(s)}) = Cardinality(s) - 1
        BY <1>0, <3>3, SomeElement, FS_RemoveElement
      <4> QED
        BY <4>1, <1>0
    <3>4. \A s \in P(n - 1) : g[s] = IF s = {} THEN 0 ELSE w[Some(s)] + g[s \ {Some(s)}]
      BY <3>2
    <3>5. \A s \in P(n) : s \in P(n - 1) => h[s] = g[s]
      BY <3>4
    <3>6. \A s \in P(n) : s # {} => h[s \ {Some(s)}] = g[s \ {Some(s)}]
      BY <3>3, <3>5
    <3>7. Upto(h, n)
      BY <3>6
    <3> QED
      BY <3>7
  <2> QED
    BY <2>2, <2>3
<1>2. Cardinality(S) \in Nat /\ P(Cardinality(S)) = SUBSET S
  BY <1>0
<1>3. PICK g : Upto(g, Cardinality(S))
  <2>1. Cardinality(S) \notin bad
    BY <1>1
  <2> HIDE DEF Upto
  <2> QED
    BY <2>1, <1>2
<1>4. Adds(g, w, S)
  BY <1>2, <1>3 DEF Adds
<1> QED
  BY <1>4

LEMMA FoldAdds ==
  ASSUME NEW w, NEW S, IsFiniteSet(S)
  PROVE  \E g : Adds(g, w, S) /\ Sum(w, S) = g[S]
<1> DEFINE g == CHOOSE h : Adds(h, w, S)
<1>1. Adds(g, w, S)
  BY FoldExists
<1>2. Sum(w, S) = g[S]
  BY SumIsFold
<1> HIDE DEF g
<1> QED
  BY <1>1, <1>2

LEMMA AddsAt ==
  ASSUME NEW g, NEW w, NEW S, Adds(g, w, S)
  PROVE  /\ g[{}] = 0
         /\ \A s \in SUBSET S : s # {} => g[s] = w[Some(s)] + g[s \ {Some(s)}]
<1> DEFINE f == [s \in SUBSET S |-> IF s = {} THEN 0 ELSE w[Some(s)] + g[s \ {Some(s)}]]
<1>1. g = f
  BY DEF Adds
<1>2. \A s \in SUBSET S : f[s] = IF s = {} THEN 0 ELSE w[Some(s)] + g[s \ {Some(s)}]
  OBVIOUS
<1> HIDE DEF f
<1> QED
  BY <1>1, <1>2

(* Two folds agree on a set whose elements they give the same weights. *)
LEMMA FoldsAgree ==
  ASSUME NEW g, NEW w, NEW S, Adds(g, w, S),
         NEW h, NEW v, NEW T, Adds(h, v, T),
         NEW U, IsFiniteSet(U), U \subseteq S, U \subseteq T, \A x \in U : w[x] = v[x]
  PROVE  g[U] = h[U]
<1> DEFINE bad == {s \in SUBSET U : g[s] # h[s]}
<1>1. CASE bad = {}
  BY <1>1
<1>2. CASE bad # {}
  <2>0. \E s \in bad : \A t \in bad : t \subseteq s => t = s
    <3>1. bad \in SUBSET SUBSET U
      OBVIOUS
    <3> HIDE DEF bad
    <3> QED
      BY <1>2, <3>1, LeastSubset
  <2>1. PICK s \in bad : \A t \in bad : t \subseteq s => t = s
    BY <2>0
  <2>2. s # {} /\ s \in SUBSET S /\ s \in SUBSET T
    BY AddsAt
  <2>3. Some(s) \in s /\ s \ {Some(s)} \notin bad
    BY <2>1, <2>2, SomeElement
  <2>4. g[s] = w[Some(s)] + g[s \ {Some(s)}] /\ h[s] = v[Some(s)] + h[s \ {Some(s)}]
    <3> HIDE DEF bad
    <3>1. \A t \in SUBSET S : t # {} => g[t] = w[Some(t)] + g[t \ {Some(t)}]
      BY AddsAt
    <3>2. \A t \in SUBSET T : t # {} => h[t] = v[Some(t)] + h[t \ {Some(t)}]
      BY AddsAt
    <3> QED
      BY <2>2, <3>1, <3>2
  <2>5. g[s \ {Some(s)}] = h[s \ {Some(s)}] /\ w[Some(s)] = v[Some(s)]
    BY <2>3
  <2> QED
    BY <2>4, <2>5
<1> QED
  BY <1>1, <1>2

(* A fold of numbers is a number, ... *)
LEMMA FoldIsNumber ==
  ASSUME NEW g, NEW w, NEW S, IsFiniteSet(S), Adds(g, w, S), \A x \in S : w[x] \in Nat
  PROVE  \A s \in SUBSET S : g[s] \in Nat
<1> DEFINE bad == {s \in SUBSET S : g[s] \notin Nat}
<1> SUFFICES ASSUME bad # {} PROVE FALSE
  OBVIOUS
<1>0. \E s \in bad : \A t \in bad : t \subseteq s => t = s
  <2>1. bad \in SUBSET SUBSET S
    OBVIOUS
  <2> HIDE DEF bad
  <2> QED
    BY <2>1, LeastSubset
<1>1. PICK s \in bad : \A t \in bad : t \subseteq s => t = s
  BY <1>0
<1>2. s # {}
  BY AddsAt
<1>3. Some(s) \in s /\ s \ {Some(s)} \notin bad
  BY <1>1, <1>2, SomeElement
<1>4. g[s] = w[Some(s)] + g[s \ {Some(s)}]
  BY <1>2, AddsAt
<1>5. w[Some(s)] \in Nat /\ g[s \ {Some(s)}] \in Nat
  BY <1>3
<1> QED
  BY <1>4, <1>5

(* ... and any element may be the one that was added last. *)
LEMMA FoldInAnyOrder ==
  ASSUME NEW g, NEW w, NEW S, IsFiniteSet(S), Adds(g, w, S), \A x \in S : w[x] \in Nat
  PROVE  \A s \in SUBSET S : \A x \in s : g[s] = w[x] + g[s \ {x}]
<1> DEFINE bad == {s \in SUBSET S : \E x \in s : g[s] # w[x] + g[s \ {x}]}
<1> SUFFICES ASSUME bad # {} PROVE FALSE
  OBVIOUS
<1>0. \E s \in bad : \A t \in bad : t \subseteq s => t = s
  <2>1. bad \in SUBSET SUBSET S
    OBVIOUS
  <2> HIDE DEF bad
  <2> QED
    BY <2>1, LeastSubset
<1>1. PICK s \in bad : \A t \in bad : t \subseteq s => t = s
  BY <1>0
<1>2. PICK x \in s : g[s] # w[x] + g[s \ {x}]
  OBVIOUS
<1> DEFINE c == Some(s)
           r == (s \ {c}) \ {x}
<1>3. c \in s /\ s \in SUBSET S
  BY SomeElement
<1>4. g[s] = w[c] + g[s \ {c}]
  <2>1. \A t \in SUBSET S : t # {} => g[t] = w[Some(t)] + g[t \ {Some(t)}]
    BY AddsAt
  <2> HIDE DEF bad
  <2> QED
    BY <1>3, <2>1
<1>5. c # x
  BY <1>2, <1>4
<1>6. s \ {c} \notin bad /\ s \ {x} \notin bad
  BY <1>1, <1>3
<1> HIDE DEF c
<1>7. g[s \ {c}] = w[x] + g[r]
  BY <1>3, <1>5, <1>6
<1>8. g[s \ {x}] = w[c] + g[r]
  <2>1. (s \ {x}) \ {c} = r
    OBVIOUS
  <2> QED
    BY <1>3, <1>5, <1>6, <2>1
<1>9. w[c] \in Nat /\ w[x] \in Nat /\ g[r] \in Nat
  BY <1>3, FoldIsNumber
<1> QED
  BY <1>2, <1>4, <1>7, <1>8, <1>9
-----------------------------------------------------------------------------
(***************************************************************************)
(* The facts that the other proofs cite.  A fold with weights of its own   *)
(* is Sum of them if it gives every subset what Adds says.                 *)
(***************************************************************************)
LEMMA SumOfFold ==
  ASSUME NEW g, NEW w, NEW S, IsFiniteSet(S), Adds(g, w, S)
  PROVE  g[S] = Sum(w, S)
BY FoldAdds, FoldsAgree

LEMMA SumOfNone == \A w : Sum(w, {}) = 0
BY FoldAdds, AddsAt, FS_EmptySet

LEMMA SumIsNumber ==
  ASSUME NEW w, NEW S, IsFiniteSet(S), \A x \in S : w[x] \in Nat
  PROVE  Sum(w, S) \in Nat
<1>1. PICK g : Adds(g, w, S) /\ Sum(w, S) = g[S]
  BY FoldAdds
<1> QED
  BY <1>1, FoldIsNumber

LEMMA SumOfSame ==
  ASSUME NEW w, NEW v, NEW S, IsFiniteSet(S), \A x \in S : w[x] = v[x]
  PROVE  Sum(w, S) = Sum(v, S)
<1>1. PICK g : Adds(g, w, S) /\ Sum(w, S) = g[S]
  BY FoldAdds
<1>2. PICK h : Adds(h, v, S) /\ Sum(v, S) = h[S]
  BY FoldAdds
<1> QED
  BY <1>1, <1>2, FoldsAgree

LEMMA SumWithout ==
  ASSUME NEW w, NEW S, IsFiniteSet(S), \A x \in S : w[x] \in Nat, NEW x \in S
  PROVE  Sum(w, S) = w[x] + Sum(w, S \ {x})
<1>1. PICK g : Adds(g, w, S) /\ Sum(w, S) = g[S]
  BY FoldAdds
<1>2. IsFiniteSet(S \ {x})
  BY FS_RemoveElement
<1>3. PICK h : Adds(h, w, S \ {x}) /\ Sum(w, S \ {x}) = h[S \ {x}]
  BY <1>2, FoldAdds
<1>4. g[S] = w[x] + g[S \ {x}]
  BY <1>1, FoldInAnyOrder
<1>5. g[S \ {x}] = h[S \ {x}]
  BY <1>1, <1>2, <1>3, FoldsAgree
<1> QED
  BY <1>1, <1>3, <1>4, <1>5

LEMMA SumWith ==
  ASSUME NEW w, NEW S, IsFiniteSet(S), NEW x, x \notin S, \A y \in S \cup {x} : w[y] \in Nat
  PROVE  Sum(w, S \cup {x}) = w[x] + Sum(w, S)
<1>1. IsFiniteSet(S \cup {x}) /\ (S \cup {x}) \ {x} = S
  BY FS_AddElement
<1> QED
  BY <1>1, SumWithout

(* Weights that are no smaller add up to no less. *)
LEMMA SumOrdered ==
  ASSUME NEW w, NEW v, NEW S, IsFiniteSet(S),
         \A x \in S : w[x] \in Nat /\ v[x] \in Nat /\ w[x] <= v[x]
  PROVE  Sum(w, S) <= Sum(v, S)
<1> DEFINE bad == {s \in SUBSET S : ~(Sum(w, s) <= Sum(v, s))}
<1> SUFFICES ASSUME bad # {} PROVE FALSE
  OBVIOUS
<1>0. bad \in SUBSET SUBSET S
  OBVIOUS
<1>1. PICK s \in bad : \A t \in bad : t \subseteq s => t = s
  <2> HIDE DEF bad
  <2> QED
    BY <1>0, LeastSubset
<1>2. IsFiniteSet(s) /\ s \subseteq S
  BY FS_Subset
<1>3. s # {}
  BY SumOfNone
<1>4. PICK x : x \in s
  BY <1>3
<1> DEFINE t == s \ {x}
<1>5. Sum(w, s) = w[x] + Sum(w, t) /\ Sum(v, s) = v[x] + Sum(v, t)
  BY <1>2, <1>4, SumWithout
<1>6. IsFiniteSet(t) /\ t \subseteq S /\ t # s
  BY <1>2, <1>4, FS_RemoveElement
<1>7. Sum(w, t) <= Sum(v, t)
  BY <1>1, <1>6
<1>8. Sum(w, t) \in Nat /\ Sum(v, t) \in Nat
  BY <1>6, SumIsNumber
<1>9. w[x] \in Nat /\ v[x] \in Nat /\ w[x] <= v[x]
  BY <1>2, <1>4
<1> HIDE DEF t
<1> QED
  BY <1>5, <1>7, <1>8, <1>9

(* Fewer elements add up to no more. *)
LEMMA SumOfSubset ==
  ASSUME NEW w, NEW S, IsFiniteSet(S), \A x \in S : w[x] \in Nat, NEW T \in SUBSET S
  PROVE  Sum(w, T) <= Sum(w, S)
<1> DEFINE bad == {s \in SUBSET S : T \subseteq s /\ ~(Sum(w, T) <= Sum(w, s))}
<1> SUFFICES ASSUME bad # {} PROVE FALSE
  OBVIOUS
<1>0. bad \in SUBSET SUBSET S
  OBVIOUS
<1>1. PICK s \in bad : \A t \in bad : t \subseteq s => t = s
  <2> HIDE DEF bad
  <2> QED
    BY <1>0, LeastSubset
<1>2. IsFiniteSet(s) /\ s \subseteq S /\ T \subseteq s /\ ~(Sum(w, T) <= Sum(w, s))
  BY FS_Subset
<1>3. Sum(w, T) \in Nat
  BY FS_Subset, SumIsNumber
<1>4. PICK x \in s : x \notin T
  <2>1. s # T
    BY <1>2, <1>3
  <2> QED
    BY <1>2, <2>1
<1> DEFINE t == s \ {x}
<1>5. IsFiniteSet(t) /\ t \subseteq S /\ T \subseteq t /\ t # s
  BY <1>2, <1>4, FS_RemoveElement
<1>6. Sum(w, T) <= Sum(w, t)
  BY <1>1, <1>5
<1>7. Sum(w, s) = w[x] + Sum(w, t)
  BY <1>2, <1>4, SumWithout
<1>8. Sum(w, t) \in Nat /\ w[x] \in Nat
  BY <1>2, <1>4, <1>5, SumIsNumber
<1> HIDE DEF t
<1> QED
  BY <1>2, <1>3, <1>6, <1>7, <1>8

(* One weight changes and the others do not. *)
LEMMA SumChanged ==
  ASSUME NEW w, NEW v, NEW S, IsFiniteSet(S), NEW x \in S,
         \A y \in S : w[y] \in Nat /\ v[y] \in Nat,
         \A y \in S \ {x} : v[y] = w[y]
  PROVE  Sum(v, S) + w[x] = Sum(w, S) + v[x]
<1>1. IsFiniteSet(S \ {x})
  BY FS_RemoveElement
<1>2. Sum(v, S \ {x}) = Sum(w, S \ {x}) /\ Sum(w, S \ {x}) \in Nat
  BY <1>1, SumOfSame, SumIsNumber
<1>3. Sum(v, S) = v[x] + Sum(v, S \ {x}) /\ Sum(w, S) = w[x] + Sum(w, S \ {x})
  BY SumWithout
<1> QED
  BY <1>2, <1>3
=============================================================================
