------------------------------ MODULE FiniteSums ------------------------------
(***************************************************************************)
(* What MapThenSumSet is, for the sums of amounts that the models compare  *)
(* with a stored total.  Induction is by the least counterexample, which   *)
(* the well-foundedness of < on the naturals provides.                     *)
(***************************************************************************)
EXTENDS FiniteSetsExt, FiniteSetTheorems, TLAPS

(* The sum of a[x] over the elements x of S. *)
Sum(a, S) == MapThenSumSet(LAMBDA x : a[x], S)

(* The function by which the sum is computed, and its equation. *)
Chosen(s) == CHOOSE x \in s : TRUE
Folded(a, f, s) == IF s = {} THEN 0 ELSE a[Chosen(s)] + f[s \ {Chosen(s)}]
Iter(a, S) == CHOOSE f : f = [s \in SUBSET S |-> Folded(a, f, s)]

(* MapThenSumSet, which sums raised amounts, expenses and ledger entries,    *)
(* computes its sum by that function.                                       *)
LEMMA SumByIter == \A a, S : Sum(a, S) = Iter(a, S)[S]
  BY DEF Sum, MapThenSumSet, MapThenFoldSet, Iter, Folded, Chosen

(* Every set of numbers that is not empty has a least one. *)
LEMMA Least ==
    ASSUME NEW B \in SUBSET Nat, B # {}
    PROVE  \E n \in B : \A m \in B : n <= m
  <1>1. PICK n \in B : \A m \in B : ~(<<m, n>> \in OpToRel(<, Nat))
    BY NatLessThanWellFounded, WFMin
  <1>2. \A m \in B : ~(m < n)
    BY <1>1 DEF OpToRel
  <1> QED
    BY <1>2

(* What is chosen is in the set, and leaves a set with one element less. *)
LEMMA ChosenLeaves ==
    ASSUME NEW s, IsFiniteSet(s), s # {}
    PROVE  /\ Chosen(s) \in s /\ Cardinality(s) \in Nat /\ IsFiniteSet(s \ {Chosen(s)})
           /\ Cardinality(s \ {Chosen(s)}) \in Nat
           /\ Cardinality(s \ {Chosen(s)}) = Cardinality(s) - 1
           /\ Cardinality(s) > 0
  <1>1. Chosen(s) \in s
    BY DEF Chosen
  <1>2. /\ IsFiniteSet(s \ {Chosen(s)})
        /\ Cardinality(s \ {Chosen(s)}) = Cardinality(s) - 1
    BY <1>1, FS_RemoveElement
  <1>3. Cardinality(s) \in Nat /\ Cardinality(s \ {Chosen(s)}) \in Nat
    BY <1>2, FS_CardinalityType
  <1> QED
    BY <1>1, <1>2, <1>3

(* The subsets with at most n elements have a function that sums them. *)
UpTo(S, n) == {s \in SUBSET S : Cardinality(s) <= n}
Summed(a, S, n) == \E f \in [UpTo(S, n) -> Nat] : \A s \in UpTo(S, n) : f[s] = Folded(a, f, s)

(* Such a function exists for every n: a least n without one would extend    *)
(* the function for n - 1.                                                  *)
LEMMA SummedUpTo ==
    ASSUME NEW S, IsFiniteSet(S), NEW a, \A x \in S : a[x] \in Nat
    PROVE  \A n \in Nat : Summed(a, S, n)
  <1> DEFINE Bad == {n \in Nat : ~Summed(a, S, n)}
  <1>0. \A s \in SUBSET S : IsFiniteSet(s) /\ Cardinality(s) \in Nat
    BY FS_Subset, FS_CardinalityType
  <1>1. SUFFICES ASSUME Bad # {} PROVE FALSE
    OBVIOUS
  <1>2. PICK n \in Bad : \A m \in Bad : n <= m
    <2> HIDE DEF Bad
    <2>1. Bad \in SUBSET Nat
      BY DEF Bad
    <2> QED
      BY <1>1, <2>1, Least
  <1>3. CASE n = 0
    <2>1. \A s \in UpTo(S, 0) : s = {}
      BY <1>0, FS_EmptySet DEF UpTo
    <2> DEFINE f == [s \in UpTo(S, 0) |-> 0]
    <2>2. f \in [UpTo(S, 0) -> Nat] /\ \A s \in UpTo(S, 0) : f[s] = Folded(a, f, s)
      BY <2>1 DEF Folded
    <2> QED
      BY <1>2, <1>3, <2>2 DEF Summed
  <1>4. CASE n # 0
    <2>1. n - 1 \in Nat /\ Summed(a, S, n - 1)
      BY <1>2, <1>4
    <2>2. PICK f \in [UpTo(S, n - 1) -> Nat] : \A s \in UpTo(S, n - 1) : f[s] = Folded(a, f, s)
      BY <2>1 DEF Summed
    <2> DEFINE g == [s \in UpTo(S, n) |-> Folded(a, f, s)]
    <2>3. ASSUME NEW s \in UpTo(S, n), s # {}
          PROVE  Chosen(s) \in S /\ s \ {Chosen(s)} \in UpTo(S, n - 1)
                   /\ s \ {Chosen(s)} \in UpTo(S, n)
      <3> DEFINE t == s \ {Chosen(s)}
      <3>1. IsFiniteSet(s) /\ Cardinality(s) <= n /\ s \subseteq S
        BY <1>0 DEF UpTo
      <3>2. /\ Chosen(s) \in s /\ Cardinality(s) \in Nat
            /\ Cardinality(t) \in Nat /\ Cardinality(t) = Cardinality(s) - 1
        BY <2>3, <3>1, ChosenLeaves
      <3> HIDE DEF t
      <3>3. Cardinality(t) <= n - 1 /\ Cardinality(t) <= n
        BY <1>2, <3>1, <3>2
      <3>4. t \subseteq S
        BY <3>1 DEF t
      <3>5. t \in UpTo(S, n - 1) /\ t \in UpTo(S, n)
        BY <3>3, <3>4 DEF UpTo
      <3> QED
        BY <3>1, <3>2, <3>5 DEF t
    <2>4. g \in [UpTo(S, n) -> Nat]
      BY <2>2, <2>3 DEF Folded
    <2>5. \A s \in UpTo(S, n - 1) : s \in UpTo(S, n) /\ g[s] = f[s]
      <3>1. UpTo(S, n - 1) \subseteq UpTo(S, n)
        BY <1>0, <1>2 DEF UpTo
      <3> QED
        BY <2>2, <3>1
    <2>6. \A s \in UpTo(S, n) : g[s] = Folded(a, g, s)
      <3> HIDE DEF g
      <3>1. \A s \in UpTo(S, n) : g[s] = Folded(a, f, s)
        BY DEF g
      <3> QED
        BY <2>3, <2>5, <3>1 DEF Folded
    <2> QED
      BY <1>2, <2>4, <2>6 DEF Summed
  <1> QED
    BY <1>3, <1>4

(* A function with the equation on all subsets. *)
Solves(f, a, S) == \A s \in SUBSET S : f[s] = Folded(a, f, s)

(* They agree on every subset: a smallest one where they differ has an       *)
(* element that both take away first.                                       *)
LEMMA SummedAlike ==
    ASSUME NEW S, IsFiniteSet(S), NEW a, NEW f, NEW g, Solves(f, a, S), Solves(g, a, S)
    PROVE  \A s \in SUBSET S : f[s] = g[s]
  <1> DEFINE Bad == {n \in Nat : \E s \in SUBSET S : Cardinality(s) = n /\ f[s] # g[s]}
  <1>0. \A s \in SUBSET S : IsFiniteSet(s) /\ Cardinality(s) \in Nat
    BY FS_Subset, FS_CardinalityType
  <1>1. SUFFICES ASSUME Bad # {} PROVE FALSE
    BY <1>0
  <1>2. PICK n \in Bad : \A m \in Bad : n <= m
    <2> HIDE DEF Bad
    <2>1. Bad \in SUBSET Nat
      BY DEF Bad
    <2> QED
      BY <1>1, <2>1, Least
  <1>3. PICK s \in SUBSET S : Cardinality(s) = n /\ f[s] # g[s]
    BY <1>2
  <1>4. s # {}
    BY <1>3 DEF Solves, Folded
  <1> DEFINE t == s \ {Chosen(s)}
  <1>5. t \in SUBSET S /\ Cardinality(t) \in Nat /\ Cardinality(t) < n
    BY <1>0, <1>3, <1>4, ChosenLeaves
  <1>6. f[t] = g[t]
    BY <1>2, <1>5
  <1> QED
    BY <1>3, <1>4, <1>6 DEF Solves, Folded

(* So the chosen function is one, and its values are natural numbers.         *)
LEMMA IterSums ==
    ASSUME NEW S, IsFiniteSet(S), NEW a, \A x \in S : a[x] \in Nat
    PROVE  \A s \in SUBSET S : Iter(a, S)[s] \in Nat /\ Iter(a, S)[s] = Folded(a, Iter(a, S), s)
  <1>0. Cardinality(S) \in Nat /\ \A s \in SUBSET S : Cardinality(s) \in Nat /\ Cardinality(s) <= Cardinality(S)
    BY FS_Subset, FS_CardinalityType
  <1>1. UpTo(S, Cardinality(S)) = SUBSET S
    BY <1>0 DEF UpTo
  <1>2. PICK f \in [SUBSET S -> Nat] : \A s \in SUBSET S : f[s] = Folded(a, f, s)
    <2>1. Summed(a, S, Cardinality(S))
      BY <1>0, SummedUpTo
    <2> QED
      BY <1>1, <2>1 DEF Summed
  <1>3. f = [s \in SUBSET S |-> Folded(a, f, s)]
    BY <1>2
  <1> DEFINE h == Iter(a, S)
  <1>4. h = [s \in SUBSET S |-> Folded(a, h, s)]
    BY <1>3 DEF Iter
  <1> HIDE DEF h
  <1>5. \A s \in SUBSET S : h[s] = Folded(a, h, s)
    BY <1>4
  <1>6. \A s \in SUBSET S : h[s] = f[s]
    <2>1. Solves(f, a, S) /\ Solves(h, a, S)
      BY <1>2, <1>5 DEF Solves
    <2> QED
      BY <2>1, SummedAlike
  <1> QED
    BY <1>2, <1>5, <1>6 DEF h

(* Nothing sums to nothing. *)
LEMMA SumEmpty == ASSUME NEW a PROVE Sum(a, {}) = 0
  BY FS_EmptySet, IterSums, SumByIter DEF Folded

(* A sum of natural numbers is one.                                          *)
LEMMA SumType ==
    ASSUME NEW S, IsFiniteSet(S), NEW a, \A x \in S : a[x] \in Nat
    PROVE  Sum(a, S) \in Nat
  BY IterSums, SumByIter

(* The sum of a subset does not depend on the set it is taken from. *)
LEMMA SumChosen ==
    ASSUME NEW S, IsFiniteSet(S), S # {}, NEW a, \A x \in S : a[x] \in Nat
    PROVE  Sum(a, S) = a[Chosen(S)] + Sum(a, S \ {Chosen(S)})
  <1> DEFINE T == S \ {Chosen(S)}
             f == Iter(a, S)
             g == Iter(a, T)
  <1>1. Solves(f, a, S)
    BY IterSums DEF Solves
  <1>2. IsFiniteSet(T) /\ T \subseteq S
    BY ChosenLeaves
  <1>3. Solves(g, a, T)
    BY <1>2, IterSums DEF Solves
  <1>4. Solves(f, a, T)
    BY <1>1, <1>2 DEF Solves
  <1> HIDE DEF f, g, T
  <1>5. f[T] = g[T]
    BY <1>2, <1>3, <1>4, SummedAlike
  <1>6. f[S] = a[Chosen(S)] + f[T]
    BY <1>1 DEF Solves, Folded, T
  <1> QED
    BY <1>5, <1>6, SumByIter DEF f, g, T

(* Any element may be taken first. *)
LEMMA SumRemove ==
    ASSUME NEW S, IsFiniteSet(S), NEW a, \A x \in S : a[x] \in Nat
    PROVE  \A y \in S : Sum(a, S) = a[y] + Sum(a, S \ {y})
  <1> DEFINE Wrong(s) == \E y \in s : Sum(a, s) # a[y] + Sum(a, s \ {y})
             Bad == {n \in Nat : \E s \in SUBSET S : Cardinality(s) = n /\ Wrong(s)}
  <1>0. \A s \in SUBSET S : IsFiniteSet(s) /\ Cardinality(s) \in Nat
    BY FS_Subset, FS_CardinalityType
  <1>1. SUFFICES ASSUME Bad # {} PROVE FALSE
    BY <1>0
  <1>2. PICK n \in Bad : \A m \in Bad : n <= m
    <2> HIDE DEF Bad
    <2>1. Bad \in SUBSET Nat
      BY DEF Bad
    <2> QED
      BY <1>1, <2>1, Least
  <1>3. PICK s \in SUBSET S : Cardinality(s) = n /\ Wrong(s)
    BY <1>2
  <1>4. PICK y \in s : Sum(a, s) # a[y] + Sum(a, s \ {y})
    BY <1>3
  <1> DEFINE x == Chosen(s)
  <1>5. x \in s /\ x # y /\ Sum(a, s) = a[x] + Sum(a, s \ {x})
    <2>1. Sum(a, s) = a[x] + Sum(a, s \ {x})
      BY <1>0, <1>4, SumChosen
    <2> QED
      BY <1>4, <2>1 DEF Chosen
  <1> HIDE DEF x
  <1>6. ASSUME NEW z \in s
        PROVE  /\ s \ {z} \in SUBSET S /\ IsFiniteSet(s \ {z}) /\ Cardinality(s \ {z}) \in Nat
               /\ Cardinality(s \ {z}) < n
    <2>1. Cardinality(s \ {z}) = Cardinality(s) - 1
      BY <1>0, FS_RemoveElement
    <2> QED
      BY <1>0, <1>3, <2>1
  <1>7. ASSUME NEW z \in s, Wrong(s \ {z}) PROVE FALSE
    <2>1. Cardinality(s \ {z}) \in Bad
      BY <1>6, <1>7
    <2> HIDE DEF Bad
    <2>2. n <= Cardinality(s \ {z})
      BY <1>2, <2>1
    <2>3. n \in Nat
      BY <1>2 DEF Bad
    <2>4. Cardinality(s \ {z}) \in Nat /\ Cardinality(s \ {z}) < n
      BY <1>6
    <2> QED
      BY <2>2, <2>3, <2>4
  <1> DEFINE rest == Sum(a, (s \ {x}) \ {y})
  <1>8. Sum(a, s \ {x}) = a[y] + rest
    BY <1>5, <1>7
  <1>9. Sum(a, s \ {y}) = a[x] + rest
    <2>1. (s \ {x}) \ {y} = (s \ {y}) \ {x}
      OBVIOUS
    <2>2. Sum(a, s \ {y}) = a[x] + Sum(a, (s \ {y}) \ {x})
      BY <1>5, <1>7
    <2> QED
      BY <2>1, <2>2
  <1>10. rest \in Nat /\ a[x] \in Nat /\ a[y] \in Nat
    <2>1. IsFiniteSet((s \ {x}) \ {y}) /\ (s \ {x}) \ {y} \subseteq S
      BY <1>0
    <2> QED
      BY <1>4, <1>5, <2>1, SumType
  <1> HIDE DEF rest, Wrong, Bad
  <1>11. a[x] + (a[y] + rest) = a[y] + (a[x] + rest)
    BY <1>10
  <1> QED
    BY <1>4, <1>5, <1>8, <1>9, <1>11

(* One element more adds its amount. *)
LEMMA SumAdd ==
    ASSUME NEW S, IsFiniteSet(S), NEW y, y \notin S, NEW a, \A x \in S \cup {y} : a[x] \in Nat
    PROVE  Sum(a, S \cup {y}) = Sum(a, S) + a[y]
  <1>1. IsFiniteSet(S \cup {y}) /\ (S \cup {y}) \ {y} = S
    BY FS_AddElement
  <1>2. Sum(a, S \cup {y}) = a[y] + Sum(a, S)
    BY <1>1, SumRemove
  <1>3. Sum(a, S) \in Nat /\ a[y] \in Nat
    BY SumType
  <1> QED
    BY <1>2, <1>3
=============================================================================
