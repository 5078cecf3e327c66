----------------------------- MODULE SumProofs -----------------------------
(***************************************************************************)
(* Lemmas about SumFunctionOnSet, the fold of a finite set by + that counts  *)
(* receipts, admissions and money in the other modules.  The fold is a       *)
(* recursive function over the subsets of the set: it exists, whichever      *)
(* element it takes first does not matter, and it adds up.  The inductions   *)
(* are minimal counterexamples with respect to strict inclusion.             *)
(***************************************************************************)
EXTENDS FiniteSetTheorems, TLAPS

(* The element a fold takes first, what it does with it, and the functions   *)
(* that do so for every subset.                                              *)
FirstOf(s) == CHOOSE x \in s : TRUE
FoldStep(w, f, s) == IF s = {} THEN 0 ELSE w[FirstOf(s)] + f[s \ {FirstOf(s)}]
IsFold(w, S, f) == f = [s \in SUBSET S |-> FoldStep(w, f, s)]

(* The sum is the fold's value at the whole set.                             *)
LEMMA Unfold ==
  ASSUME NEW w, NEW S
  PROVE  SumFunctionOnSet(w, S) = (CHOOSE f : IsFold(w, S, f))[S]
BY DEF SumFunctionOnSet, FoldFunctionOnSet, MapThenFoldSet, FoldStep, IsFold, FirstOf

(* Every family of subsets of a finite set has a smallest member.            *)
LEMMA Smallest ==
  ASSUME NEW S, IsFiniteSet(S), NEW F \in SUBSET SUBSET S, F # {}
  PROVE  \E T \in F : \A U \in F : U \subseteq T => U = T
<1>1. FiniteSubsetsOf(S) = SUBSET S
  BY FS_FiniteSubsetsOfFinite
<1>2. IsWellFoundedOn(StrictSubsetOrdering(S), FiniteSubsetsOf(S))
  BY FS_StrictSubsetOrderingWellFounded
<1>3. PICK T \in F : \A U \in F : <<U, T>> \notin StrictSubsetOrdering(S)
  BY <1>1, <1>2, WFMin
<1>4. \A U \in F : U \subseteq T => U = T
  BY <1>3 DEF StrictSubsetOrdering
<1> QED
  BY <1>4

(* Induction on the naturals, for a set instead of a predicate.              *)
LEMMA Counting ==
  ASSUME NEW A, 0 \in A, \A n \in Nat : n \in A => n + 1 \in A
  PROVE  Nat \subseteq A
<1> SUFFICES ASSUME NEW k \in Nat, k \notin A PROVE FALSE
  OBVIOUS
<1> DEFINE F == {0..n : n \in {m \in 0..k : m \notin A}}
<1>1. IsFiniteSet(0..k) /\ F \in SUBSET SUBSET (0..k) /\ 0..k \in F
  <2>1. IsFiniteSet(0..k)
    BY FS_Interval
  <2>2. k \in {m \in 0..k : m \notin A}
    OBVIOUS
  <2>3. F \in SUBSET SUBSET (0..k)
    OBVIOUS
  <2> QED
    BY <2>1, <2>2, <2>3
<1>2. PICK T \in F : \A U \in F : U \subseteq T => U = T
  <2> HIDE DEF F
  <2> QED
    <3>1. PICK K : K = 0..k
      OBVIOUS
    <3>2. IsFiniteSet(K) /\ F \in SUBSET SUBSET K /\ F # {}
      BY <1>1, <3>1
    <3> QED
      BY <3>2, Smallest
<1>3. PICK m \in 0..k : m \notin A /\ T = 0..m
  BY <1>2
<1>4. m # 0 /\ m - 1 \in Nat
  BY <1>3
<1>5. m - 1 \notin A /\ m - 1 \in 0..k
  BY <1>3, <1>4
<1>6. 0..(m-1) \in F /\ 0..(m-1) \subseteq T
  BY <1>3, <1>4, <1>5
<1>7. m \in T /\ m \notin 0..(m-1)
  BY <1>3
<1> QED
  BY <1>2, <1>6, <1>7

(* A fold exists: on the subsets of at most n elements, for n after n.       *)
LEMMA SumsExist ==
  ASSUME NEW w, NEW S, IsFiniteSet(S)
  PROVE  \E f : IsFold(w, S, f)
<1> DEFINE L(n) == {s \in SUBSET S : Cardinality(s) <= n}
           Good(n, g) == \A s \in L(n) : g[s] = FoldStep(w, g, s)
           A == {n \in Nat : \E g : Good(n, g)}
<1>0. \A s \in SUBSET S : IsFiniteSet(s) /\ Cardinality(s) \in Nat
  BY FS_Subset, FS_CardinalityType
<1>1. 0 \in A
  <2>1. \A s \in L(0) : s = {}
    BY <1>0, FS_EmptySet
  <2>2. Good(0, [s \in L(0) |-> 0])
    BY <2>1 DEF FoldStep
  <2> QED
    BY <2>2
<1>2. ASSUME NEW n \in Nat, n \in A PROVE n + 1 \in A
  <2>1. PICK g : Good(n, g)
    BY <1>2
  <2> DEFINE h == [s \in L(n + 1) |-> FoldStep(w, g, s)]
  <2>2. ASSUME NEW s \in L(n + 1), s # {} PROVE h[s] = FoldStep(w, h, s)
    <3> DEFINE t == s \ {FirstOf(s)}
    <3>1. FirstOf(s) \in s
      BY <2>2 DEF FirstOf
    <3>2. t \in L(n) /\ t \in L(n + 1)
      BY <1>0, <3>1, FS_RemoveElement
    <3>3. h[t] = g[t]
      BY <2>1, <3>2
    <3> QED
      BY <2>2, <3>3 DEF FoldStep
  <2>3. Good(n + 1, h)
    <3>1. ASSUME NEW s \in L(n + 1), s = {} PROVE h[s] = FoldStep(w, h, s)
      BY <3>1 DEF FoldStep
    <3> QED
      BY <2>2, <3>1
  <2> HIDE DEF Good, h
  <2> QED
    BY <2>3
<1>3. Cardinality(S) \in A
  <2> HIDE DEF A
  <2> QED
    BY <1>0, <1>1, <1>2, Counting
<1>4. PICK g : Good(Cardinality(S), g)
  BY <1>3
<1>5. \A s \in SUBSET S : s \in L(Cardinality(S))
  BY FS_Subset
<1>6. \A s \in SUBSET S : g[s] = FoldStep(w, g, s)
  BY <1>4, <1>5
<1> DEFINE f == [s \in SUBSET S |-> g[s]]
<1>7. ASSUME NEW s \in SUBSET S PROVE f[s] = FoldStep(w, f, s)
  BY <1>6 DEF FoldStep, FirstOf
<1>8. IsFold(w, S, f)
  BY <1>7 DEF IsFold
<1> QED
  BY <1>8

(* Folds of different sets agree on the subsets they share.                  *)
LEMMA SumsAgree ==
  ASSUME NEW w, NEW v, NEW S, NEW T, NEW f, NEW g,
         IsFold(w, S, f), IsFold(v, T, g), 
         NEW U \in SUBSET (S \cap T), IsFiniteSet(U), \A x \in U : w[x] = v[x]
  PROVE  f[U] = g[U]
<1> SUFFICES ASSUME f[U] # g[U] PROVE FALSE
  OBVIOUS
<1> DEFINE F == {s \in SUBSET U : f[s] # g[s]}
<1>0. F \in SUBSET SUBSET U /\ U \in F
  OBVIOUS
<1>1. PICK s \in F : \A t \in F : t \subseteq s => t = s
  <2> HIDE DEF F
  <2> QED
    BY <1>0, Smallest
<1>2. f[s] = FoldStep(w, f, s) /\ g[s] = FoldStep(v, g, s)
  BY DEF IsFold
<1>3. s # {}
  BY <1>2 DEF FoldStep
<1>4. FirstOf(s) \in s
  BY <1>3 DEF FirstOf
<1>5. f[s \ {FirstOf(s)}] = g[s \ {FirstOf(s)}]
  BY <1>1, <1>4
<1> QED
  BY <1>2, <1>3, <1>4, <1>5 DEF FoldStep

(* A sum goes by the elements' values only. *)
LEMMA SumSame ==
  ASSUME NEW w, NEW v, NEW S, IsFiniteSet(S), \A x \in S : w[x] = v[x]
  PROVE  SumFunctionOnSet(w, S) = SumFunctionOnSet(v, S)
<1>1. IsFold(w, S, CHOOSE f : IsFold(w, S, f)) /\ IsFold(v, S, CHOOSE f : IsFold(v, S, f))
  BY SumsExist
<1> QED
  BY <1>1, SumsAgree, Unfold

(* The sum of nothing.                                                       *)
LEMMA SumEmpty == \A w : SumFunctionOnSet(w, {}) = 0
<1> SUFFICES ASSUME NEW w PROVE SumFunctionOnSet(w, {}) = 0
  OBVIOUS
<1>1. PICK f : f = (CHOOSE g : IsFold(w, {}, g)) /\ IsFold(w, {}, f)
  BY SumsExist, FS_EmptySet
<1>2. f[{}] = FoldStep(w, f, {})
  BY <1>1 DEF IsFold
<1> QED
  BY <1>1, <1>2, Unfold DEF FoldStep

(* The fold's own equation.                                                  *)
LEMMA SumFirst ==
  ASSUME NEW w, NEW S, IsFiniteSet(S), S # {}
  PROVE  FirstOf(S) \in S /\ SumFunctionOnSet(w, S) = w[FirstOf(S)] + SumFunctionOnSet(w, S \ {FirstOf(S)})
<1> DEFINE T == S \ {FirstOf(S)}
<1>1. FirstOf(S) \in S
  BY DEF FirstOf
<1>2. IsFiniteSet(T)
  BY FS_RemoveElement
<1>3. PICK f : f = (CHOOSE g : IsFold(w, S, g)) /\ IsFold(w, S, f)
  BY SumsExist
<1>4. PICK h : h = (CHOOSE g : IsFold(w, T, g)) /\ IsFold(w, T, h)
  BY SumsExist, <1>2
<1>5. f[S] = FoldStep(w, f, S)
  BY <1>3 DEF IsFold
<1>6. f[T] = h[T]
  <2> HIDE DEF T
  <2>1. T \in SUBSET (S \cap T)
    BY DEF T
  <2> QED
   BY <1>2, <1>3, <1>4, <2>1, SumsAgree
<1> QED
  BY <1>1, <1>3, <1>4, <1>5, <1>6, Unfold DEF FoldStep

(* Sums of naturals are naturals.                                            *)
LEMMA SumType ==
  ASSUME NEW w, NEW S, IsFiniteSet(S), \A x \in S : w[x] \in Nat
  PROVE  SumFunctionOnSet(w, S) \in Nat
<1> SUFFICES ASSUME SumFunctionOnSet(w, S) \notin Nat PROVE FALSE
  OBVIOUS
<1> DEFINE F == {s \in SUBSET S : SumFunctionOnSet(w, s) \notin Nat}
<1>0. F \in SUBSET SUBSET S /\ S \in F
  OBVIOUS
<1>1. PICK s \in F : \A t \in F : t \subseteq s => t = s
  <2> HIDE DEF F
  <2> QED
    BY <1>0, Smallest
<1>2. s # {} /\ IsFiniteSet(s)
  <2>1. s \in SUBSET S /\ SumFunctionOnSet(w, s) \notin Nat
    BY <1>1
  <2>2. s # {}
    BY <2>1, SumEmpty
  <2> QED
    BY <2>1, <2>2, FS_Subset
<1>3. FirstOf(s) \in s /\ SumFunctionOnSet(w, s) = w[FirstOf(s)] + SumFunctionOnSet(w, s \ {FirstOf(s)})
  BY <1>2, SumFirst
<1>4. SumFunctionOnSet(w, s \ {FirstOf(s)}) \in Nat
  BY <1>1, <1>3
<1> QED
  BY <1>3, <1>4

(* Any element can be taken first.                                           *)
LEMMA SumRemove ==
  ASSUME NEW w, NEW S, IsFiniteSet(S), \A x \in S : w[x] \in Nat, NEW x \in S
  PROVE  SumFunctionOnSet(w, S) = w[x] + SumFunctionOnSet(w, S \ {x})
<1> DEFINE Off(s) == \E y \in s : SumFunctionOnSet(w, s) # w[y] + SumFunctionOnSet(w, s \ {y})
           F == {s \in SUBSET S : Off(s)}
<1> SUFFICES ASSUME Off(S) PROVE FALSE
  OBVIOUS
<1>0. F \in SUBSET SUBSET S /\ S \in F
  OBVIOUS
<1>1. PICK s \in F : \A t \in F : t \subseteq s => t = s
  <2> HIDE DEF F
  <2> QED
    BY <1>0, Smallest
<1>2. PICK y \in s : SumFunctionOnSet(w, s) # w[y] + SumFunctionOnSet(w, s \ {y})
  BY <1>1
<1>c. PICK c : c = FirstOf(s)
  OBVIOUS
<1>3. IsFiniteSet(s) /\ c \in s /\ SumFunctionOnSet(w, s) = w[c] + SumFunctionOnSet(w, s \ {c})
  BY <1>2, <1>c, SumFirst, FS_Subset
<1>4. y # c
  BY <1>2, <1>3
<1>5. SumFunctionOnSet(w, s \ {c}) = w[y] + SumFunctionOnSet(w, (s \ {c}) \ {y})
  <2>1. s \ {c} \notin F
    BY <1>1, <1>3
  <2> QED
    BY <1>2, <1>4, <2>1
<1>6. SumFunctionOnSet(w, s \ {y}) = w[c] + SumFunctionOnSet(w, (s \ {y}) \ {c})
  <2>1. s \ {y} \notin F
    BY <1>1, <1>2
  <2> QED
    BY <1>3, <1>4, <2>1
<1>7. (s \ {c}) \ {y} = (s \ {y}) \ {c}
  OBVIOUS
<1>8. SumFunctionOnSet(w, (s \ {c}) \ {y}) \in Nat /\ w[c] \in Nat /\ w[y] \in Nat
  <2>1. IsFiniteSet((s \ {c}) \ {y})
    BY <1>3, FS_Difference
  <2> QED
    BY <1>2, <1>3, <2>1, SumType
<1>9. SumFunctionOnSet(w, s) = w[y] + SumFunctionOnSet(w, s \ {y})
  <2>1. PICK m \in Nat : m = SumFunctionOnSet(w, (s \ {c}) \ {y})
    BY <1>8
  <2>2. SumFunctionOnSet(w, s \ {y}) = w[c] + m /\ SumFunctionOnSet(w, s \ {c}) = w[y] + m
    BY <1>5, <1>6, <1>7, <2>1
  <2> QED
    BY <1>3, <1>8, <2>1, <2>2
<1> QED
  BY <1>2, <1>9

(* A new element adds its value.                                             *)
LEMMA SumAdd ==
  ASSUME NEW w, NEW S, IsFiniteSet(S), NEW x, x \notin S, \A y \in S \cup {x} : w[y] \in Nat
  PROVE  SumFunctionOnSet(w, S \cup {x}) = SumFunctionOnSet(w, S) + w[x]
<1>1. IsFiniteSet(S \cup {x}) /\ (S \cup {x}) \ {x} = S
  BY FS_AddElement
<1>2. SumFunctionOnSet(w, S) \in Nat
  BY SumType
<1> QED
  BY <1>1, <1>2, SumRemove

(* Another value of one element adds the difference.                         *)
LEMMA SumChange ==
  ASSUME NEW w, NEW v, NEW S, IsFiniteSet(S), NEW x \in S,
         \A y \in S : w[y] \in Nat /\ v[y] \in Nat,
         \A y \in S \ {x} : v[y] = w[y]
  PROVE  SumFunctionOnSet(v, S) + w[x] = SumFunctionOnSet(w, S) + v[x]
<1>1. IsFiniteSet(S \ {x})
  BY FS_RemoveElement
<1>2. SumFunctionOnSet(w, S) = w[x] + SumFunctionOnSet(w, S \ {x})
  BY SumRemove
<1>3. SumFunctionOnSet(v, S) = v[x] + SumFunctionOnSet(v, S \ {x})
  BY SumRemove
<1>4. SumFunctionOnSet(v, S \ {x}) = SumFunctionOnSet(w, S \ {x})
  BY <1>1, SumSame
<1>5. SumFunctionOnSet(w, S \ {x}) \in Nat
  BY <1>1, SumType
<1> QED
  BY <1>2, <1>3, <1>4, <1>5

(* Fewer elements have a smaller sum.                                        *)
LEMMA SumMonotone ==
  ASSUME NEW w, NEW S, IsFiniteSet(S), NEW T \in SUBSET S, \A x \in S : w[x] \in Nat
  PROVE  SumFunctionOnSet(w, T) <= SumFunctionOnSet(w, S)
<1> DEFINE F == {s \in SUBSET S : T \subseteq s
                    /\ ~(SumFunctionOnSet(w, T) <= SumFunctionOnSet(w, s))}
<1> SUFFICES ASSUME S \in F PROVE FALSE
  OBVIOUS
<1>1. PICK s \in F : \A t \in F : t \subseteq s => t = s
  <2>1. F \in SUBSET SUBSET S /\ F # {}
    OBVIOUS
  <2> HIDE DEF F
  <2> QED
    BY <2>1, Smallest
<1>2. s \in SUBSET S /\ T \subseteq s /\ IsFiniteSet(s) /\ IsFiniteSet(T)
      /\ ~(SumFunctionOnSet(w, T) <= SumFunctionOnSet(w, s))
  BY <1>1, FS_Subset
<1>3. SumFunctionOnSet(w, T) \in Nat /\ SumFunctionOnSet(w, s) \in Nat
  BY <1>2, SumType
<1>4. PICK x \in s : x \notin T
  <2>1. s # T
    BY <1>2, <1>3
  <2> QED
    BY <1>2, <2>1
<1>5. SumFunctionOnSet(w, s) = w[x] + SumFunctionOnSet(w, s \ {x})
  BY <1>2, <1>4, SumRemove
<1>6. SumFunctionOnSet(w, T) <= SumFunctionOnSet(w, s \ {x})
  <2>1. s \ {x} \notin F
    BY <1>1, <1>4
  <2> QED
    BY <1>2, <1>4, <2>1
<1>7. SumFunctionOnSet(w, s \ {x}) \in Nat /\ w[x] \in Nat
  <2>1. IsFiniteSet(s \ {x}) /\ s \ {x} \subseteq S
    BY <1>2, FS_RemoveElement
  <2> QED
    BY <1>2, <1>4, <2>1, SumType
<1> QED
  BY <1>2, <1>3, <1>5, <1>6, <1>7

(* The sum of the first places, one place more.                              *)
LEMMA SumNext ==
  ASSUME NEW w, NEW k \in Nat, \A i \in 0..k : w[i] \in Nat
  PROVE  SumFunctionOnSet(w, 0..k) = SumFunctionOnSet(w, 0..(k - 1)) + w[k]
<1>1. PICK S : S = 0..(k - 1)
  OBVIOUS
<1>2. IsFiniteSet(0..(k - 1))
  BY FS_Interval
<1>3. 0..k = S \cup {k} /\ k \notin S
  BY <1>1
<1>4. SumFunctionOnSet(w, S \cup {k}) = SumFunctionOnSet(w, S) + w[k]
  BY <1>1, <1>2, <1>3, SumAdd
<1> QED
  BY <1>1, <1>3, <1>4

(* Values that move up by one place, with 0 in the first, keep their sum.    *)
LEMMA SumShift ==
  ASSUME NEW w, NEW v, NEW n \in Nat, v[0] = 0,
         \A i \in 0..n : w[i] \in Nat,
         \A i \in 1..n : v[i] = w[i - 1]
  PROVE  SumFunctionOnSet(v, 0..n) = SumFunctionOnSet(w, 0..(n - 1))
<1> DEFINE A == {k \in Nat : k <= n =>
                   SumFunctionOnSet(v, 0..k) = SumFunctionOnSet(w, 0..(k - 1))}
<1>1. 0 \in A
  <2>1. PICK j \in Nat : j = 0
    OBVIOUS
  <2>2. SumFunctionOnSet(v, 0..j) = SumFunctionOnSet(v, 0..(j - 1)) + v[j]
    <3>1. \A i \in 0..j : v[i] \in Nat
      BY <2>1
    <3> QED
      BY <3>1, SumNext
  <2>3. 0..(j - 1) = {} /\ 0..(0 - 1) = {}
    BY <2>1
  <2>4. SumFunctionOnSet(v, 0..0) = 0
    BY <2>1, <2>2, <2>3, SumEmpty
  <2> QED
    BY <2>3, <2>4, SumEmpty
<1>2. ASSUME NEW k \in Nat, k \in A PROVE k + 1 \in A
  <2> SUFFICES ASSUME k + 1 <= n
               PROVE  SumFunctionOnSet(v, 0..(k + 1)) = SumFunctionOnSet(w, 0..k)
    OBVIOUS
  <2>1. SumFunctionOnSet(v, 0..k) = SumFunctionOnSet(w, 0..(k - 1))
    BY <1>2
  <2>2. \A i \in 0..(k + 1) : v[i] \in Nat
    <3> SUFFICES ASSUME NEW i \in 0..(k + 1) PROVE v[i] \in Nat
      OBVIOUS
    <3>1. i = 0 \/ (i \in 1..n /\ i - 1 \in 0..n)
      OBVIOUS
    <3> QED
      BY <3>1
  <2>3. SumFunctionOnSet(v, 0..(k + 1)) = SumFunctionOnSet(v, 0..k) + v[k + 1]
    <3>1. PICK j \in Nat : j = k + 1 /\ j - 1 = k
      OBVIOUS
    <3>2. SumFunctionOnSet(v, 0..j) = SumFunctionOnSet(v, 0..(j - 1)) + v[j]
      BY <2>2, <3>1, SumNext
    <3> QED
      BY <3>1, <3>2
  <2>4. SumFunctionOnSet(w, 0..k) = SumFunctionOnSet(w, 0..(k - 1)) + w[k]
    BY SumNext
  <2>5. v[k + 1] = w[k]
    OBVIOUS
  <2> QED
    BY <2>1, <2>3, <2>4, <2>5
<1>3. n \in A
  <2> HIDE DEF A
  <2> QED
    BY <1>1, <1>2, Counting
<1> QED
  BY <1>3
=============================================================================
