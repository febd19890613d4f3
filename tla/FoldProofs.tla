----------------------------- MODULE FoldProofs -----------------------------
(***************************************************************************)
(* Sums over finite sets and selections from sequences, which the trend of   *)
(* the dashboard, the grids of a rich menu and the messages of a template    *)
(* are computed with.  Both are folds, so each is first shown to obey the    *)
(* equation it is defined by.                                                *)
(*                                                                         *)
(* Induction is by a smallest counterexample: the sets for which a claim     *)
(* fails would have a minimal element.                                       *)
(***************************************************************************)
EXTENDS Integers, Sequences, FiniteSetsExt, Functions, SequencesExt,
        FiniteSetTheorems, SequenceTheorems, WellFoundedInduction, TLAPS

-----------------------------------------------------------------------------
(* Induction, for sets instead of predicates. *)

(* A set of natural numbers that has zero and every successor has them all. *)
LEMMA AllNaturals ==
  ASSUME NEW T, 0 \in T, \A n \in Nat : n \in T => n + 1 \in T
  PROVE  Nat \subseteq T
<1> DEFINE U == Nat \ T
<1> SUFFICES ASSUME U # {} PROVE FALSE
  OBVIOUS
<1>1. PICK n \in U : \A m \in U : ~ (<<m, n>> \in OpToRel(<, Nat))
  BY WFMin, NatLessThanWellFounded
<1>2. n \in Nat /\ n # 0 /\ n - 1 \in Nat
  OBVIOUS
<1>3. n - 1 \notin U
  <2> SUFFICES ASSUME n - 1 \in U PROVE FALSE
    OBVIOUS
  <2>1. ~ (n - 1 < n)
    BY <1>1, <1>2 DEF OpToRel
  <2> QED BY <1>2, <2>1
<1>4. (n - 1) + 1 = n
  BY <1>2
<1> QED BY <1>2, <1>3, <1>4

(* Among subsets of a finite set one has none of the others below it. *)
LEMMA SmallestSubset ==
  ASSUME NEW S, IsFiniteSet(S), NEW T \in SUBSET (SUBSET S), T # {}
  PROVE  \E A \in T : \A B \in T : B \subseteq A => B = A
<1>1. IsWellFoundedOn(StrictSubsetOrdering(S), FiniteSubsetsOf(S))
  BY FS_StrictSubsetOrderingWellFounded
<1>2. FiniteSubsetsOf(S) = SUBSET S
  BY FS_FiniteSubsetsOfFinite
<1>3. PICK A \in T : \A B \in T : ~ (<<B, A>> \in StrictSubsetOrdering(S))
  BY <1>1, <1>2, WFMin
<1>4. ASSUME NEW B \in T, B \subseteq A PROVE B = A
  BY <1>3, <1>4 DEF StrictSubsetOrdering
<1> QED BY <1>4

(* A set of sets that has the empty one, and with a set also that with one      *)
(* element more, has every finite set.                                         *)
LEMMA AllSubsets ==
  ASSUME NEW S, IsFiniteSet(S), NEW T, {} \in T,
         \A A \in SUBSET S, x \in S : x \notin A /\ A \in T => A \cup {x} \in T
  PROVE  SUBSET S \subseteq T
<1> DEFINE U == (SUBSET S) \ T
<1> SUFFICES ASSUME U # {} PROVE FALSE
  OBVIOUS
<1>1. PICK A \in U : \A B \in U : B \subseteq A => B = A
  <2>1. U \in SUBSET (SUBSET S)
    OBVIOUS
  <2> HIDE DEF U
  <2> QED BY <2>1, SmallestSubset
<1>2. PICK x \in A : TRUE
  OBVIOUS
<1>3. A \ {x} \notin U
  BY <1>1, <1>2
<1>4. A \ {x} \in SUBSET S /\ x \in S /\ x \notin A \ {x} /\ A \ {x} \in T
  BY <1>3
<1>5. (A \ {x}) \cup {x} = A
  BY <1>2
<1>6. A \in T
  BY <1>4, <1>5
<1> QED BY <1>6

-----------------------------------------------------------------------------
(* A fold on the subsets of a finite set: one element is taken from each set    *)
(* that is not empty, and what is left is folded before it.                    *)

Takes(c, D) == \A s \in SUBSET D : s # {} => c[s] \in s

Folded(f, base, G, c, s) == f[s] = IF s = {} THEN base ELSE G[c[s], f[s \ {c[s]}]]

IsFold(f, D, base, G, c) == \A s \in SUBSET D : Folded(f, base, G, c, s)

LEMMA FoldExists ==
  ASSUME NEW D, IsFiniteSet(D), NEW V, NEW base \in V, NEW G \in [D \X V -> V],
         NEW c, Takes(c, D)
  PROVE  \E f \in [SUBSET D -> V] : IsFold(f, D, base, G, c)
<1> DEFINE Upto(f, n) == \A s \in SUBSET D : Cardinality(s) <= n => Folded(f, base, G, c, s)
           T == {n \in Nat : \E f \in [SUBSET D -> V] : Upto(f, n)}
<1>1. \A s \in SUBSET D : IsFiniteSet(s) /\ Cardinality(s) \in Nat
  BY FS_Subset, FS_CardinalityType
<1>2. 0 \in T
  <2> DEFINE f == [s \in SUBSET D |-> base]
  <2>1. f \in [SUBSET D -> V]
    OBVIOUS
  <2>2. ASSUME NEW s \in SUBSET D, Cardinality(s) <= 0 PROVE Folded(f, base, G, c, s)
    <3>1. s = {}
      BY <1>1, <2>2, FS_EmptySet
    <3> QED BY <3>1 DEF Folded
  <2> HIDE DEF f
  <2> QED BY <2>1, <2>2
<1>3. ASSUME NEW n \in Nat, n \in T PROVE n + 1 \in T
  <2>1. PICK f \in [SUBSET D -> V] : Upto(f, n)
    BY <1>3
  <2> DEFINE g == [s \in SUBSET D |-> IF s = {} THEN base ELSE G[c[s], f[s \ {c[s]}]]]
  <2>2. g \in [SUBSET D -> V]
    <3>1. ASSUME NEW s \in SUBSET D, s # {} PROVE G[c[s], f[s \ {c[s]}]] \in V
      <4>1. c[s] \in D /\ s \ {c[s]} \in SUBSET D
        BY <3>1 DEF Takes
      <4>2. f[s \ {c[s]}] \in V
        BY <4>1
      <4> QED BY <4>1, <4>2
    <3> QED BY <3>1
  <2>3. ASSUME NEW s \in SUBSET D, Cardinality(s) <= n + 1 PROVE Folded(g, base, G, c, s)
    <3>1. CASE s = {}
      BY <3>1 DEF Folded
    <3>2. CASE s # {}
      <4> DEFINE t == s \ {c[s]}
      <4>1. c[s] \in s /\ t \in SUBSET D
        BY <3>2 DEF Takes
      <4>2. Cardinality(t) <= n
        BY <1>1, <2>3, <4>1, FS_RemoveElement
      <4>3. f[t] = IF t = {} THEN base ELSE G[c[t], f[t \ {c[t]}]]
        BY <2>1, <4>1, <4>2 DEF Folded
      <4>4. g[t] = f[t]
        BY <4>1, <4>3
      <4>5. g[s] = G[c[s], f[t]]
        BY <3>2
      <4> HIDE DEF g, t
      <4>6. g[s] = G[c[s], g[t]]
        BY <4>4, <4>5
      <4> QED BY <3>2, <4>6 DEF Folded, t
    <3> QED BY <3>1, <3>2
  <2> HIDE DEF g
  <2> QED BY <2>2, <2>3
<1>4. Cardinality(D) \in T
  <2> HIDE DEF T
  <2>1. Nat \subseteq T
    BY <1>2, <1>3, AllNaturals
  <2> QED BY <1>1, <2>1
<1>5. PICK f \in [SUBSET D -> V] : Upto(f, Cardinality(D))
  BY <1>4
<1>6. \A s \in SUBSET D : Cardinality(s) <= Cardinality(D)
  BY FS_Subset
<1> QED BY <1>5, <1>6 DEF IsFold

(* Two folds that start alike, and take the same steps, are the same. *)
SameSteps(f, g, D, c) ==
  /\ f[{}] = g[{}]
  /\ \A s \in SUBSET D : s # {} /\ f[s \ {c[s]}] = g[s \ {c[s]}] => f[s] = g[s]

LEMMA FoldUnique ==
  ASSUME NEW D, IsFiniteSet(D), NEW c, Takes(c, D), NEW f, NEW g, SameSteps(f, g, D, c)
  PROVE  \A s \in SUBSET D : f[s] = g[s]
<1> USE DEF SameSteps
<1> DEFINE U == {s \in SUBSET D : f[s] # g[s]}
<1> SUFFICES ASSUME U # {} PROVE FALSE
  OBVIOUS
<1>1. PICK s \in U : \A t \in U : t \subseteq s => t = s
  <2>1. U \in SUBSET (SUBSET D)
    OBVIOUS
  <2> HIDE DEF U
  <2> QED BY <2>1, SmallestSubset
<1>2. s # {}
  OBVIOUS
<1>3. c[s] \in s
  BY <1>2 DEF Takes
<1>4. s \ {c[s]} \in SUBSET D /\ s \ {c[s]} \notin U
  BY <1>1, <1>3
<1> QED BY <1>2, <1>4

-----------------------------------------------------------------------------
(* Sums. *)

Arbitrary(s) == CHOOSE x \in s : TRUE

(* What SumFunctionOnSet is defined by. *)
SumEquation(f, g, S) ==
  f = [s \in SUBSET S |-> IF s = {} THEN 0 ELSE g[Arbitrary(s)] + f[s \ {Arbitrary(s)}]]

LEMMA SumIsChosen ==
  ASSUME NEW g, NEW S
  PROVE  SumFunctionOnSet(g, S) = (CHOOSE f : SumEquation(f, g, S))[S]
BY DEF SumFunctionOnSet, FoldFunctionOnSet, MapThenFoldSet, SumEquation, Arbitrary

LEMMA AnyIsTaken ==
  ASSUME NEW D
  PROVE  Takes([s \in SUBSET D |-> Arbitrary(s)], D)
BY DEF Takes, Arbitrary

LEMMA SumExists ==
  ASSUME NEW D, IsFiniteSet(D), NEW g, \A x \in D : g[x] \in Int
  PROVE  \E f \in [SUBSET D -> Int] : SumEquation(f, g, D)
<1> DEFINE c == [s \in SUBSET D |-> Arbitrary(s)]
           G == [p \in D \X Int |-> g[p[1]] + p[2]]
<1>1. Takes(c, D)
  BY AnyIsTaken
<1>2. G \in [D \X Int -> Int]
  OBVIOUS
<1>3. PICK f \in [SUBSET D -> Int] : \A s \in SUBSET D : Folded(f, 0, G, c, s)
  <2> DEFINE zero == 0
             V    == Int
  <2>1. zero \in V /\ G \in [D \X V -> V]
    BY <1>2
  <2> HIDE DEF c, G, zero, V
  <2>2. \E f \in [SUBSET D -> V] : IsFold(f, D, zero, G, c)
    BY <1>1, <2>1, FoldExists
  <2> QED BY <2>2 DEF zero, V, IsFold
<1>4. ASSUME NEW s \in SUBSET D
      PROVE  f[s] = IF s = {} THEN 0 ELSE g[Arbitrary(s)] + f[s \ {Arbitrary(s)}]
  <2>1. CASE s = {}
    BY <1>3, <2>1 DEF Folded
  <2>2. CASE s # {}
    <3>1. Arbitrary(s) \in D /\ s \ {Arbitrary(s)} \in SUBSET D
      BY <2>2 DEF Arbitrary
    <3>2. f[s \ {Arbitrary(s)}] \in Int
      BY <3>1
    <3>3. f[s] = G[Arbitrary(s), f[s \ {Arbitrary(s)}]]
      BY <1>3, <2>2 DEF Folded
    <3> QED BY <2>2, <3>1, <3>2, <3>3
  <2> QED BY <2>1, <2>2
<1>5. f = [s \in SUBSET D |-> IF s = {} THEN 0 ELSE g[Arbitrary(s)] + f[s \ {Arbitrary(s)}]]
  <2> DEFINE h == [s \in SUBSET D |-> IF s = {} THEN 0 ELSE g[Arbitrary(s)] + f[s \ {Arbitrary(s)}]]
  <2>1. \A s \in SUBSET D : f[s] = h[s]
    BY <1>4
  <2>2. DOMAIN f = SUBSET D /\ f = [s \in SUBSET D |-> f[s]]
    OBVIOUS
  <2>3. DOMAIN h = SUBSET D /\ h = [s \in SUBSET D |-> h[s]]
    OBVIOUS
  <2> HIDE DEF h
  <2>4. f = h
    BY <2>1, <2>2, <2>3
  <2> QED BY <2>4 DEF h
<1> QED BY <1>5 DEF SumEquation

(* The sums over the subsets of a finite set are one function. *)
AllSums(f, g, D) ==
  SumEquation(f, g, D) /\ \A S \in SUBSET D : SumFunctionOnSet(g, S) = f[S]

LEMMA SumFold ==
  ASSUME NEW D, IsFiniteSet(D), NEW g, \A x \in D : g[x] \in Int
  PROVE  \E f \in [SUBSET D -> Int] : AllSums(f, g, D)
<1>1. PICK f \in [SUBSET D -> Int] : SumEquation(f, g, D)
  BY SumExists
<1>2. ASSUME NEW S \in SUBSET D PROVE SumFunctionOnSet(g, S) = f[S]
  <2> DEFINE h == CHOOSE f_1 : SumEquation(f_1, g, S)
             c == [s \in SUBSET S |-> Arbitrary(s)]
  <2>1. IsFiniteSet(S)
    BY FS_Subset
  <2>2. \E f_1 : SumEquation(f_1, g, S)
    BY <2>1, SumExists
  <2>3. SumEquation(h, g, S)
    BY <2>2
  <2>4. Takes(c, S)
    BY AnyIsTaken
  <2>5. ASSUME NEW s \in SUBSET S, s # {}
        PROVE  /\ h[s] = g[Arbitrary(s)] + h[s \ {Arbitrary(s)}]
               /\ f[s] = g[Arbitrary(s)] + f[s \ {Arbitrary(s)}]
    <3> HIDE DEF h
    <3> QED BY <1>1, <2>3, <2>5 DEF SumEquation
  <2>6. h[{}] = 0 /\ f[{}] = 0
    <3> HIDE DEF h
    <3> QED BY <1>1, <2>3 DEF SumEquation
  <2> HIDE DEF h
  <2>7. \A s \in SUBSET S : s # {} /\ h[s \ {c[s]}] = f[s \ {c[s]}] => h[s] = f[s]
    BY <2>5
  <2> HIDE DEF c
  <2>8. \A s \in SUBSET S : h[s] = f[s]
    <3>1. SameSteps(h, f, S, c)
      BY <2>6, <2>7 DEF SameSteps
    <3> QED BY <2>1, <2>4, <3>1, FoldUnique
  <2>9. SumFunctionOnSet(g, S) = h[S]
    BY SumIsChosen DEF h
  <2> QED BY <2>8, <2>9
<1> QED BY <1>1, <1>2 DEF AllSums

LEMMA SumFacts ==
  ASSUME NEW D, IsFiniteSet(D), NEW g, \A x \in D : g[x] \in Int
  PROVE  /\ SumFunctionOnSet(g, {}) = 0
         /\ \A S \in SUBSET D :
              /\ SumFunctionOnSet(g, S) \in Int
              /\ S # {} => SumFunctionOnSet(g, S)
                             = g[Arbitrary(S)] + SumFunctionOnSet(g, S \ {Arbitrary(S)})
<1>0. PICK f \in [SUBSET D -> Int] : AllSums(f, g, D)
  BY SumFold
<1>1. SumEquation(f, g, D) /\ \A S \in SUBSET D : SumFunctionOnSet(g, S) = f[S]
  BY <1>0 DEF AllSums
<1>2. f[{}] = 0 /\ \A S \in SUBSET D : S # {} => f[S] = g[Arbitrary(S)] + f[S \ {Arbitrary(S)}]
  BY <1>1 DEF SumEquation
<1>3. ASSUME NEW S \in SUBSET D, S # {}
      PROVE  SumFunctionOnSet(g, S) = g[Arbitrary(S)] + SumFunctionOnSet(g, S \ {Arbitrary(S)})
  <2>1. S \ {Arbitrary(S)} \in SUBSET D
    OBVIOUS
  <2> QED BY <1>1, <1>2, <1>3, <2>1
<1> QED BY <1>1, <1>2, <1>3

(* The order in which a sum is taken does not matter. *)
LEMMA SumTake ==
  ASSUME NEW D, IsFiniteSet(D), NEW g, \A x \in D : g[x] \in Int
  PROVE  \A S \in SUBSET D : \A x \in S :
           SumFunctionOnSet(g, S) = g[x] + SumFunctionOnSet(g, S \ {x})
<1> DEFINE Takeable(S, x) == SumFunctionOnSet(g, S) = g[x] + SumFunctionOnSet(g, S \ {x})
           U == {S \in SUBSET D : \E x \in S : ~ Takeable(S, x)}
<1> SUFFICES ASSUME U # {} PROVE FALSE
  OBVIOUS
<1>1. PICK S \in U : \A A \in U : A \subseteq S => A = S
  <2>1. U \in SUBSET (SUBSET D)
    OBVIOUS
  <2> HIDE DEF U
  <2> QED BY <2>1, SmallestSubset
<1>2. PICK x \in S : ~ Takeable(S, x)
  OBVIOUS
<1> DEFINE y == Arbitrary(S)
           R == (S \ {x}) \ {y}
<1>3. y \in S /\ S \in SUBSET D
  BY DEF Arbitrary
<1>4. Takeable(S, y)
  BY <1>3, SumFacts
<1>5. x # y
  BY <1>2, <1>4
<1>6. /\ S \ {x} \notin U /\ y \in S \ {x} /\ S \ {x} \in SUBSET D
      /\ S \ {y} \notin U /\ x \in S \ {y} /\ S \ {y} \in SUBSET D
      /\ (S \ {y}) \ {x} = R /\ R \in SUBSET D
  <2> HIDE DEF y, Takeable
  <2> QED BY <1>1, <1>2, <1>3, <1>5
<1>7. SumFunctionOnSet(g, S \ {x}) = g[y] + SumFunctionOnSet(g, R)
  BY <1>6
<1>8. SumFunctionOnSet(g, S \ {y}) = g[x] + SumFunctionOnSet(g, R)
  BY <1>6
<1>9. /\ g[x] \in Int /\ g[y] \in Int /\ SumFunctionOnSet(g, R) \in Int
      /\ SumFunctionOnSet(g, S) \in Int
  BY <1>3, <1>6, SumFacts
<1>10. SumFunctionOnSet(g, S) = g[y] + SumFunctionOnSet(g, S \ {y})
  BY <1>4
<1> HIDE DEF U, y, R
<1>11. SumFunctionOnSet(g, S) = g[x] + SumFunctionOnSet(g, S \ {x})
  BY <1>7, <1>8, <1>9, <1>10
<1> QED BY <1>2, <1>11

(* One element more. *)
LEMMA SumAdd ==
  ASSUME NEW D, IsFiniteSet(D), NEW g, \A x \in D : g[x] \in Int,
         NEW S \in SUBSET D, NEW x \in D, x \notin S
  PROVE  SumFunctionOnSet(g, S \cup {x}) = g[x] + SumFunctionOnSet(g, S)
<1>1. S \cup {x} \in SUBSET D /\ (S \cup {x}) \ {x} = S
  OBVIOUS
<1>2. SumFunctionOnSet(g, S \cup {x}) = g[x] + SumFunctionOnSet(g, (S \cup {x}) \ {x})
  BY <1>1, SumTake
<1> QED BY <1>1, <1>2

(* A sum depends on the values only. *)
LEMMA SumSame ==
  ASSUME NEW D, IsFiniteSet(D), NEW g, NEW h, \A x \in D : g[x] \in Int /\ h[x] = g[x]
  PROVE  SumFunctionOnSet(h, D) = SumFunctionOnSet(g, D)
<1> DEFINE T == {A \in SUBSET D : SumFunctionOnSet(h, A) = SumFunctionOnSet(g, A)}
<1>1. {} \in T
  BY SumFacts
<1>2. ASSUME NEW A \in SUBSET D, NEW x \in D, x \notin A, A \in T
      PROVE  A \cup {x} \in T
  <2>1. SumFunctionOnSet(h, A \cup {x}) = h[x] + SumFunctionOnSet(h, A)
    BY <1>2, SumAdd
  <2>2. SumFunctionOnSet(g, A \cup {x}) = g[x] + SumFunctionOnSet(g, A)
    BY <1>2, SumAdd
  <2>3. h[x] = g[x] /\ SumFunctionOnSet(h, A) = SumFunctionOnSet(g, A)
    BY <1>2
  <2> QED BY <2>1, <2>2, <2>3
<1>3. SUBSET D \subseteq T
  <2> HIDE DEF T
  <2> QED BY <1>1, <1>2, AllSubsets
<1> QED BY <1>3

LEMMA SumOfZeros ==
  ASSUME NEW D, IsFiniteSet(D), NEW g, \A x \in D : g[x] = 0
  PROVE  SumFunctionOnSet(g, D) = 0
<1> DEFINE T == {A \in SUBSET D : SumFunctionOnSet(g, A) = 0}
<1>1. {} \in T
  BY SumFacts
<1>2. ASSUME NEW A \in SUBSET D, NEW x \in D, x \notin A, A \in T
      PROVE  A \cup {x} \in T
  <2>1. SumFunctionOnSet(g, A \cup {x}) = g[x] + SumFunctionOnSet(g, A)
    BY <1>2, SumAdd
  <2> QED BY <1>2, <2>1
<1>3. SUBSET D \subseteq T
  <2> HIDE DEF T
  <2> QED BY <1>1, <1>2, AllSubsets
<1> QED BY <1>3

(* A value that grows by d makes the sum grow by d. *)
GrowsAt(h, g, D, k, d) ==
  /\ k \in D /\ d \in Int /\ h[k] = g[k] + d
  /\ \A x \in D : g[x] \in Int
  /\ \A x \in D \ {k} : h[x] = g[x]

LEMMA SumChange ==
  ASSUME NEW D, IsFiniteSet(D), NEW g, NEW h, NEW k, NEW d, GrowsAt(h, g, D, k, d)
  PROVE  SumFunctionOnSet(h, D) = SumFunctionOnSet(g, D) + d
<1> USE DEF GrowsAt
<1>1. \A x \in D : h[x] \in Int
  OBVIOUS
<1>2. SumFunctionOnSet(g, D) = g[k] + SumFunctionOnSet(g, D \ {k})
  BY SumTake
<1>3. SumFunctionOnSet(h, D) = h[k] + SumFunctionOnSet(h, D \ {k})
  BY <1>1, SumTake
<1>4. IsFiniteSet(D \ {k})
  BY FS_RemoveElement
<1>5. SumFunctionOnSet(h, D \ {k}) = SumFunctionOnSet(g, D \ {k})
  BY <1>4, SumSame
<1>6. SumFunctionOnSet(g, D \ {k}) \in Int
  BY SumFacts
<1> QED BY <1>2, <1>3, <1>5, <1>6

(* The sums of the parts of a set, each of whose elements is in one part, add   *)
(* up to the sum of the set.                                                   *)
LEMMA SumOfParts ==
  ASSUME NEW D, IsFiniteSet(D), NEW g, \A x \in D : g[x] \in Int,
         NEW I, IsFiniteSet(I), NEW P,
         \A x \in D : \E i \in I : x \in P[i] /\ \A j \in I : x \in P[j] => j = i
  PROVE  SumFunctionOnSet([i \in I |-> SumFunctionOnSet(g, P[i] \cap D)], I)
           = SumFunctionOnSet(g, D)
<1> DEFINE Parts(A) == [i \in I |-> SumFunctionOnSet(g, P[i] \cap A)]
           T == {A \in SUBSET D : SumFunctionOnSet(Parts(A), I) = SumFunctionOnSet(g, A)}
<1>0. SumFunctionOnSet(g, {}) = 0 /\ \A A \in SUBSET D : SumFunctionOnSet(g, A) \in Int
  BY SumFacts
<1>1. {} \in T
  <2>1. \A i \in I : P[i] \cap {} = {}
    OBVIOUS
  <2>2. \A i \in I : Parts({})[i] = 0
    BY <1>0, <2>1
  <2> HIDE DEF Parts
  <2>3. SumFunctionOnSet(Parts({}), I) = 0
    BY <2>2, SumOfZeros
  <2> QED BY <1>0, <2>3
<1>2. ASSUME NEW A \in SUBSET D, NEW x \in D, x \notin A, A \in T
      PROVE  A \cup {x} \in T
  <2>1. PICK k \in I : x \in P[k] /\ \A j \in I : x \in P[j] => j = k
    OBVIOUS
  <2>2. Parts(A \cup {x})[k] = Parts(A)[k] + g[x]
    <3>1. /\ P[k] \cap (A \cup {x}) = (P[k] \cap A) \cup {x}
          /\ P[k] \cap A \in SUBSET D /\ x \notin P[k] \cap A
      BY <1>2, <2>1
    <3>2. SumFunctionOnSet(g, (P[k] \cap A) \cup {x}) = g[x] + SumFunctionOnSet(g, P[k] \cap A)
      BY <3>1, SumAdd
    <3>3. SumFunctionOnSet(g, P[k] \cap A) \in Int /\ g[x] \in Int
      BY <1>0, <3>1
    <3>4. /\ Parts(A \cup {x})[k] = SumFunctionOnSet(g, P[k] \cap (A \cup {x}))
          /\ Parts(A)[k] = SumFunctionOnSet(g, P[k] \cap A)
      OBVIOUS
    <3> HIDE DEF Parts, T
    <3>5. Parts(A \cup {x})[k] = SumFunctionOnSet(g, (P[k] \cap A) \cup {x})
      BY <3>1, <3>4
    <3> QED BY <3>2, <3>3, <3>4, <3>5
  <2>3. \A i \in I \ {k} : Parts(A \cup {x})[i] = Parts(A)[i]
    <3>1. \A i \in I \ {k} : P[i] \cap (A \cup {x}) = P[i] \cap A
      BY <2>1
    <3> QED BY <3>1
  <2>4. \A i \in I : Parts(A)[i] \in Int
    <3>1. \A i \in I : P[i] \cap A \in SUBSET D
      OBVIOUS
    <3> QED BY <1>0, <3>1
  <2>5. SumFunctionOnSet(Parts(A), I) = SumFunctionOnSet(g, A)
    BY <1>2
  <2>6. SumFunctionOnSet(g, A \cup {x}) = g[x] + SumFunctionOnSet(g, A)
    BY <1>2, SumAdd
  <2>7. g[x] \in Int /\ SumFunctionOnSet(g, A) \in Int
    BY <1>0
  <2> DEFINE p == Parts(A)
             q == Parts(A \cup {x})
             d == g[x]
  <2> HIDE DEF Parts, T
  <2>8. SumFunctionOnSet(Parts(A \cup {x}), I) = SumFunctionOnSet(Parts(A), I) + g[x]
    <3>1. q[k] = p[k] + d
      BY <2>2
    <3>2. \A i \in I \ {k} : q[i] = p[i]
      BY <2>3
    <3>3. \A i \in I : p[i] \in Int
      BY <2>4
    <3>4. d \in Int
      BY <2>7
    <3> HIDE DEF p, q, d
    <3>5. SumFunctionOnSet(q, I) = SumFunctionOnSet(p, I) + d
      <4>1. GrowsAt(q, p, I, k, d)
        BY <3>1, <3>2, <3>3, <3>4 DEF GrowsAt
      <4> QED BY <4>1, SumChange
    <3> QED BY <3>5 DEF p, q, d
  <2>9. SumFunctionOnSet(Parts(A \cup {x}), I) = SumFunctionOnSet(g, A \cup {x})
    BY <2>5, <2>6, <2>7, <2>8
  <2> QED BY <2>9 DEF T
<1>3. SUBSET D \subseteq T
  <2> HIDE DEF T
  <2> QED BY <1>1, <1>2, AllSubsets
<1>4. D \in T
  BY <1>3
<1> QED BY <1>4

(* The sums of two sets without a common element. *)
LEMMA SumOfTwo ==
  ASSUME NEW D, IsFiniteSet(D), NEW g, \A x \in D : g[x] \in Int,
         NEW A \in SUBSET D, NEW B \in SUBSET D, A \cap B = {}
  PROVE  SumFunctionOnSet(g, A \cup B) = SumFunctionOnSet(g, A) + SumFunctionOnSet(g, B)
<1> DEFINE T == {C \in SUBSET B : SumFunctionOnSet(g, A \cup C)
                                    = SumFunctionOnSet(g, A) + SumFunctionOnSet(g, C)}
<1>0. SumFunctionOnSet(g, {}) = 0 /\ \A C \in SUBSET D : SumFunctionOnSet(g, C) \in Int
  BY SumFacts
<1>1. {} \in T
  <2>1. A \cup {} = A /\ SumFunctionOnSet(g, A) \in Int
    BY <1>0
  <2> QED BY <1>0, <2>1
<1>2. ASSUME NEW C \in SUBSET B, NEW x \in B, x \notin C, C \in T
      PROVE  C \cup {x} \in T
  <2>1. /\ A \cup C \in SUBSET D /\ C \in SUBSET D /\ x \in D /\ x \notin A \cup C
        /\ A \cup (C \cup {x}) = (A \cup C) \cup {x} /\ C \cup {x} \in SUBSET B
    BY <1>2
  <2>2. SumFunctionOnSet(g, (A \cup C) \cup {x}) = g[x] + SumFunctionOnSet(g, A \cup C)
    BY <2>1, SumAdd
  <2>3. SumFunctionOnSet(g, C \cup {x}) = g[x] + SumFunctionOnSet(g, C)
    BY <1>2, <2>1, SumAdd
  <2>4. SumFunctionOnSet(g, A \cup C) = SumFunctionOnSet(g, A) + SumFunctionOnSet(g, C)
    BY <1>2
  <2>5. /\ g[x] \in Int /\ SumFunctionOnSet(g, A) \in Int /\ SumFunctionOnSet(g, C) \in Int
    BY <1>0, <2>1
  <2> HIDE DEF T
  <2>6. SumFunctionOnSet(g, A \cup (C \cup {x}))
          = SumFunctionOnSet(g, A) + SumFunctionOnSet(g, C \cup {x})
    <3>1. SumFunctionOnSet(g, A \cup (C \cup {x})) = g[x] + SumFunctionOnSet(g, A \cup C)
      BY <2>1, <2>2
    <3> QED BY <2>3, <2>4, <2>5, <3>1
  <2> QED BY <2>1, <2>6 DEF T
<1>3. SUBSET B \subseteq T
  <2>1. IsFiniteSet(B)
    BY FS_Subset
  <2> HIDE DEF T
  <2>2. \A C \in SUBSET B, x \in B : x \notin C /\ C \in T => C \cup {x} \in T
    BY <1>2
  <2>3. {} \in T /\ \A C \in SUBSET B, x \in B : x \notin C /\ C \in T => C \cup {x} \in T
    BY <1>1, <2>2
  <2> QED BY ONLY <2>1, <2>3, AllSubsets
<1>4. B \in T
  BY <1>3
<1> QED BY <1>4

-----------------------------------------------------------------------------
(* A set of integers with a bound has a largest element. *)
LEMMA HasMax ==
  ASSUME NEW S \in SUBSET Int, S # {}, NEW b \in Int, \A x \in S : x <= b
  PROVE  Max(S) \in S /\ \A y \in S : Max(S) >= y
<1> DEFINE T == {b - x : x \in S}
<1>1. \A x \in S : b - x \in Nat
  OBVIOUS
<1>2. T \in SUBSET Nat /\ T # {}
  BY <1>1
<1>3. PICK d \in T : \A e \in T : ~ (<<e, d>> \in OpToRel(<, Nat))
  BY <1>2, WFMin, NatLessThanWellFounded
<1>4. \A e \in T : d <= e
  <2> SUFFICES ASSUME NEW e \in T PROVE d <= e
    OBVIOUS
  <2>1. d \in Nat /\ e \in Nat
    BY <1>2
  <2>2. ~ (e < d)
    BY <1>3, <2>1 DEF OpToRel
  <2> QED BY <2>1, <2>2
<1>5. PICK x \in S : d = b - x
  BY DEF T
<1>6. \A y \in S : x >= y
  <2> SUFFICES ASSUME NEW y \in S PROVE x >= y
    OBVIOUS
  <2>1. b - y \in T
    OBVIOUS
  <2>2. x \in Int /\ y \in Int /\ b - x <= b - y
    BY <1>4, <1>5, <2>1
  <2> QED BY <2>2
<1> QED BY <1>5, <1>6 DEF Max

(* Of the first n numbers the last is the largest. *)
LEMMA MaxOfPrefix ==
  ASSUME NEW n \in Nat, n # 0
  PROVE  Max(1 .. n) = n
<1> DEFINE S == 1 .. n
<1>1. S \in SUBSET Int /\ n \in S /\ \A x \in S : x <= n
  OBVIOUS
<1> HIDE DEF S
<1>3. Max(S) \in S /\ \A y \in S : Max(S) >= y
  BY <1>1, HasMax
<1>4. Max(S) >= n /\ Max(S) <= n /\ Max(S) \in Int
  BY <1>1, <1>3
<1> QED BY <1>4 DEF S
=============================================================================
