----------------------------- MODULE SumTheorems -----------------------------
(***************************************************************************)
(* Sums over finite sets and sequences (SumFunctionOnSet and SumFunction of *)
(* Functions): the counters that workers share, the intervals of a run and  *)
(* the bytes charged to processes and files add up by these facts.          *)
(*                                                                          *)
(* A sum is a recursive function over the subsets of its index set. That    *)
(* function exists, and equals its definition, because every non-empty set  *)
(* of subsets of a finite set has a minimal one; the same fact, in the form *)
(* of an induction over a set of subsets, gives the other lemmas. Last come *)
(* the quotients and remainders of sectors and blocks.                      *)
(***************************************************************************)
EXTENDS Integers, Sequences, FiniteSets, Functions, FiniteSetTheorems,
        WellFoundedInduction, TLAPS

(***************************************************************************)
(* Induction.                                                               *)
(***************************************************************************)
\* A non-empty set of numbers has a least one.
LEMMA LeastNatural ==
  ASSUME NEW T \in SUBSET Nat, T # {}
  PROVE  \E n \in T : \A m \in T : n <= m
<1>1. PICK n \in T : \A m \in T : <<m, n>> \notin OpToRel(<, Nat)
  BY NatLessThanWellFounded, WFMin, Zenon
<1>2. \A m \in T : ~ (m < n)
  BY <1>1, Zenon DEF OpToRel
<1> QED  BY <1>2

\* A non-empty set of subsets of a finite set has a minimal one.
LEMMA LeastSubset ==
  ASSUME NEW S, IsFiniteSet(S), NEW B \in SUBSET SUBSET S, B # {}
  PROVE  \E T \in B : \A U \in B : U \subseteq T => U = T
<1>1. B \subseteq FiniteSubsetsOf(S)
  BY FS_FiniteSubsetsOfFinite
<1>2. PICK T \in B : \A U \in B : <<U, T>> \notin StrictSubsetOrdering(S)
  BY <1>1, FS_StrictSubsetOrderingWellFounded, WFMin, Zenon
<1> QED  BY <1>2 DEF StrictSubsetOrdering

\* What holds of a subset when it holds of the smaller ones holds of a finite set.
LEMMA SubsetInduction ==
  ASSUME NEW S, IsFiniteSet(S), NEW F,
         \A T \in SUBSET S : (\A U \in SUBSET T : U # T => U \in F) => T \in F
  PROVE  S \in F
<1> SUFFICES ASSUME S \notin F PROVE FALSE
  OBVIOUS
<1> DEFINE B == {T \in SUBSET S : T \notin F}
<1>1. B \in SUBSET SUBSET S /\ B # {}
  OBVIOUS
<1>2. PICK T \in B : \A U \in B : U \subseteq T => U = T
  <2> HIDE DEF B
  <2> QED  BY <1>1, LeastSubset
<1> QED  BY <1>2

\* What holds of the empty set, and still holds with one element more, holds of a
\* finite set.
LEMMA ElementInduction ==
  ASSUME NEW S, IsFiniteSet(S), NEW F, {} \in F,
         \A T \in SUBSET S, x \in S : T \in F /\ x \notin T => T \cup {x} \in F
  PROVE  S \in F
<1>1. ASSUME NEW T \in SUBSET S, \A U \in SUBSET T : U # T => U \in F
      PROVE  T \in F
  <2> SUFFICES ASSUME NEW x \in T PROVE T \in F
    OBVIOUS
  <2>1. T \ {x} \in F /\ T = (T \ {x}) \cup {x}
    BY <1>1
  <2> QED  BY <2>1
<1> QED  BY <1>1, SubsetInduction

(***************************************************************************)
(* The recursive function.                                                  *)
(***************************************************************************)
\* The element a sum takes next, and the function that the library chooses.
Anything(s) == CHOOSE x \in s : TRUE

SumsUp(g, f, S) ==
  g = [s \in SUBSET S |-> IF s = {} THEN 0 ELSE f[Anything(s)] + g[s \ {Anything(s)}]]

Sums(f, S) == CHOOSE g : SumsUp(g, f, S)

\* The library's definition is this one.
LEMMA SumIsChosen ==
  ASSUME NEW f, NEW S
  PROVE  SumFunctionOnSet(f, S) = Sums(f, S)[S]
  BY Zenon DEF SumFunctionOnSet, FoldFunctionOnSet, MapThenFoldSet, Sums, SumsUp, Anything

\* Two such functions have the same values where both have one.
LEMMA SumsAgree ==
  ASSUME NEW S, IsFiniteSet(S), NEW T, NEW f, NEW g, NEW h,
         SumsUp(g, f, S), SumsUp(h, f, T), NEW u \in SUBSET S, u \subseteq T
  PROVE  g[u] = h[u]
<1> DEFINE F == {s \in SUBSET S : s \subseteq T => g[s] = h[s]}
<1>1. ASSUME NEW s \in SUBSET u, \A r \in SUBSET s : r # s => r \in F
      PROVE  s \in F
  <2>1. g[s] = (IF s = {} THEN 0 ELSE f[Anything(s)] + g[s \ {Anything(s)}])
    BY DEF SumsUp
  <2>2. h[s] = (IF s = {} THEN 0 ELSE f[Anything(s)] + h[s \ {Anything(s)}])
    BY DEF SumsUp
  <2>3. s # {} => g[s \ {Anything(s)}] = h[s \ {Anything(s)}]
    BY <1>1 DEF Anything
  <2> QED  BY <2>1, <2>2, <2>3
<1>2. IsFiniteSet(u)
  BY FS_Subset
<1>3. u \in F
  <2> HIDE DEF F
  <2> QED  BY <1>1, <1>2, SubsetInduction
<1> QED  BY <1>3

\* There is one for every finite set.
LEMMA SumsExist ==
  ASSUME NEW S, IsFiniteSet(S), NEW f
  PROVE  SumsUp(Sums(f, S), f, S)
<1> DEFINE F == {T \in SUBSET S : SumsUp(Sums(f, T), f, T)}
<1>1. ASSUME NEW T \in SUBSET S, \A U \in SUBSET T : U # T => U \in F
      PROVE  T \in F
  <2> DEFINE less(s) == s \ {Anything(s)}
             V(s)    == Sums(f, s)[s]
             h       == [s \in SUBSET T |-> IF s = {} THEN 0 ELSE f[Anything(s)] + V(less(s))]
  <2>1. ASSUME NEW s \in SUBSET T, s # {}
        PROVE  less(s) \in SUBSET T /\ less(s) # T /\ less(s) # s /\ less(s) \subseteq s
    BY <2>1 DEF Anything
  <2>2. ASSUME NEW s \in SUBSET T, s # T
        PROVE  V(s) = IF s = {} THEN 0 ELSE f[Anything(s)] + V(less(s))
    <3>1. SumsUp(Sums(f, s), f, s)
      BY <1>1, <2>2
    <3>2. V(s) = IF s = {} THEN 0 ELSE f[Anything(s)] + Sums(f, s)[less(s)]
      BY <3>1 DEF SumsUp
    <3>3. ASSUME s # {} PROVE Sums(f, s)[less(s)] = V(less(s))
      <4>1. SumsUp(Sums(f, less(s)), f, less(s))
        BY <1>1, <2>1, <3>3
      <4>2. less(s) \in SUBSET s /\ less(s) \subseteq less(s) /\ IsFiniteSet(s)
        BY <2>1, <3>3, FS_Subset
      <4> HIDE DEF less
      <4> QED  BY <3>1, <4>1, <4>2, SumsAgree
    <3> QED  BY <3>2, <3>3
  <2>3. ASSUME NEW s \in SUBSET T
        PROVE  s # {} => h[less(s)] = V(less(s))
    BY <2>1, <2>2
  <2>4. SumsUp(h, f, T)
    BY <2>3 DEF SumsUp
  <2> QED  BY <2>4 DEF Sums
<1>2. S \in F
  <2> HIDE DEF F
  <2> QED  BY <1>1, SubsetInduction
<1> QED  BY <1>2

\* A sum is what its definition says.
LEMMA SumUnfolds ==
  ASSUME NEW S, IsFiniteSet(S), NEW f
  PROVE  SumFunctionOnSet(f, S) =
           IF S = {} THEN 0 ELSE f[Anything(S)] + SumFunctionOnSet(f, S \ {Anything(S)})
<1>1. \A T \in SUBSET S : SumsUp(Sums(f, T), f, T)
  BY SumsExist, FS_Subset
<1>2. Sums(f, S)[S] = IF S = {} THEN 0 ELSE f[Anything(S)] + Sums(f, S)[S \ {Anything(S)}]
  BY <1>1 DEF SumsUp
<1>3. Sums(f, S)[S \ {Anything(S)}] = Sums(f, S \ {Anything(S)})[S \ {Anything(S)}]
  BY <1>1, SumsAgree
<1> QED  BY <1>2, <1>3, SumIsChosen

(***************************************************************************)
(* Sums over sets.                                                          *)
(***************************************************************************)
\* The sum of nothing.
LEMMA SumEmpty ==
  ASSUME NEW f
  PROVE  SumFunctionOnSet(f, {}) = 0
  BY SumUnfolds, FS_EmptySet

\* Integers add up to an integer.
LEMMA SumType ==
  ASSUME NEW S, IsFiniteSet(S), NEW f, \A x \in S : f[x] \in Int
  PROVE  SumFunctionOnSet(f, S) \in Int
<1> DEFINE F == {T \in SUBSET S : SumFunctionOnSet(f, T) \in Int}
<1>1. ASSUME NEW T \in SUBSET S, \A U \in SUBSET T : U # T => U \in F
      PROVE  T \in F
  <2>1. SumFunctionOnSet(f, T) =
          IF T = {} THEN 0 ELSE f[Anything(T)] + SumFunctionOnSet(f, T \ {Anything(T)})
    BY SumUnfolds, FS_Subset
  <2>2. T # {} => f[Anything(T)] \in Int /\ SumFunctionOnSet(f, T \ {Anything(T)}) \in Int
    BY <1>1 DEF Anything
  <2> QED  BY <2>1, <2>2
<1>2. S \in F
  <2> HIDE DEF F
  <2> QED  BY <1>1, SubsetInduction
<1> QED  BY <1>2

\* Anything element may be taken first.
LEMMA SumTake ==
  ASSUME NEW S, IsFiniteSet(S), NEW f, \A y \in S : f[y] \in Int, NEW x \in S
  PROVE  SumFunctionOnSet(f, S) = f[x] + SumFunctionOnSet(f, S \ {x})
<1> DEFINE V(T) == SumFunctionOnSet(f, T)
           F == {T \in SUBSET S : \A y \in T : V(T) = f[y] + V(T \ {y})}
<1>1. ASSUME NEW T \in SUBSET S, \A U \in SUBSET T : U # T => U \in F, NEW y \in T
      PROVE  V(T) = f[y] + V(T \ {y})
  <2> DEFINE a == Anything(T)
  <2>0. a \in T
    BY DEF Anything
  <2>1. V(T) = f[a] + V(T \ {a})
    BY SumUnfolds, FS_Subset
  <2>2. CASE y = a
    BY <2>1, <2>2
  <2>3. CASE y # a
    <3>1. V(T \ {a}) = f[y] + V(T \ {a, y})
      <4>1. (T \ {a}) \ {y} = T \ {a, y}
        OBVIOUS
      <4> QED  BY <1>1, <2>0, <2>3, <4>1
    <3>2. V(T \ {y}) = f[a] + V(T \ {a, y})
      <4>1. (T \ {y}) \ {a} = T \ {a, y}
        OBVIOUS
      <4> QED  BY <1>1, <2>0, <2>3, <4>1
    <3>3. f[a] \in Int /\ f[y] \in Int
      BY <2>0
    <3>4. V(T \ {a, y}) \in Int
      BY FS_Subset, SumType
    <3> HIDE DEF a
    <3> QED  BY <2>1, <3>1, <3>2, <3>3, <3>4
  <2> QED  BY <2>2, <2>3
<1>2. S \in F
  <2>1. ASSUME NEW T \in SUBSET S, \A U \in SUBSET T : U # T => U \in F
        PROVE  T \in F
    BY <1>1, <2>1
  <2> HIDE DEF F
  <2> QED  BY <2>1, SubsetInduction
<1> QED  BY <1>2

\* One element more.
LEMMA SumAdd ==
  ASSUME NEW S, IsFiniteSet(S), NEW x, x \notin S, NEW f, \A y \in S \cup {x} : f[y] \in Int
  PROVE  SumFunctionOnSet(f, S \cup {x}) = f[x] + SumFunctionOnSet(f, S)
<1>1. IsFiniteSet(S \cup {x}) /\ x \in S \cup {x} /\ (S \cup {x}) \ {x} = S
  BY FS_AddElement
<1> QED  BY <1>1, SumTake

\* Only the values on the set count.
LEMMA SumSame ==
  ASSUME NEW S, IsFiniteSet(S), NEW f, NEW g, \A x \in S : f[x] = g[x] /\ g[x] \in Int
  PROVE  SumFunctionOnSet(f, S) = SumFunctionOnSet(g, S)
<1> DEFINE F == {T \in SUBSET S : SumFunctionOnSet(f, T) = SumFunctionOnSet(g, T)}
<1>1. {} \in F
  BY SumEmpty
<1>2. ASSUME NEW T \in SUBSET S, NEW x \in S, T \in F, x \notin T
      PROVE  T \cup {x} \in F
  <2>1. IsFiniteSet(T)
    BY FS_Subset
  <2>2. SumFunctionOnSet(f, T \cup {x}) = f[x] + SumFunctionOnSet(f, T)
    <3>1. \A y \in T \cup {x} : f[y] \in Int
      OBVIOUS
    <3> QED  BY <1>2, <2>1, <3>1, SumAdd
  <2>3. SumFunctionOnSet(g, T \cup {x}) = g[x] + SumFunctionOnSet(g, T)
    <3>1. \A y \in T \cup {x} : g[y] \in Int
      OBVIOUS
    <3> QED  BY <1>2, <2>1, <3>1, SumAdd
  <2> QED  BY <1>2, <2>2, <2>3
<1>3. S \in F
  <2> HIDE DEF F
  <2> QED  BY <1>1, <1>2, ElementInduction
<1> QED  BY <1>3

\* Larger values have a larger sum.
LEMMA SumMonotone ==
  ASSUME NEW S, IsFiniteSet(S), NEW f, NEW g,
         \A x \in S : f[x] \in Int /\ g[x] \in Int /\ f[x] <= g[x]
  PROVE  SumFunctionOnSet(f, S) <= SumFunctionOnSet(g, S)
<1> DEFINE F == {T \in SUBSET S : SumFunctionOnSet(f, T) <= SumFunctionOnSet(g, T)}
<1>1. {} \in F
  BY SumEmpty
<1>2. ASSUME NEW T \in SUBSET S, NEW x \in S, T \in F, x \notin T
      PROVE  T \cup {x} \in F
  <2>1. IsFiniteSet(T)
    BY FS_Subset
  <2>2. SumFunctionOnSet(f, T) \in Int /\ SumFunctionOnSet(g, T) \in Int
    BY <2>1, SumType
  <2>3. SumFunctionOnSet(f, T \cup {x}) = f[x] + SumFunctionOnSet(f, T)
    BY <1>2, <2>1, SumAdd
  <2>4. SumFunctionOnSet(g, T \cup {x}) = g[x] + SumFunctionOnSet(g, T)
    BY <1>2, <2>1, SumAdd
  <2> QED  BY <1>2, <2>2, <2>3, <2>4
<1>3. S \in F
  <2> HIDE DEF F
  <2> QED  BY <1>1, <1>2, ElementInduction
<1> QED  BY <1>3

\* The sum of the sums is the sum of both.
LEMMA SumPlus ==
  ASSUME NEW S, IsFiniteSet(S), NEW f, NEW g, NEW h,
         \A x \in S : f[x] \in Int /\ g[x] \in Int /\ h[x] = f[x] + g[x]
  PROVE  SumFunctionOnSet(h, S) = SumFunctionOnSet(f, S) + SumFunctionOnSet(g, S)
<1> DEFINE F == {T \in SUBSET S : SumFunctionOnSet(h, T) =
                                    SumFunctionOnSet(f, T) + SumFunctionOnSet(g, T)}
<1>1. {} \in F
  BY SumEmpty
<1>2. ASSUME NEW T \in SUBSET S, NEW x \in S, T \in F, x \notin T
      PROVE  T \cup {x} \in F
  <2>1. IsFiniteSet(T)
    BY FS_Subset
  <2>2. SumFunctionOnSet(f, T) \in Int /\ SumFunctionOnSet(g, T) \in Int
    BY <2>1, SumType
  <2>3. SumFunctionOnSet(f, T \cup {x}) = f[x] + SumFunctionOnSet(f, T)
    BY <1>2, <2>1, SumAdd
  <2>4. SumFunctionOnSet(g, T \cup {x}) = g[x] + SumFunctionOnSet(g, T)
    BY <1>2, <2>1, SumAdd
  <2>5. \A y \in T \cup {x} : h[y] \in Int
    OBVIOUS
  <2>6. SumFunctionOnSet(h, T \cup {x}) = h[x] + SumFunctionOnSet(h, T)
    BY <1>2, <2>1, <2>5, SumAdd
  <2> QED  BY <1>2, <2>2, <2>3, <2>4, <2>6
<1>3. S \in F
  <2> HIDE DEF F
  <2> QED  BY <1>1, <1>2, ElementInduction
<1> QED  BY <1>3

\* Elements without a value add nothing.
LEMMA SumZero ==
  ASSUME NEW S, IsFiniteSet(S), NEW f, \A x \in S : f[x] = 0
  PROVE  SumFunctionOnSet(f, S) = 0
<1> DEFINE F == {T \in SUBSET S : SumFunctionOnSet(f, T) = 0}
<1>1. {} \in F
  BY SumEmpty
<1>2. ASSUME NEW T \in SUBSET S, NEW x \in S, T \in F, x \notin T
      PROVE  T \cup {x} \in F
  <2>1. IsFiniteSet(T) /\ \A y \in T \cup {x} : f[y] \in Int
    BY FS_Subset
  <2>2. SumFunctionOnSet(f, T \cup {x}) = f[x] + SumFunctionOnSet(f, T)
    BY <1>2, <2>1, SumAdd
  <2> QED  BY <1>2, <2>2
<1>3. S \in F
  <2> HIDE DEF F
  <2> QED  BY <1>1, <1>2, ElementInduction
<1> QED  BY <1>3

\* A sum of natural numbers is one, and no part of it is more than the whole.
LEMMA SumNatural ==
  ASSUME NEW S, IsFiniteSet(S), NEW f, \A x \in S : f[x] \in Nat
  PROVE  /\ SumFunctionOnSet(f, S) \in Nat
         /\ \A x \in S : f[x] <= SumFunctionOnSet(f, S)
<1>1. ASSUME NEW T \in SUBSET S PROVE SumFunctionOnSet(f, T) \in Nat
  <2> DEFINE z == [x \in T |-> 0]
  <2>1. IsFiniteSet(T)
    BY FS_Subset
  <2>2. SumFunctionOnSet(f, T) \in Int /\ SumFunctionOnSet(z, T) = 0
    BY <2>1, SumType, SumZero
  <2>3. \A x \in T : z[x] \in Int /\ f[x] \in Int /\ z[x] <= f[x]
    OBVIOUS
  <2>4. SumFunctionOnSet(z, T) <= SumFunctionOnSet(f, T)
    <3> HIDE DEF z
    <3> QED  BY <2>1, <2>3, SumMonotone
  <2> QED  BY <2>2, <2>4
<1>2. ASSUME NEW x \in S PROVE f[x] <= SumFunctionOnSet(f, S)
  <2>1. SumFunctionOnSet(f, S) = f[x] + SumFunctionOnSet(f, S \ {x})
    BY SumTake
  <2>2. SumFunctionOnSet(f, S \ {x}) \in Nat
    BY <1>1
  <2> QED  BY <2>1, <2>2
<1> QED  BY <1>1, <1>2

\* A part of a sum of natural numbers is not more than the whole.
LEMMA SumPart ==
  ASSUME NEW S, IsFiniteSet(S), NEW P \in SUBSET S, NEW f, \A x \in S : f[x] \in Nat
  PROVE  SumFunctionOnSet(f, P) <= SumFunctionOnSet(f, S)
<1> DEFINE F == {T \in SUBSET S : SumFunctionOnSet(f, T \cap P) <= SumFunctionOnSet(f, T)}
<1>1. {} \in F
  BY SumEmpty
<1>2. ASSUME NEW T \in SUBSET S, NEW x \in S, T \in F, x \notin T
      PROVE  T \cup {x} \in F
  <2>1. /\ IsFiniteSet(T) /\ IsFiniteSet(T \cap P)
        /\ \A y \in T \cup {x} : f[y] \in Int
        /\ \A y \in (T \cap P) \cup {x} : f[y] \in Int
    BY FS_Subset
  <2>2. SumFunctionOnSet(f, T) \in Int /\ SumFunctionOnSet(f, T \cap P) \in Int
    BY <2>1, SumType
  <2>3. SumFunctionOnSet(f, T \cup {x}) = f[x] + SumFunctionOnSet(f, T)
    BY <1>2, <2>1, SumAdd
  <2>4. CASE x \in P
    <3>1. (T \cup {x}) \cap P = (T \cap P) \cup {x} /\ x \notin T \cap P
      BY <1>2, <2>4
    <3>2. SumFunctionOnSet(f, (T \cap P) \cup {x}) = f[x] + SumFunctionOnSet(f, T \cap P)
      BY <1>2, <2>1, <3>1, SumAdd
    <3> QED  BY <1>2, <2>1, <2>2, <2>3, <3>1, <3>2
  <2>5. CASE x \notin P
    <3>1. (T \cup {x}) \cap P = T \cap P
      BY <2>5
    <3>2. SumFunctionOnSet(f, T \cap P) <= SumFunctionOnSet(f, T \cup {x})
      <4>1. f[x] \in Nat
        OBVIOUS
      <4> QED  BY <1>2, <2>2, <2>3, <4>1
    <3> QED  BY <1>2, <3>1, <3>2
  <2> QED  BY <2>4, <2>5
<1>3. S \in F
  <2> HIDE DEF F
  <2> QED  BY <1>1, <1>2, ElementInduction
<1>4. S \cap P = P
  OBVIOUS
<1> QED  BY <1>3, <1>4

\* The sum of one value on a part of the set.
LEMMA SumConstant ==
  ASSUME NEW S, IsFiniteSet(S), NEW P \in SUBSET S, NEW c \in Nat, NEW f,
         \A x \in S : f[x] = IF x \in P THEN c ELSE 0
  PROVE  SumFunctionOnSet(f, S) = c * Cardinality(P)
<1> DEFINE F == {T \in SUBSET S : SumFunctionOnSet(f, T) = c * Cardinality(T \cap P)}
<1>1. {} \in F
  BY SumEmpty, FS_EmptySet
<1>2. ASSUME NEW T \in SUBSET S, NEW x \in S, T \in F, x \notin T
      PROVE  T \cup {x} \in F
  <2>1. IsFiniteSet(T) /\ IsFiniteSet(T \cap P) /\ \A y \in T \cup {x} : f[y] \in Int
    BY FS_Subset
  <2>2. SumFunctionOnSet(f, T \cup {x}) = f[x] + SumFunctionOnSet(f, T)
    BY <1>2, <2>1, SumAdd
  <2>3. Cardinality(T \cap P) \in Nat
    BY <2>1, FS_CardinalityType
  <2>4. CASE x \in P
    <3>1. (T \cup {x}) \cap P = (T \cap P) \cup {x} /\ x \notin T \cap P
      BY <1>2, <2>4
    <3>2. Cardinality((T \cup {x}) \cap P) = Cardinality(T \cap P) + 1
      BY <2>1, <3>1, FS_AddElement
    <3>3. c * (Cardinality(T \cap P) + 1) = c * Cardinality(T \cap P) + c
      BY <2>3
    <3> QED  BY <1>2, <2>2, <2>3, <2>4, <3>2, <3>3
  <2>5. CASE x \notin P
    <3>1. (T \cup {x}) \cap P = T \cap P
      BY <2>5
    <3>2. c * Cardinality(T \cap P) \in Int
      BY <2>3
    <3>3. SumFunctionOnSet(f, T \cup {x}) = SumFunctionOnSet(f, T)
      BY <1>2, <2>2, <2>5, <3>2
    <3> QED  BY <1>2, <3>1, <3>3
  <2> QED  BY <2>4, <2>5
<1>3. S \in F
  <2> HIDE DEF F
  <2> QED  BY <1>1, <1>2, ElementInduction
<1>4. S \cap P = P
  OBVIOUS
<1> QED  BY <1>3, <1>4

\* A table adds up to the same by rows and by columns.
LEMMA SumByRowsAndColumns ==
  ASSUME NEW R, IsFiniteSet(R), NEW C, IsFiniteSet(C), NEW m \in [R \X C -> Int]
  PROVE  SumFunctionOnSet([y \in C |-> SumFunctionOnSet([x \in R |-> m[<<x, y>>]], R)], C) =
         SumFunctionOnSet([x \in R |-> SumFunctionOnSet([y \in C |-> m[<<x, y>>]], C)], R)
<1> DEFINE across(x) == [y \in C |-> m[<<x, y>>]]
           down(y)   == [x \in R |-> m[<<x, y>>]]
           row       == [x \in R |-> SumFunctionOnSet(across(x), C)]
           column(K) == [y \in C |-> SumFunctionOnSet(down(y), K)]
           F == {K \in SUBSET R : SumFunctionOnSet(column(K), C) = SumFunctionOnSet(row, K)}
<1>1. \A x \in R, y \in C : across(x)[y] \in Int /\ down(y)[x] = across(x)[y]
  OBVIOUS
<1>2. \A x \in R : row[x] = SumFunctionOnSet(across(x), C) /\ row[x] \in Int
  <2> SUFFICES ASSUME NEW x \in R PROVE SumFunctionOnSet(across(x), C) \in Int
    OBVIOUS
  <2> HIDE DEF across
  <2> QED  BY <1>1, SumType
<1>3. ASSUME NEW K \in SUBSET R, NEW y \in C
      PROVE  column(K)[y] = SumFunctionOnSet(down(y), K) /\ column(K)[y] \in Int
  <2>1. IsFiniteSet(K) /\ \A x \in K : down(y)[x] \in Int
    BY FS_Subset
  <2>2. SumFunctionOnSet(down(y), K) \in Int
    <3> HIDE DEF down
    <3> QED  BY <2>1, SumType
  <2> QED  BY <2>2
<1>4. {} \in F
  <2>1. \A y \in C : column({})[y] = 0
    BY SumEmpty
  <2>2. SumFunctionOnSet(column({}), C) = 0
    <3> HIDE DEF column
    <3> QED  BY <2>1, SumZero
  <2> QED  BY <2>2, SumEmpty
<1>5. ASSUME NEW K \in SUBSET R, NEW x \in R, K \in F, x \notin K
      PROVE  K \cup {x} \in F
  <2>1. IsFiniteSet(K) /\ K \cup {x} \in SUBSET R
    BY FS_Subset
  <2>2. ASSUME NEW y \in C
        PROVE  column(K \cup {x})[y] = across(x)[y] + column(K)[y]
    <3>1. \A z \in K \cup {x} : down(y)[z] \in Int
      BY <1>1
    <3>2. SumFunctionOnSet(down(y), K \cup {x}) = down(y)[x] + SumFunctionOnSet(down(y), K)
      <4> HIDE DEF down
      <4> QED  BY <1>5, <2>1, <3>1, SumAdd
    <3> QED  BY <1>1, <1>3, <2>1, <3>2
  <2>3. SumFunctionOnSet(column(K \cup {x}), C) =
          SumFunctionOnSet(across(x), C) + SumFunctionOnSet(column(K), C)
    <3>1. \A y \in C : /\ across(x)[y] \in Int /\ column(K)[y] \in Int
                       /\ column(K \cup {x})[y] = across(x)[y] + column(K)[y]
      BY <1>1, <1>3, <2>2
    <3> HIDE DEF across, column, down
    <3> QED  BY <3>1, SumPlus
  <2>4. SumFunctionOnSet(row, K \cup {x}) = row[x] + SumFunctionOnSet(row, K)
    <3> HIDE DEF row
    <3> QED  BY <1>2, <1>5, <2>1, SumAdd
  <2> QED
    <3> HIDE DEF across, column, row
    <3> QED  BY <1>2, <1>5, <2>1, <2>3, <2>4
<1>6. R \in F
  <2> HIDE DEF F
  <2> QED  BY <1>4, <1>5, ElementInduction
<1> QED  BY <1>6

\* One value that changes.
LEMMA SumUpdate ==
  ASSUME NEW S, IsFiniteSet(S), NEW f \in [S -> Int], NEW g \in [S -> Int], NEW x \in S,
         \A y \in S \ {x} : g[y] = f[y]
  PROVE  SumFunction(g) = SumFunction(f) + (g[x] - f[x])
<1>1. IsFiniteSet(S \ {x}) /\ SumFunctionOnSet(f, S \ {x}) \in Int
  BY FS_Subset, SumType
<1>2. SumFunctionOnSet(g, S) = g[x] + SumFunctionOnSet(g, S \ {x})
  BY SumTake
<1>3. SumFunctionOnSet(f, S) = f[x] + SumFunctionOnSet(f, S \ {x})
  BY SumTake
<1>4. SumFunctionOnSet(g, S \ {x}) = SumFunctionOnSet(f, S \ {x})
  BY <1>1, SumSame
<1>5. SumFunction(g) = SumFunctionOnSet(g, S) /\ SumFunction(f) = SumFunctionOnSet(f, S)
  BY Zenon DEF SumFunction
<1> QED  BY <1>1, <1>2, <1>3, <1>4, <1>5

(***************************************************************************)
(* Sums over sequences.                                                     *)
(***************************************************************************)
\* The sum of a sequence of integers is an integer, that of natural numbers one.
LEMMA SequenceSumType ==
  ASSUME NEW s \in Seq(Int)
  PROVE  /\ SumFunction(s) \in Int
         /\ s \in Seq(Nat) => SumFunction(s) \in Nat
<1>1. DOMAIN s = 1..Len(s) /\ IsFiniteSet(1..Len(s)) /\ \A i \in 1..Len(s) : s[i] \in Int
  BY FS_Interval
<1>2. s \in Seq(Nat) => \A i \in 1..Len(s) : s[i] \in Nat
  OBVIOUS
<1> QED  BY <1>1, <1>2, SumType, SumNatural DEF SumFunction

\* The sum of an empty sequence.
LEMMA SequenceSumEmpty == SumFunction(<<>>) = 0
  BY SumEmpty DEF SumFunction

\* One number more at the end.
LEMMA SequenceSumAppend ==
  ASSUME NEW s \in Seq(Int), NEW d \in Int
  PROVE  SumFunction(Append(s, d)) = SumFunction(s) + d
<1> DEFINE t == Append(s, d)
           n == Len(s)
<1>1. /\ n \in Nat /\ DOMAIN s = 1..n /\ DOMAIN t = (1..n) \cup {n + 1} /\ n + 1 \notin 1..n
      /\ t[n + 1] = d /\ \A i \in 1..n : t[i] = s[i] /\ s[i] \in Int
  <2>1. n \in Nat /\ DOMAIN s = 1..n /\ \A i \in 1..n : s[i] \in Int
    OBVIOUS
  <2>2. DOMAIN t = 1..(n + 1) /\ t[n + 1] = d /\ \A i \in 1..n : t[i] = s[i]
    BY <2>1
  <2> HIDE DEF t, n
  <2> QED  BY <2>1, <2>2
<1>2. IsFiniteSet(1..n)
  BY <1>1, FS_Interval
<1> HIDE DEF t, n
<1>3. SumFunctionOnSet(t, (1..n) \cup {n + 1}) = t[n + 1] + SumFunctionOnSet(t, 1..n)
  <2>1. \A i \in (1..n) \cup {n + 1} : t[i] \in Int
    BY <1>1
  <2>2. n + 1 \notin 1..n
    BY <1>1
  <2> QED  BY <1>2, <2>1, <2>2, SumAdd
<1>4. SumFunctionOnSet(t, 1..n) = SumFunctionOnSet(s, 1..n)
  BY <1>1, <1>2, SumSame
<1>5. SumFunctionOnSet(s, 1..n) \in Int
  <2>1. \A i \in 1..n : s[i] \in Int
    BY <1>1
  <2> QED  BY <1>2, <2>1, SumType
<1>6. SumFunction(t) = SumFunction(s) + d
  BY <1>1, <1>3, <1>4, <1>5 DEF SumFunction
<1> QED  BY <1>6 DEF t

(***************************************************************************)
(* Quotients and remainders.                                                *)
(***************************************************************************)
\* A number is its quotient, as often as the divisor says, and its remainder.
LEMMA Division ==
  ASSUME NEW n \in Nat, NEW b \in Nat \ {0}
  PROVE  n \div b \in Nat /\ n % b \in 0..(b - 1) /\ n = (n \div b) * b + (n % b)
OBVIOUS

\* Quotient and remainder are the only ones.
LEMMA DivisionIs ==
  ASSUME NEW b \in Nat \ {0}, NEW q \in Nat, NEW r \in 0..(b - 1)
  PROVE  (q * b + r) \div b = q /\ (q * b + r) % b = r
<1> DEFINE n == q * b + r
           k == n \div b
           m == n % b
<1>1. n \in Nat /\ k \in Nat /\ m \in 0..(b - 1) /\ n = k * b + m
  <2>1. n \in Nat
    OBVIOUS
  <2> HIDE DEF n
  <2> QED  BY <2>1, Division
<1>2. k * b + m = q * b + r
  BY <1>1
<1> HIDE DEF k, m, n
<1>3. ~ (k < q)
  <2> SUFFICES ASSUME k < q PROVE FALSE
    OBVIOUS
  <2> DEFINE d == q - k - 1
  <2>2. d \in Nat /\ q = k + 1 + d
    BY <1>1
  <2> HIDE DEF d
  <2>3. q * b = k * b + b + d * b /\ d * b \in Nat /\ k * b \in Nat
    BY <1>1, <2>2
  <2> QED  BY <1>1, <1>2, <2>3
<1>4. ~ (q < k)
  <2> SUFFICES ASSUME q < k PROVE FALSE
    OBVIOUS
  <2> DEFINE d == k - q - 1
  <2>2. d \in Nat /\ k = q + 1 + d
    BY <1>1
  <2> HIDE DEF d
  <2>3. k * b = q * b + b + d * b /\ d * b \in Nat /\ q * b \in Nat
    BY <1>1, <2>2
  <2> QED  BY <1>1, <1>2, <2>3
<1>5. k = q
  BY <1>1, <1>3, <1>4
<1>6. m = r
  BY <1>1, <1>2, <1>5
<1> QED  BY <1>5, <1>6 DEF k, m, n

\* Numbers from a multiple on have at least its quotient.
LEMMA MultipleFrom ==
  ASSUME NEW b \in Nat \ {0}, NEW k \in Nat, NEW o \in Nat
  PROVE  k * b <= o <=> k <= o \div b
<1> DEFINE q == o \div b
           r == o % b
<1>1. q \in Nat /\ r \in 0..(b - 1) /\ o = q * b + r
  BY Division
<1> HIDE DEF q, r
<1>2. CASE k <= q
  <2>1. (q - k) * b \in Nat /\ q * b = k * b + (q - k) * b
    BY <1>1, <1>2
  <2>2. k * b \in Nat /\ q * b \in Nat
    BY <1>1
  <2> DEFINE x == (q - k) * b
  <2> HIDE DEF x
  <2>3. x \in Nat /\ q * b = k * b + x
    BY <2>1 DEF x
  <2>4. k * b <= o
    BY <1>1, <2>2, <2>3
  <2> QED  BY <1>2, <2>4 DEF q
<1>3. CASE ~ (k <= q)
  <2> DEFINE d == k - q - 1
  <2>1. d \in Nat /\ k = q + 1 + d
    BY <1>1, <1>3
  <2> HIDE DEF d
  <2>2. k * b = q * b + b + d * b /\ d * b \in Nat /\ q * b \in Nat
    BY <1>1, <2>1
  <2>3. ~ (k * b <= o)
    BY <1>1, <2>2
  <2> QED  BY <1>3, <2>3 DEF q
<1> QED  BY <1>2, <1>3

\* A product of natural numbers is one.
LEMMA Times ==
  ASSUME NEW a \in Nat, NEW b \in Nat
  PROVE  a * b \in Nat
OBVIOUS
=============================================================================
