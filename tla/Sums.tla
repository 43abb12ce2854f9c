-------------------------------- MODULE Sums --------------------------------
(***************************************************************************)
(* Facts about sums of integers over finite sets, for the proofs about     *)
(* money and quantities.  SumFunctionOnSet, and the operators the models   *)
(* use in its place, are folds: recursive functions of a set of indices.   *)
(* That such a function exists, and all that follows here, holds because   *)
(* among the subsets of a finite set for which it failed there would be a  *)
(* smallest one.                                                           *)
(***************************************************************************)
EXTENDS Integers, FiniteSets, FiniteSetsExt, Functions, FiniteSetTheorems,
        WellFoundedInduction, TLAPS

\* The index the recursion takes first.
Pick(S) == CHOOSE x \in S : TRUE

\* g adds f up over every subset of S.
Adds(g, f, S) ==
  g = [s \in SUBSET S |-> IF s = {} THEN 0 ELSE f[Pick(s)] + g[s \ {Pick(s)}]]

\* Among sets of finite sets there is a smallest one.
LEMMA Smallest ==
  ASSUME NEW S, IsFiniteSet(S), NEW P, P \subseteq SUBSET S, P # {}
  PROVE  \E T \in P : \A U \in P : U \subseteq T => U = T
<1>1. IsWellFoundedOn(StrictSubsetOrdering(S), FiniteSubsetsOf(S))
  BY FS_StrictSubsetOrderingWellFounded
<1>2. P \subseteq FiniteSubsetsOf(S)
  BY FS_Subset DEF FiniteSubsetsOf
<1>3. \E T \in P : \A U \in P : ~ (<<U, T>> \in StrictSubsetOrdering(S))
  BY <1>1, <1>2, WFMin
<1> QED BY <1>3 DEF StrictSubsetOrdering

-----------------------------------------------------------------------------
(* The recursion *)

\* It determines every sum, also within a larger one.
LEMMA AddsOnce ==
  ASSUME NEW S, IsFiniteSet(S), NEW T, S \subseteq T, NEW f,
         NEW g, Adds(g, f, S), NEW h, Adds(h, f, T)
  PROVE  g[S] = h[S]
<1> DEFINE Differ == {s \in SUBSET S : g[s] # h[s]}
<1>1. ASSUME NEW s \in Differ, \A u \in Differ : u \subseteq s => u = s PROVE FALSE
  <2>1. s # {}
    BY <1>1 DEF Adds
  <2>2. Pick(s) \in s
    BY <2>1 DEF Pick
  <2>3. s \ {Pick(s)} \notin Differ
    BY <1>1, <2>2
  <2>4. g[s \ {Pick(s)}] = h[s \ {Pick(s)}]
    BY <2>3
  <2>5. g[s] = f[Pick(s)] + g[s \ {Pick(s)}]
    BY <2>1 DEF Adds
  <2>6. h[s] = f[Pick(s)] + h[s \ {Pick(s)}]
    BY <2>1 DEF Adds
  <2> QED BY <2>4, <2>5, <2>6
<1>2. ASSUME Differ # {} PROVE FALSE
  <2>1. Differ \subseteq SUBSET S
    OBVIOUS
  <2> HIDE DEF Differ
  <2>2. PICK s \in Differ : \A u \in Differ : u \subseteq s => u = s
    BY <1>2, <2>1, Smallest
  <2> QED BY <1>1, <2>2
<1> QED BY <1>2

\* There is a function that adds up, and the sum is what it gives.
LEMMA SumPick ==
  ASSUME NEW S, IsFiniteSet(S), NEW f
  PROVE  /\ Adds(CHOOSE g : Adds(g, f, S), f, S)
         /\ SumFunctionOnSet(f, S) =
              IF S = {} THEN 0 ELSE f[Pick(S)] + SumFunctionOnSet(f, S \ {Pick(S)})
<1> DEFINE Sum(T) == (CHOOSE g : Adds(g, f, T))[T]
           Rec(T) == IF T = {} THEN 0 ELSE f[Pick(T)] + Sum(T \ {Pick(T)})
           G(T) == [s \in SUBSET T |-> Rec(s)]
           Bad == {T \in SUBSET S : ~ Adds(G(T), f, T)}
<1>1. \A T : SumFunctionOnSet(f, T) = Sum(T)
  BY DEF SumFunctionOnSet, FoldFunctionOnSet, MapThenFoldSet, Adds, Pick
<1>2. ASSUME NEW T \in SUBSET S, Adds(G(T), f, T)
      PROVE  Adds(CHOOSE g : Adds(g, f, T), f, T) /\ Sum(T) = Rec(T)
  <2>1. Adds(CHOOSE g : Adds(g, f, T), f, T)
    BY <1>2
  <2>2. IsFiniteSet(T)
    BY FS_Subset
  <2>3. G(T)[T] = Sum(T)
    BY <1>2, <2>1, <2>2, AddsOnce
  <2> QED BY <2>1, <2>3
<1>3. ASSUME NEW T \in Bad, \A U \in Bad : U \subseteq T => U = T PROVE FALSE
  <2>1. ASSUME NEW s \in SUBSET T, s # {} PROVE Sum(s \ {Pick(s)}) = Rec(s \ {Pick(s)})
    <3>1. Pick(s) \in s
      BY <2>1 DEF Pick
    <3>2. s \ {Pick(s)} \in SUBSET S /\ s \ {Pick(s)} \subseteq T /\ s \ {Pick(s)} # T
      BY <3>1
    <3>3. s \ {Pick(s)} \notin Bad
      BY <3>2, <1>3
    <3> HIDE DEF Sum, Rec, G
    <3> QED BY <3>3, <3>2, <1>2
  <2>2. \A s \in SUBSET T : Rec(s) = IF s = {} THEN 0 ELSE f[Pick(s)] + G(T)[s \ {Pick(s)}]
    <3> HIDE DEF Sum
    <3> QED BY <2>1
  <2>3. Adds(G(T), f, T)
    <3> HIDE DEF Rec, Sum
    <3> QED BY <2>2 DEF Adds
  <2> QED BY <2>3
<1>4. ASSUME Bad # {} PROVE FALSE
  <2>1. Bad \subseteq SUBSET S
    OBVIOUS
  <2> HIDE DEF Bad
  <2>2. PICK T \in Bad : \A U \in Bad : U \subseteq T => U = T
    BY <1>4, <2>1, Smallest
  <2> QED BY <1>3, <2>2
<1>5. Adds(G(S), f, S)
  BY <1>4
<1> HIDE DEF G, Sum
<1> QED BY <1>1, <1>2, <1>5

-----------------------------------------------------------------------------
(* Terms *)

\* The empty sum.
LEMMA SumEmpty == \A f : SumFunctionOnSet(f, {}) = 0
<1> SUFFICES ASSUME NEW f PROVE SumFunctionOnSet(f, {}) = 0
  OBVIOUS
<1> QED BY FS_EmptySet, SumPick

\* A sum of integers is an integer, and may begin with any of them.
LEMMA SumSplit ==
  ASSUME NEW S, IsFiniteSet(S), NEW f, \A x \in S : f[x] \in Int
  PROVE  /\ SumFunctionOnSet(f, S) \in Int
         /\ \A x \in S : SumFunctionOnSet(f, S) = f[x] + SumFunctionOnSet(f, S \ {x})
<1> DEFINE Sum(T) == SumFunctionOnSet(f, T)
           Good(T) == Sum(T) \in Int /\ \A x \in T : Sum(T) = f[x] + Sum(T \ {x})
           Bad == {T \in SUBSET S : ~ Good(T)}
<1>1. ASSUME NEW T \in SUBSET S
      PROVE  Sum(T) = IF T = {} THEN 0 ELSE f[Pick(T)] + Sum(T \ {Pick(T)})
  BY FS_Subset, SumPick
<1> HIDE DEF Sum
<1>2. ASSUME NEW T \in Bad, \A U \in Bad : U \subseteq T => U = T PROVE FALSE
  <2> DEFINE y == Pick(T)
  <2>1. T # {}
    <3>1. Sum({}) = 0
      BY <1>1
    <3>2. Good({})
      BY <3>1
    <3>3. ~ Good(T)
      BY <1>2
    <3> HIDE DEF Good
    <3> QED BY <3>2, <3>3
  <2>2. y \in T
    BY <2>1 DEF Pick
  <2> HIDE DEF y
  <2>3. Sum(T) = f[y] + Sum(T \ {y})
    BY <1>1, <2>1 DEF y
  <2>4. ASSUME NEW U \in SUBSET T, U # T PROVE Good(U)
    BY <1>2, <2>4
  <2>5. Good(T \ {y})
    BY <2>2, <2>4
  <2>6. ASSUME NEW x \in T PROVE Sum(T) = f[x] + Sum(T \ {x})
    <3>1. CASE x = y BY <2>3, <3>1
    <3>2. CASE x # y
      <4>1. Good(T \ {x})
        BY <2>6, <2>4
      <4>2. Sum(T \ {x}) = f[y] + Sum((T \ {x}) \ {y})
        BY <4>1, <2>2, <3>2
      <4>3. Sum(T \ {y}) = f[x] + Sum((T \ {y}) \ {x})
        BY <2>5, <2>6, <3>2
      <4>4. (T \ {y}) \ {x} = (T \ {x}) \ {y}
        OBVIOUS
      <4>5. (T \ {x}) \ {y} \in SUBSET T /\ (T \ {x}) \ {y} # T
        BY <2>2
      <4>6. Sum((T \ {x}) \ {y}) \in Int
        BY <2>4, <4>5
      <4>7. f[x] \in Int /\ f[y] \in Int
        BY <2>2, <2>6, <1>2
      <4> DEFINE Z == Sum((T \ {x}) \ {y})
      <4>8. Sum(T \ {y}) = f[x] + Z
        BY <4>3, <4>4
      <4>9. Sum(T \ {x}) = f[y] + Z
        BY <4>2
      <4>10. Z \in Int
        BY <4>6
      <4> HIDE DEF Good, Bad, Z
      <4>11. Sum(T) = f[y] + (f[x] + Z)
        BY <2>3, <4>8
      <4>12. f[y] + (f[x] + Z) = f[x] + (f[y] + Z)
        BY <4>7, <4>10
      <4> QED BY <4>9, <4>11, <4>12
    <3> QED BY <3>1, <3>2
  <2> QED BY <1>2, <2>2, <2>3, <2>5, <2>6
<1>3. ASSUME Bad # {} PROVE FALSE
  <2>1. Bad \subseteq SUBSET S
    OBVIOUS
  <2> HIDE DEF Bad
  <2>2. PICK T \in Bad : \A U \in Bad : U \subseteq T => U = T
    BY <1>3, <2>1, Smallest
  <2> QED BY <1>2, <2>2
<1> QED BY <1>3 DEF Sum

\* Equal terms have equal sums.
LEMMA SumSame ==
  ASSUME NEW S, IsFiniteSet(S), NEW f, NEW g, \A x \in S : f[x] = g[x]
  PROVE  SumFunctionOnSet(f, S) = SumFunctionOnSet(g, S)
<1> DEFINE Bad == {T \in SUBSET S : SumFunctionOnSet(f, T) # SumFunctionOnSet(g, T)}
<1>1. ASSUME NEW T \in Bad, \A U \in Bad : U \subseteq T => U = T PROVE FALSE
  <2>1. IsFiniteSet(T)
    BY FS_Subset
  <2>2. T # {}
    BY <1>1, <2>1, SumPick
  <2>3. Pick(T) \in T
    BY <2>2 DEF Pick
  <2>4. SumFunctionOnSet(f, T \ {Pick(T)}) = SumFunctionOnSet(g, T \ {Pick(T)})
    BY <1>1, <2>3
  <2> QED BY <1>1, <2>1, <2>2, <2>3, <2>4, SumPick
<1>2. ASSUME Bad # {} PROVE FALSE
  <2>1. Bad \subseteq SUBSET S
    OBVIOUS
  <2> HIDE DEF Bad
  <2>2. PICK T \in Bad : \A U \in Bad : U \subseteq T => U = T
    BY <1>2, <2>1, Smallest
  <2> QED BY <1>1, <2>2
<1> QED BY <1>2

\* One more term.
LEMMA SumAdd ==
  ASSUME NEW S, IsFiniteSet(S), NEW f, NEW x, x \notin S, \A y \in S \cup {x} : f[y] \in Int
  PROVE  SumFunctionOnSet(f, S \cup {x}) = SumFunctionOnSet(f, S) + f[x]
<1>1. IsFiniteSet(S \cup {x})
  BY FS_AddElement
<1>2. (S \cup {x}) \ {x} = S
  OBVIOUS
<1>3. SumFunctionOnSet(f, S \cup {x}) = f[x] + SumFunctionOnSet(f, (S \cup {x}) \ {x})
  BY <1>1, SumSplit
<1>4. SumFunctionOnSet(f, S \cup {x}) = f[x] + SumFunctionOnSet(f, S)
  BY <1>2, <1>3
<1>5. SumFunctionOnSet(f, S) \in Int /\ f[x] \in Int
  BY SumSplit
<1> QED BY <1>4, <1>5

\* One term changes.
LEMMA SumUpdate ==
  ASSUME NEW S, IsFiniteSet(S), NEW f, NEW g, \A y \in S : f[y] \in Int /\ g[y] \in Int,
         NEW x \in S, \A y \in S \ {x} : g[y] = f[y]
  PROVE  SumFunctionOnSet(g, S) = SumFunctionOnSet(f, S) - f[x] + g[x]
<1>1. IsFiniteSet(S \ {x})
  BY FS_RemoveElement
<1>2. SumFunctionOnSet(f, S \ {x}) = SumFunctionOnSet(g, S \ {x})
  BY <1>1, SumSame
<1>3. SumFunctionOnSet(f, S) = f[x] + SumFunctionOnSet(f, S \ {x})
  BY SumSplit
<1>4. SumFunctionOnSet(g, S) = g[x] + SumFunctionOnSet(g, S \ {x})
  BY SumSplit
<1>5. SumFunctionOnSet(f, S \ {x}) \in Int
  BY <1>1, SumSplit
<1> QED BY <1>2, <1>3, <1>4, <1>5

\* A sum of natural numbers is one, and no term exceeds it.
LEMMA SumNat ==
  ASSUME NEW S, IsFiniteSet(S), NEW f, \A x \in S : f[x] \in Nat
  PROVE  SumFunctionOnSet(f, S) \in Nat /\ \A x \in S : f[x] <= SumFunctionOnSet(f, S)
<1> DEFINE Bad == {T \in SUBSET S : SumFunctionOnSet(f, T) \notin Nat}
<1>1. ASSUME NEW T \in Bad, \A U \in Bad : U \subseteq T => U = T PROVE FALSE
  <2>1. IsFiniteSet(T)
    BY FS_Subset
  <2>2. T # {}
    <3>1. SumFunctionOnSet(f, {}) \in Nat
      BY SumEmpty
    <3> QED BY <3>1
  <2>3. PICK x \in T : TRUE
    BY <2>2
  <2>4. SumFunctionOnSet(f, T) = f[x] + SumFunctionOnSet(f, T \ {x})
    BY <2>1, SumSplit
  <2>5. SumFunctionOnSet(f, T \ {x}) \in Nat
    BY <1>1
  <2> QED BY <1>1, <2>4, <2>5
<1>2. ASSUME Bad # {} PROVE FALSE
  <2>1. Bad \subseteq SUBSET S
    OBVIOUS
  <2> HIDE DEF Bad
  <2>2. PICK T \in Bad : \A U \in Bad : U \subseteq T => U = T
    BY <1>2, <2>1, Smallest
  <2> QED BY <1>1, <2>2
<1>3. ASSUME NEW T \in SUBSET S PROVE SumFunctionOnSet(f, T) \in Nat
  BY <1>2
<1>4. ASSUME NEW x \in S PROVE f[x] <= SumFunctionOnSet(f, S)
  <2>1. SumFunctionOnSet(f, S) = f[x] + SumFunctionOnSet(f, S \ {x})
    BY SumSplit
  <2>2. SumFunctionOnSet(f, S \ {x}) \in Nat
    BY <1>3
  <2> QED BY <2>1, <2>2
<1> QED BY <1>3, <1>4

\* A sum of bounded terms.
LEMMA SumBound ==
  ASSUME NEW S, IsFiniteSet(S), NEW f, NEW b \in Nat, \A x \in S : f[x] \in Nat /\ f[x] <= b
  PROVE  SumFunctionOnSet(f, S) <= Cardinality(S) * b
<1> DEFINE Bad == {T \in SUBSET S : ~ (SumFunctionOnSet(f, T) <= Cardinality(T) * b)}
<1>1. ASSUME NEW T \in Bad, \A U \in Bad : U \subseteq T => U = T PROVE FALSE
  <2>1. IsFiniteSet(T)
    BY FS_Subset
  <2>2. T # {}
    <3>1. SumFunctionOnSet(f, {}) = 0 /\ Cardinality({}) = 0 /\ 0 * b = 0
      BY SumEmpty, FS_EmptySet
    <3> QED BY <3>1
  <2>3. PICK x \in T : TRUE
    BY <2>2
  <2> DEFINE rest == T \ {x}
  <2>4. SumFunctionOnSet(f, T) = f[x] + SumFunctionOnSet(f, rest)
    BY <2>1, SumSplit
  <2>5. IsFiniteSet(rest) /\ Cardinality(rest) = Cardinality(T) - 1
    BY <2>1, <2>3, FS_RemoveElement
  <2>6. Cardinality(rest) \in Nat /\ Cardinality(T) \in Nat
    BY <2>1, <2>5, FS_CardinalityType
  <2>7. SumFunctionOnSet(f, rest) <= Cardinality(rest) * b
    BY <1>1, <2>3
  <2>8. SumFunctionOnSet(f, rest) \in Nat /\ f[x] \in Nat /\ f[x] <= b
    BY <2>5, SumNat
  <2>9. ~ (SumFunctionOnSet(f, T) <= Cardinality(T) * b)
    BY <1>1
  <2> DEFINE n == Cardinality(rest)
  <2>10. Cardinality(T) = n + 1 /\ n \in Nat
    BY <2>5, <2>6
  <2>11. (n + 1) * b = n * b + b /\ n * b \in Nat
    BY <2>10
  <2> DEFINE s == SumFunctionOnSet(f, rest)
             p == n * b
  <2>12. s <= p /\ s \in Nat /\ p \in Nat
    BY <2>7, <2>8, <2>11
  <2>13. ~ (f[x] + s <= p + b)
    BY <2>4, <2>9, <2>10, <2>11
  <2> HIDE DEF s, p
  <2> QED BY <2>8, <2>12, <2>13
<1>2. ASSUME Bad # {} PROVE FALSE
  <2>1. Bad \subseteq SUBSET S
    OBVIOUS
  <2> HIDE DEF Bad
  <2>2. PICK T \in Bad : \A U \in Bad : U \subseteq T => U = T
    BY <1>2, <2>1, Smallest
  <2> QED BY <1>1, <2>2
<1> QED BY <1>2

\* Terms that are no greater have a sum that is no greater.
LEMMA SumNoGreater ==
  ASSUME NEW S, IsFiniteSet(S), NEW f, NEW g, \A x \in S : f[x] \in Nat /\ g[x] \in Nat,
         \A x \in S : g[x] <= f[x]
  PROVE  SumFunctionOnSet(g, S) <= SumFunctionOnSet(f, S)
<1> DEFINE Bad == {T \in SUBSET S : ~ (SumFunctionOnSet(g, T) <= SumFunctionOnSet(f, T))}
<1>1. ASSUME NEW T \in Bad, \A U \in Bad : U \subseteq T => U = T PROVE FALSE
  <2>1. IsFiniteSet(T)
    BY FS_Subset
  <2>2. T # {}
    <3>1. SumFunctionOnSet(f, {}) = 0 /\ SumFunctionOnSet(g, {}) = 0
      BY SumEmpty
    <3> QED BY <3>1
  <2>3. PICK x \in T : TRUE
    BY <2>2
  <2> DEFINE F == SumFunctionOnSet(f, T \ {x})
             G == SumFunctionOnSet(g, T \ {x})
  <2>4. SumFunctionOnSet(f, T) = f[x] + F
    BY <2>1, SumSplit
  <2>5. SumFunctionOnSet(g, T) = g[x] + G
    BY <2>1, SumSplit
  <2>6. IsFiniteSet(T \ {x})
    BY <2>1, FS_RemoveElement
  <2>7. F \in Nat /\ G \in Nat
    BY <2>6, SumNat
  <2>8. G <= F
    BY <1>1, <2>3
  <2>9. ~ (SumFunctionOnSet(g, T) <= SumFunctionOnSet(f, T))
    BY <1>1
  <2>10. f[x] \in Nat /\ g[x] \in Nat /\ g[x] <= f[x]
    BY <2>3
  <2> HIDE DEF F, G
  <2> QED BY <2>4, <2>5, <2>7, <2>8, <2>9, <2>10
<1>2. ASSUME Bad # {} PROVE FALSE
  <2>1. Bad \subseteq SUBSET S
    OBVIOUS
  <2> HIDE DEF Bad
  <2>2. PICK T \in Bad : \A U \in Bad : U \subseteq T => U = T
    BY <1>2, <2>1, Smallest
  <2> QED BY <1>1, <2>2
<1> QED BY <1>2

\* Of finitely many terms one is the greatest.
LEMMA GreatestTerm ==
  ASSUME NEW S, IsFiniteSet(S), NEW f, \A x \in S : f[x] \in Int, S # {}
  PROVE  \E x \in S : \A y \in S : f[y] <= f[x]
<1> DEFINE Bad == {T \in SUBSET S : T # {} /\ ~ \E x \in T : \A y \in T : f[y] <= f[x]}
<1>1. ASSUME NEW T \in Bad, \A U \in Bad : U \subseteq T => U = T PROVE FALSE
  <2>1. PICK x \in T : TRUE
    OBVIOUS
  <2>2. T \ {x} \in SUBSET S /\ T \ {x} \notin Bad
    BY <1>1, <2>1
  <2>3. T \ {x} # {}
    BY <1>1, <2>1
  <2>4. PICK y \in T \ {x} : \A z \in T \ {x} : f[z] <= f[y]
    BY <2>2, <2>3
  <2> QED BY <1>1, <2>1, <2>4
<1>2. ASSUME Bad # {} PROVE FALSE
  <2>1. Bad \subseteq SUBSET S
    OBVIOUS
  <2> HIDE DEF Bad
  <2>2. PICK T \in Bad : \A U \in Bad : U \subseteq T => U = T
    BY <1>2, <2>1, Smallest
  <2> QED BY <1>1, <2>2
<1> QED BY <1>2

\* A finite set of integers has a greatest one.
LEMMA Greatest ==
  ASSUME NEW S, IsFiniteSet(S), S \subseteq Int, S # {}
  PROVE  Max(S) \in S /\ \A x \in S : x <= Max(S)
<1> DEFINE f == [x \in S |-> x]
<1>1. \A x \in S : f[x] \in Int /\ f[x] = x
  OBVIOUS
<1> HIDE DEF f
<1>2. PICK x \in S : \A y \in S : f[y] <= f[x]
  BY <1>1, GreatestTerm
<1>3. \A y \in S : x >= y
  BY <1>1, <1>2
<1> QED BY <1>3 DEF Max

\* Terms may be given other indices.
LEMMA SumRenamed ==
  ASSUME NEW S, IsFiniteSet(S), NEW h, \A x, y \in S : h[x] = h[y] => x = y,
         NEW f, NEW g, \A x \in S : f[h[x]] \in Int /\ g[x] = f[h[x]]
  PROVE  SumFunctionOnSet(f, {h[x] : x \in S}) = SumFunctionOnSet(g, S)
<1> DEFINE Image(T) == {h[x] : x \in T}
           Bad == {T \in SUBSET S : SumFunctionOnSet(f, Image(T)) # SumFunctionOnSet(g, T)}
<1>1. ASSUME NEW T \in Bad, \A U \in Bad : U \subseteq T => U = T PROVE FALSE
  <2>1. IsFiniteSet(T)
    BY FS_Subset
  <2>2. T # {}
    <3>1. Image({}) = {}
      OBVIOUS
    <3>2. SumFunctionOnSet(f, {}) = 0 /\ SumFunctionOnSet(g, {}) = 0
      BY SumEmpty
    <3> QED BY <3>1, <3>2
  <2>3. PICK x \in T : TRUE
    BY <2>2
  <2>4. IsFiniteSet(Image(T))
    <3> DEFINE k == [y \in T |-> h[y]]
    <3>1. k \in Surjection(T, Image(T))
      BY DEF Surjection
    <3> HIDE DEF k
    <3> QED BY <2>1, <3>1, FS_Surjection
  <2>5. Image(T) \ {h[x]} = Image(T \ {x})
    BY <2>3
  <2>6. \A z \in Image(T) : f[z] \in Int
    OBVIOUS
  <2>7. h[x] \in Image(T)
    BY <2>3
  <2>8. SumFunctionOnSet(f, Image(T)) = f[h[x]] + SumFunctionOnSet(f, Image(T \ {x}))
    <3> HIDE DEF Image, Bad
    <3>1. SumFunctionOnSet(f, Image(T)) = f[h[x]] + SumFunctionOnSet(f, Image(T) \ {h[x]})
      BY <2>4, <2>6, <2>7, SumSplit
    <3> QED BY <2>5, <3>1
  <2>9. SumFunctionOnSet(g, T) = g[x] + SumFunctionOnSet(g, T \ {x})
    BY <2>1, <2>3, SumSplit
  <2>10. SumFunctionOnSet(f, Image(T \ {x})) = SumFunctionOnSet(g, T \ {x})
    BY <1>1, <2>3
  <2>11. g[x] = f[h[x]]
    BY <2>3
  <2>12. SumFunctionOnSet(f, Image(T)) # SumFunctionOnSet(g, T)
    BY <1>1
  <2> HIDE DEF Image, Bad
  <2> QED BY <2>8, <2>9, <2>10, <2>11, <2>12
<1>2. ASSUME Bad # {} PROVE FALSE
  <2>1. Bad \subseteq SUBSET S
    OBVIOUS
  <2> HIDE DEF Bad
  <2>2. PICK T \in Bad : \A U \in Bad : U \subseteq T => U = T
    BY <1>2, <2>1, Smallest
  <2> QED BY <1>1, <2>2
<1> QED BY <1>2

\* A sum of nothing but zeros.
LEMMA SumZero ==
  ASSUME NEW S, IsFiniteSet(S), NEW f, \A x \in S : f[x] = 0
  PROVE  SumFunctionOnSet(f, S) = 0
<1>1. \A x \in S : f[x] \in Nat /\ f[x] <= 0
  OBVIOUS
<1>2. SumFunctionOnSet(f, S) \in Nat /\ SumFunctionOnSet(f, S) <= Cardinality(S) * 0
  BY <1>1, SumNat, SumBound
<1>3. Cardinality(S) * 0 = 0
  BY FS_CardinalityType
<1> QED BY <1>2, <1>3

\* Terms that are zero may be left out.
LEMMA SumWithin ==
  ASSUME NEW S, IsFiniteSet(S), NEW f, NEW g, NEW W, \A x \in S : f[x] \in Int,
         \A x \in S : f[x] = IF x \in W THEN g[x] ELSE 0
  PROVE  SumFunctionOnSet(f, S) = SumFunctionOnSet(g, {x \in S : x \in W})
<1> DEFINE In(T) == {x \in T : x \in W}
           Bad == {T \in SUBSET S : SumFunctionOnSet(f, T) # SumFunctionOnSet(g, In(T))}
<1>1. ASSUME NEW T \in Bad, \A U \in Bad : U \subseteq T => U = T PROVE FALSE
  <2>1. IsFiniteSet(T) /\ IsFiniteSet(In(T)) /\ T \subseteq S
    BY FS_Subset
  <2>2. T # {}
    <3>1. In({}) = {} /\ SumFunctionOnSet(f, {}) = 0 /\ SumFunctionOnSet(g, {}) = 0
      BY SumEmpty
    <3> QED BY <3>1
  <2>3. PICK x \in T : TRUE
    BY <2>2
  <2>4. SumFunctionOnSet(f, T) = f[x] + SumFunctionOnSet(f, T \ {x})
    BY <2>1, <2>3, SumSplit
  <2>5. SumFunctionOnSet(f, T \ {x}) = SumFunctionOnSet(g, In(T \ {x}))
    BY <1>1, <2>3
  <2>6. SumFunctionOnSet(f, T \ {x}) \in Int
    <3>1. IsFiniteSet(T \ {x})
      BY <2>1, FS_RemoveElement
    <3> QED BY <2>1, <3>1, SumSplit
  <2>7. SumFunctionOnSet(f, T) # SumFunctionOnSet(g, In(T))
    BY <1>1
  <2>8. CASE x \notin W
    <3>1. In(T \ {x}) = In(T) /\ f[x] = 0
      BY <2>1, <2>8
    <3> HIDE DEF In, Bad
    <3> QED BY <2>4, <2>5, <2>6, <2>7, <3>1
  <2>9. CASE x \in W
    <3>1. In(T \ {x}) = In(T) \ {x} /\ x \in In(T) /\ f[x] = g[x]
      BY <2>1, <2>9
    <3>2. \A y \in In(T) : g[y] \in Int
      BY <2>1
    <3> HIDE DEF In, Bad
    <3>3. SumFunctionOnSet(g, In(T)) = g[x] + SumFunctionOnSet(g, In(T) \ {x})
      BY <2>1, <3>1, <3>2, SumSplit
    <3> QED BY <2>4, <2>5, <2>7, <3>1, <3>3
  <2> QED BY <2>8, <2>9
<1>2. ASSUME Bad # {} PROVE FALSE
  <2>1. Bad \subseteq SUBSET S
    OBVIOUS
  <2> HIDE DEF Bad
  <2>2. PICK T \in Bad : \A U \in Bad : U \subseteq T => U = T
    BY <1>2, <2>1, Smallest
  <2> QED BY <1>1, <2>2
<1> QED BY <1>2

=============================================================================
