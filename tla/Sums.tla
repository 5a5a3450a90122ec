-------------------------------- MODULE Sums --------------------------------
(***************************************************************************)
(* Finite sums of integers, and the sums of a weighted graph whose nodes   *)
(* are put together.  The sum of the community modules is a fold that      *)
(* chooses an element at a time; here it is shown not to depend on the     *)
(* choice.  Nothing in this module is about the program: Host_proofs needs *)
(* it for the zones of the map.                                            *)
(***************************************************************************)
EXTENDS Functions, FiniteSetTheorems, WellFoundedInduction, TLAPS

\* A family of subsets of a finite set that holds {} and grows by any element holds the set.
LEMMA SubsetInduction ==
  ASSUME NEW S, IsFiniteSet(S), NEW F, {} \in F,
         \A T \in SUBSET S : \A x \in S \ T : T \in F => T \cup {x} \in F
  PROVE  S \in F
<1> SUFFICES ASSUME S \notin F PROVE FALSE
  OBVIOUS
<1> DEFINE Bad == {T \in SUBSET S : T \notin F}
<1>1. Bad \subseteq FiniteSubsetsOf(S) /\ Bad # {}
  BY FS_FiniteSubsetsOfFinite DEF Bad
<1>2. PICK T \in Bad : \A U \in Bad : ~(<<U, T>> \in StrictSubsetOrdering(S))
  BY <1>1, FS_StrictSubsetOrderingWellFounded, WFMin
<1>3. T # {} /\ T \in SUBSET S
  BY <1>2
<1>4. PICK x \in T : TRUE
  BY <1>3
<1>5. <<T \ {x}, T>> \in StrictSubsetOrdering(S)
  BY <1>3, <1>4 DEF StrictSubsetOrdering
<1>6. T \ {x} \in F
  BY <1>2, <1>3, <1>5
<1>7. T = (T \ {x}) \cup {x} /\ x \in S \ (T \ {x})
  BY <1>3, <1>4
<1>8. QED
  BY <1>2, <1>3, <1>6, <1>7

\* What the fold takes first, and the function the sum over the subsets of S is chosen to be.
Picked(s) == CHOOSE x \in s : TRUE
Sums(f, S, g) == g = [s \in SUBSET S |-> IF s = {} THEN 0 ELSE f[Picked(s)] + g[s \ {Picked(s)}]]

\* A sum is the value at S of the function the fold chooses.
LEMMA SumIsChosen ==
  ASSUME NEW f, NEW S
  PROVE  SumFunctionOnSet(f, S) = (CHOOSE g : Sums(f, S, g))[S]
BY DEF SumFunctionOnSet, FoldFunctionOnSet, MapThenFoldSet, Picked, Sums

\* Two such functions, over a set and over a subset of it, agree on the subset.
LEMMA SumsAgree ==
  ASSUME NEW f, NEW S, IsFiniteSet(S), NEW T \in SUBSET S, NEW g, NEW h, Sums(f, S, g), Sums(f, T, h)
  PROVE  \A U \in SUBSET T : g[U] = h[U]
<1> DEFINE Bad == {U \in SUBSET T : g[U] # h[U]}
<1> SUFFICES ASSUME Bad # {} PROVE FALSE
  OBVIOUS
<1>1. Bad \subseteq FiniteSubsetsOf(S)
  BY FS_FiniteSubsetsOfFinite DEF Bad
<1>2. PICK U \in Bad : \A V \in Bad : ~(<<V, U>> \in StrictSubsetOrdering(S))
  BY <1>1, FS_StrictSubsetOrderingWellFounded, WFMin
<1>3. U \in SUBSET T /\ U \in SUBSET S /\ g[U] # h[U]
  BY <1>2
<1> DEFINE x == Picked(U)
<1>4. /\ g[U] = IF U = {} THEN 0 ELSE f[x] + g[U \ {x}]
      /\ h[U] = IF U = {} THEN 0 ELSE f[x] + h[U \ {x}]
  BY <1>3, Zenon DEF Sums
<1>5. U # {} /\ x \in U
  BY <1>3, <1>4 DEF Picked
<1>6. <<U \ {x}, U>> \in StrictSubsetOrdering(S) /\ U \ {x} \in SUBSET T
  BY <1>3, <1>5 DEF StrictSubsetOrdering
<1>7. g[U \ {x}] = h[U \ {x}]
  BY <1>2, <1>6
<1>8. QED
  BY <1>3, <1>4, <1>5, <1>7

\* There is such a function over every finite set.
LEMMA SumsExist ==
  ASSUME NEW f, NEW S, IsFiniteSet(S)
  PROVE  Sums(f, S, CHOOSE g : Sums(f, S, g))
<1> DEFINE Bad == {T \in SUBSET S : ~ \E g : Sums(f, T, g)}
<1> SUFFICES ASSUME Bad # {} PROVE FALSE
  OBVIOUS
<1>1. Bad \subseteq FiniteSubsetsOf(S)
  BY FS_FiniteSubsetsOfFinite DEF Bad
<1>2. PICK U \in Bad : \A V \in Bad : ~(<<V, U>> \in StrictSubsetOrdering(S))
  BY <1>1, FS_StrictSubsetOrderingWellFounded, WFMin
<1>3. U \in SUBSET S /\ ~ \E g : Sums(f, U, g)
  BY <1>2
<1> DEFINE of(V) == CHOOSE g : Sums(f, V, g)
           val(V) == of(V)[V]
<1>4. ASSUME NEW V \in SUBSET U, V # U PROVE Sums(f, V, of(V))
  <2>1. <<V, U>> \in StrictSubsetOrdering(S) /\ V \in SUBSET S
    BY <1>3, <1>4 DEF StrictSubsetOrdering
  <2>2. \E g : Sums(f, V, g)
    BY <1>2, <2>1
  <2>3. QED
    BY <2>2
<1>5. ASSUME NEW V \in SUBSET U, V # U, V # {} PROVE val(V) = f[Picked(V)] + val(V \ {Picked(V)})
  <2> DEFINE W == V \ {Picked(V)}
  <2>1. Picked(V) \in V
    BY <1>5 DEF Picked
  <2>2. W \in SUBSET V /\ W \in SUBSET U /\ W # U /\ IsFiniteSet(V)
    BY <1>3, <1>5, <2>1, FS_Subset
  <2>3. Sums(f, V, of(V)) /\ Sums(f, W, of(W))
    BY <1>4, <1>5, <2>2
  <2> HIDE DEF of
  <2>4. of(V)[W] = of(W)[W]
    BY <2>2, <2>3, SumsAgree
  <2>5. of(V)[V] = f[Picked(V)] + of(V)[W]
    BY <1>5, <2>3, Zenon DEF Sums
  <2>6. QED
    BY <2>4, <2>5
<1>6. ASSUME NEW V \in SUBSET U, V # U, V = {} PROVE val(V) = 0
  <2>1. Sums(f, V, of(V))
    BY <1>4, <1>6
  <2> HIDE DEF of
  <2>2. QED
    BY <1>6, <2>1, Zenon DEF Sums
<1> HIDE DEF of
<1> DEFINE g == [V \in SUBSET U |->
                   IF V = U THEN IF U = {} THEN 0 ELSE f[Picked(U)] + val(U \ {Picked(U)}) ELSE val(V)]
<1>7. ASSUME NEW V \in SUBSET U
      PROVE  g[V] = IF V = {} THEN 0 ELSE f[Picked(V)] + g[V \ {Picked(V)}]
  <2>1. CASE V = {}
    <3>1. CASE V = U
      BY <2>1, <3>1
    <3>2. CASE V # U
      BY <1>6, <2>1, <3>2
    <3>3. QED
      BY <3>1, <3>2
  <2>2. CASE V # {}
    <3>1. Picked(V) \in V
      BY <2>2 DEF Picked
    <3>2. V \ {Picked(V)} \in SUBSET U /\ V \ {Picked(V)} # U
      BY <3>1
    <3>3. g[V \ {Picked(V)}] = val(V \ {Picked(V)})
      BY <3>2
    <3>4. g[V] = f[Picked(V)] + val(V \ {Picked(V)})
      <4>1. CASE V = U
        BY <2>2, <4>1
      <4>2. CASE V # U
        BY <1>5, <2>2, <4>2
      <4>3. QED
        BY <4>1, <4>2
    <3>5. QED
      BY <2>2, <3>3, <3>4
  <2>3. QED
    BY <2>1, <2>2
<1>8. DOMAIN g = SUBSET U /\ g = [V \in SUBSET U |-> g[V]]
  OBVIOUS
<1> HIDE DEF g, val
<1>9. Sums(f, U, g)
  BY <1>7, <1>8 DEF Sums
<1>10. QED
  BY <1>3, <1>9

\* So a sum over a finite set is the value of one of them.
LEMMA SumIsOne ==
  ASSUME NEW f, NEW S, IsFiniteSet(S)
  PROVE  \E g : Sums(f, S, g) /\ SumFunctionOnSet(f, S) = g[S]
BY SumsExist, SumIsChosen

\* The sum over nothing is 0.
LEMMA SumEmpty == ASSUME NEW f PROVE SumFunctionOnSet(f, {}) = 0
<1>1. PICK g : Sums(f, {}, g) /\ SumFunctionOnSet(f, {}) = g[{}]
  BY SumIsOne, FS_EmptySet, Zenon
<1>2. g = [s \in SUBSET {} |-> IF s = {} THEN 0 ELSE f[Picked(s)] + g[s \ {Picked(s)}]]
  BY <1>1, Zenon DEF Sums
<1>3. {} \in SUBSET {}
  OBVIOUS
<1>4. g[{}] = 0
  BY <1>2, <1>3, Zenon
<1>5. QED
  BY <1>1, <1>4

\* A sum is what the fold takes first and the sum of the rest.
LEMMA SumPicked ==
  ASSUME NEW f, NEW S, IsFiniteSet(S), S # {}
  PROVE  /\ Picked(S) \in S
         /\ SumFunctionOnSet(f, S) = f[Picked(S)] + SumFunctionOnSet(f, S \ {Picked(S)})
<1> DEFINE of(V) == CHOOSE g : Sums(f, V, g)
           T == S \ {Picked(S)}
<1>1. Picked(S) \in S
  BY DEF Picked
<1>2. IsFiniteSet(T) /\ T \in SUBSET S /\ S \in SUBSET S
  BY FS_RemoveElement
<1>3. Sums(f, S, of(S)) /\ Sums(f, T, of(T))
  BY <1>2, SumsExist
<1>4. SumFunctionOnSet(f, S) = of(S)[S] /\ SumFunctionOnSet(f, T) = of(T)[T]
  BY SumIsChosen
<1> HIDE DEF of
<1>5. of(S)[T] = of(T)[T]
  <2>1. ASSUME NEW g, NEW h, Sums(f, S, g), Sums(f, T, h) PROVE g[T] = h[T]
    <3>1. \A U \in SUBSET T : g[U] = h[U]
      BY <1>2, <2>1, SumsAgree
    <3>2. QED
      BY <3>1
  <2>2. QED
    BY <1>3, <2>1
<1>6. of(S)[S] = f[Picked(S)] + of(S)[T]
  BY <1>3, ZenonT(30) DEF Sums
<1>7. QED
  BY <1>1, <1>4, <1>5, <1>6


\* What is summed decides the sum.
LEMMA SumSame ==
  ASSUME NEW f, NEW g, NEW S, IsFiniteSet(S), \A x \in S : f[x] = g[x]
  PROVE  SumFunctionOnSet(f, S) = SumFunctionOnSet(g, S)
<1> DEFINE Bad == {T \in SUBSET S : SumFunctionOnSet(f, T) # SumFunctionOnSet(g, T)}
<1> SUFFICES ASSUME Bad # {} PROVE FALSE
  OBVIOUS
<1>1. Bad \subseteq FiniteSubsetsOf(S)
  BY FS_FiniteSubsetsOfFinite DEF Bad
<1>2. PICK T \in Bad : \A V \in Bad : ~(<<V, T>> \in StrictSubsetOrdering(S))
  BY <1>1, FS_StrictSubsetOrderingWellFounded, WFMin
<1>3. T \in SUBSET S /\ SumFunctionOnSet(f, T) # SumFunctionOnSet(g, T) /\ IsFiniteSet(T)
  BY <1>2, FS_Subset
<1>4. T # {}
  BY <1>3, SumEmpty
<1> DEFINE x == Picked(T)
<1> HIDE DEF x
<1>5. /\ x \in T
      /\ SumFunctionOnSet(f, T) = f[x] + SumFunctionOnSet(f, T \ {x})
      /\ SumFunctionOnSet(g, T) = g[x] + SumFunctionOnSet(g, T \ {x})
  BY <1>3, <1>4, SumPicked DEF x
<1>6. <<T \ {x}, T>> \in StrictSubsetOrdering(S) /\ T \ {x} \in SUBSET S
  BY <1>3, <1>5 DEF StrictSubsetOrdering
<1>7. SumFunctionOnSet(f, T \ {x}) = SumFunctionOnSet(g, T \ {x})
  BY <1>2, <1>6
<1>8. QED
  BY <1>3, <1>5, <1>7

\* A sum of integers is one.
LEMMA SumIsInt ==
  ASSUME NEW f, NEW S, IsFiniteSet(S), \A x \in S : f[x] \in Int
  PROVE  SumFunctionOnSet(f, S) \in Int
<1> DEFINE Bad == {T \in SUBSET S : SumFunctionOnSet(f, T) \notin Int}
<1> SUFFICES ASSUME Bad # {} PROVE FALSE
  OBVIOUS
<1>1. Bad \subseteq FiniteSubsetsOf(S)
  BY FS_FiniteSubsetsOfFinite DEF Bad
<1>2. PICK T \in Bad : \A V \in Bad : ~(<<V, T>> \in StrictSubsetOrdering(S))
  BY <1>1, FS_StrictSubsetOrderingWellFounded, WFMin
<1>3. T \in SUBSET S /\ SumFunctionOnSet(f, T) \notin Int /\ IsFiniteSet(T)
  BY <1>2, FS_Subset
<1>4. T # {}
  BY <1>3, SumEmpty
<1> DEFINE x == Picked(T)
<1> HIDE DEF x
<1>5. x \in T /\ SumFunctionOnSet(f, T) = f[x] + SumFunctionOnSet(f, T \ {x})
  BY <1>3, <1>4, SumPicked DEF x
<1>6. <<T \ {x}, T>> \in StrictSubsetOrdering(S) /\ T \ {x} \in SUBSET S
  BY <1>3, <1>5 DEF StrictSubsetOrdering
<1>7. SumFunctionOnSet(f, T \ {x}) \in Int
  BY <1>2, <1>6
<1>8. QED
  BY <1>3, <1>5, <1>7

\* Any element may be taken out first.
LEMMA SumWithout ==
  ASSUME NEW f, NEW S, IsFiniteSet(S), \A x \in S : f[x] \in Int, NEW a \in S
  PROVE  SumFunctionOnSet(f, S) = f[a] + SumFunctionOnSet(f, S \ {a})
<1> DEFINE Bad == {T \in SUBSET S : \E b \in T : SumFunctionOnSet(f, T) # f[b] + SumFunctionOnSet(f, T \ {b})}
<1> SUFFICES ASSUME Bad # {} PROVE FALSE
  OBVIOUS
<1>1. Bad \subseteq FiniteSubsetsOf(S)
  BY FS_FiniteSubsetsOfFinite DEF Bad
<1>2. PICK T \in Bad : \A V \in Bad : ~(<<V, T>> \in StrictSubsetOrdering(S))
  BY <1>1, FS_StrictSubsetOrderingWellFounded, WFMin
<1>3. T \in SUBSET S /\ IsFiniteSet(T)
  BY <1>2, FS_Subset
<1>4. PICK b \in T : SumFunctionOnSet(f, T) # f[b] + SumFunctionOnSet(f, T \ {b})
  BY <1>2
<1> DEFINE x == Picked(T)
<1> HIDE DEF x
<1>5. x \in T /\ SumFunctionOnSet(f, T) = f[x] + SumFunctionOnSet(f, T \ {x})
  BY <1>3, <1>4, SumPicked DEF x
<1>6. x # b
  BY <1>4, <1>5
<1> DEFINE U == T \ {x}
           V == T \ {b}
<1>7. U \in SUBSET S /\ V \in SUBSET S /\ U \ {b} = V \ {x} /\ b \in U /\ x \in V
  BY <1>3, <1>4, <1>5, <1>6
<1>8. <<U, T>> \in StrictSubsetOrdering(S) /\ <<V, T>> \in StrictSubsetOrdering(S)
  BY <1>3, <1>4, <1>5 DEF StrictSubsetOrdering
<1>9. U \notin Bad /\ V \notin Bad
  BY <1>2, <1>8
<1> HIDE DEF U, V
<1>10. /\ SumFunctionOnSet(f, U) = f[b] + SumFunctionOnSet(f, U \ {b})
       /\ SumFunctionOnSet(f, V) = f[x] + SumFunctionOnSet(f, V \ {x})
  BY <1>7, <1>9
<1>11. IsFiniteSet(U \ {b}) /\ SumFunctionOnSet(f, U \ {b}) \in Int
  BY <1>7, FS_Subset, SumIsInt
<1>12. f[x] \in Int /\ f[b] \in Int
  BY <1>3, <1>4, <1>5
<1>13. SumFunctionOnSet(f, T) = f[x] + SumFunctionOnSet(f, U)
  BY <1>5 DEF U
<1>13a. SumFunctionOnSet(f, V) = f[x] + SumFunctionOnSet(f, U \ {b})
  BY <1>7, <1>10, Zenon
<1> DEFINE sumT == SumFunctionOnSet(f, T)
           sumU == SumFunctionOnSet(f, U)
           sumV == SumFunctionOnSet(f, V)
           rest == SumFunctionOnSet(f, U \ {b})
<1> HIDE DEF sumT, sumU, sumV, rest
<1>13b. sumT = f[x] + sumU /\ sumU = f[b] + rest /\ sumV = f[x] + rest /\ rest \in Int
  BY <1>10, <1>11, <1>13, <1>13a DEF sumT, sumU, sumV, rest
<1>13c. sumT = f[b] + sumV
  BY <1>12, <1>13b
<1>14. QED
  BY <1>4, <1>13c DEF V, sumT, sumV

\* One more element adds its term.
LEMMA SumAdd ==
  ASSUME NEW f, NEW S, IsFiniteSet(S), \A y \in S : f[y] \in Int, NEW x, x \notin S, f[x] \in Int
  PROVE  SumFunctionOnSet(f, S \cup {x}) = f[x] + SumFunctionOnSet(f, S)
<1>1. IsFiniteSet(S \cup {x}) /\ (\A y \in S \cup {x} : f[y] \in Int) /\ x \in S \cup {x}
  BY FS_AddElement
<1>2. SumFunctionOnSet(f, S \cup {x}) = f[x] + SumFunctionOnSet(f, (S \cup {x}) \ {x})
  BY <1>1, SumWithout
<1>3. (S \cup {x}) \ {x} = S
  OBVIOUS
<1>4. QED
  BY <1>2, <1>3

\* The sum over one element is its term.
LEMMA SumOne == ASSUME NEW f, NEW x, f[x] \in Int PROVE SumFunctionOnSet(f, {x}) = f[x]
<1>1. SumFunctionOnSet(f, {} \cup {x}) = f[x] + SumFunctionOnSet(f, {})
  BY SumAdd, FS_EmptySet
<1>2. QED
  BY <1>1, SumEmpty

\* A sum of naturals is one.
LEMMA SumIsNat ==
  ASSUME NEW f, NEW S, IsFiniteSet(S), \A x \in S : f[x] \in Nat
  PROVE  SumFunctionOnSet(f, S) \in Nat
<1> DEFINE F == {T \in SUBSET S : SumFunctionOnSet(f, T) \in Nat}
<1>1. {} \in F
  BY SumEmpty
<1>2. ASSUME NEW T \in SUBSET S, NEW x \in S \ T, T \in F PROVE T \cup {x} \in F
  <2>1. IsFiniteSet(T) /\ (\A y \in T : f[y] \in Int) /\ x \notin T /\ f[x] \in Int /\ f[x] \in Nat
    BY FS_Subset
  <2>2. SumFunctionOnSet(f, T \cup {x}) = f[x] + SumFunctionOnSet(f, T)
    BY <2>1, SumAdd
  <2>3. QED
    BY <1>2, <2>1, <2>2
<1> HIDE DEF F
<1>3. S \in F
  BY <1>1, <1>2, SubsetInduction
<1>4. QED
  BY <1>3 DEF F

\* The sum over two disjoint sets is the sum of both sums.
LEMMA SumUnion ==
  ASSUME NEW f, NEW S, NEW R, IsFiniteSet(S), IsFiniteSet(R), S \cap R = {},
         \A x \in S \cup R : f[x] \in Int
  PROVE  SumFunctionOnSet(f, S \cup R) = SumFunctionOnSet(f, S) + SumFunctionOnSet(f, R)
<1> DEFINE F == {T \in SUBSET S : SumFunctionOnSet(f, T \cup R) = SumFunctionOnSet(f, T) + SumFunctionOnSet(f, R)}
<1>0. SumFunctionOnSet(f, R) \in Int
  BY SumIsInt
<1>1. {} \in F
  <2>1. {} \cup R = R
    OBVIOUS
  <2>2. QED
    BY <1>0, <2>1, SumEmpty
<1>2. ASSUME NEW T \in SUBSET S, NEW x \in S \ T, T \in F PROVE T \cup {x} \in F
  <2>1. IsFiniteSet(T) /\ IsFiniteSet(T \cup R) /\ x \notin T /\ x \notin T \cup R /\ f[x] \in Int
    BY FS_Subset, FS_Union
  <2>2. (\A y \in T : f[y] \in Int) /\ (\A y \in T \cup R : f[y] \in Int)
    OBVIOUS
  <2>3. SumFunctionOnSet(f, T \cup {x}) = f[x] + SumFunctionOnSet(f, T)
    BY <2>1, <2>2, SumAdd
  <2>4. SumFunctionOnSet(f, (T \cup R) \cup {x}) = f[x] + SumFunctionOnSet(f, T \cup R)
    BY <2>1, <2>2, SumAdd
  <2>5. (T \cup {x}) \cup R = (T \cup R) \cup {x}
    OBVIOUS
  <2>6. SumFunctionOnSet(f, T) \in Int
    BY <2>1, <2>2, SumIsInt
  <2>7. SumFunctionOnSet(f, T \cup R) = SumFunctionOnSet(f, T) + SumFunctionOnSet(f, R)
    BY <1>2
  <2> HIDE DEF F
  <2>8. ASSUME NEW p \in Int, NEW q \in Int, NEW e \in Int PROVE e + (p + q) = (e + p) + q
    OBVIOUS
  <2>9. SumFunctionOnSet(f, (T \cup {x}) \cup R) = f[x] + (SumFunctionOnSet(f, T) + SumFunctionOnSet(f, R))
    BY <2>4, <2>5, <2>7
  <2>10. SumFunctionOnSet(f, (T \cup {x}) \cup R) = SumFunctionOnSet(f, T \cup {x}) + SumFunctionOnSet(f, R)
    BY <1>0, <2>1, <2>3, <2>6, <2>8, <2>9
  <2>11. QED
    BY <2>10 DEF F
<1> HIDE DEF F
<1>3. S \in F
  BY <1>1, <1>2, SubsetInduction
<1>4. QED
  BY <1>3 DEF F

\* A sum is linear: the sum of a * f - g is a times that of f, less that of g.
LEMMA SumDifference ==
  ASSUME NEW f, NEW g, NEW h, NEW S, IsFiniteSet(S), NEW a \in Int,
         \A x \in S : f[x] \in Int /\ g[x] \in Int /\ h[x] = a * f[x] - g[x]
  PROVE  SumFunctionOnSet(h, S) = a * SumFunctionOnSet(f, S) - SumFunctionOnSet(g, S)
<1> DEFINE F == {T \in SUBSET S : SumFunctionOnSet(h, T) = a * SumFunctionOnSet(f, T) - SumFunctionOnSet(g, T)}
<1>1. {} \in F
  BY SumEmpty
<1>2. ASSUME NEW T \in SUBSET S, NEW x \in S \ T, T \in F PROVE T \cup {x} \in F
  <2>1. IsFiniteSet(T) /\ x \notin T /\ f[x] \in Int /\ g[x] \in Int /\ h[x] = a * f[x] - g[x]
    BY FS_Subset
  <2>2. \A y \in T : f[y] \in Int /\ g[y] \in Int /\ h[y] \in Int
    OBVIOUS
  <2>3. h[x] \in Int
    BY <2>1
  <2>4. /\ SumFunctionOnSet(f, T \cup {x}) = f[x] + SumFunctionOnSet(f, T)
        /\ SumFunctionOnSet(g, T \cup {x}) = g[x] + SumFunctionOnSet(g, T)
        /\ SumFunctionOnSet(h, T \cup {x}) = h[x] + SumFunctionOnSet(h, T)
    BY <2>1, <2>2, <2>3, SumAdd
  <2>5. SumFunctionOnSet(f, T) \in Int /\ SumFunctionOnSet(g, T) \in Int
    BY <2>1, <2>2, SumIsInt
  <2>6. SumFunctionOnSet(h, T) = a * SumFunctionOnSet(f, T) - SumFunctionOnSet(g, T)
    BY <1>2
  <2>7. ASSUME NEW p \in Int, NEW q \in Int, NEW r \in Int, NEW s \in Int
        PROVE  (a * p - q) + (a * r - s) = a * (p + r) - (q + s)
    OBVIOUS
  <2> HIDE DEF F
  <2>8. SumFunctionOnSet(h, T \cup {x}) = a * SumFunctionOnSet(f, T \cup {x}) - SumFunctionOnSet(g, T \cup {x})
    BY <2>1, <2>4, <2>5, <2>6, <2>7
  <2>9. QED
    BY <2>8 DEF F
<1> HIDE DEF F
<1>3. S \in F
  BY <1>1, <1>2, SubsetInduction
<1>4. QED
  BY <1>3 DEF F

\* A sum changes with one of its terms by as much.
LEMMA SumChange ==
  ASSUME NEW f, NEW g, NEW S, IsFiniteSet(S), NEW a \in S, NEW d \in Int, \A x \in S : f[x] \in Int,
         g[a] = d + f[a], \A x \in S \ {a} : g[x] = f[x]
  PROVE  SumFunctionOnSet(g, S) = d + SumFunctionOnSet(f, S)
<1> DEFINE T == S \ {a}
<1>1. IsFiniteSet(T) /\ (\A x \in T : f[x] \in Int /\ g[x] = f[x]) /\ (\A x \in S : g[x] \in Int)
  BY FS_RemoveElement
<1>2. /\ SumFunctionOnSet(f, S) = f[a] + SumFunctionOnSet(f, T)
      /\ SumFunctionOnSet(g, S) = g[a] + SumFunctionOnSet(g, T)
  BY <1>1, SumWithout
<1>3. SumFunctionOnSet(g, T) = SumFunctionOnSet(f, T) /\ SumFunctionOnSet(f, T) \in Int
  BY <1>1, SumSame, SumIsInt
<1> HIDE DEF T
<1>4. QED
  BY <1>2, <1>3

\* A factor of all the terms is one of the sum.
LEMMA SumScaled ==
  ASSUME NEW f, NEW h, NEW S, IsFiniteSet(S), NEW a \in Int,
         \A x \in S : f[x] \in Int /\ h[x] = a * f[x]
  PROVE  SumFunctionOnSet(h, S) = a * SumFunctionOnSet(f, S)
<1> DEFINE F == {T \in SUBSET S : SumFunctionOnSet(h, T) = a * SumFunctionOnSet(f, T)}
<1>1. {} \in F
  BY SumEmpty
<1>2. ASSUME NEW T \in SUBSET S, NEW x \in S \ T, T \in F PROVE T \cup {x} \in F
  <2>1. IsFiniteSet(T) /\ x \notin T /\ f[x] \in Int /\ h[x] = a * f[x]
    BY FS_Subset
  <2>2. \A y \in T : f[y] \in Int /\ h[y] \in Int
    OBVIOUS
  <2>3. h[x] \in Int
    BY <2>1
  <2>4. /\ SumFunctionOnSet(f, T \cup {x}) = f[x] + SumFunctionOnSet(f, T)
        /\ SumFunctionOnSet(h, T \cup {x}) = h[x] + SumFunctionOnSet(h, T)
    BY <2>1, <2>2, <2>3, SumAdd
  <2>5. SumFunctionOnSet(f, T) \in Int
    BY <2>1, <2>2, SumIsInt
  <2>6. SumFunctionOnSet(h, T) = a * SumFunctionOnSet(f, T)
    BY <1>2
  <2>7. ASSUME NEW p \in Int, NEW q \in Int PROVE a * p + a * q = a * (p + q)
    OBVIOUS
  <2> HIDE DEF F
  <2>8. SumFunctionOnSet(h, T \cup {x}) = a * SumFunctionOnSet(f, T \cup {x})
    BY <2>1, <2>4, <2>5, <2>6, <2>7
  <2>9. QED
    BY <2>8 DEF F
<1> HIDE DEF F
<1>3. S \in F
  BY <1>1, <1>2, SubsetInduction
<1>4. QED
  BY <1>3 DEF F

\* A sum of zeros is 0.
LEMMA SumZero ==
  ASSUME NEW f, NEW S, IsFiniteSet(S), \A x \in S : f[x] = 0
  PROVE  SumFunctionOnSet(f, S) = 0
<1> DEFINE F == {T \in SUBSET S : SumFunctionOnSet(f, T) = 0}
<1>1. {} \in F
  BY SumEmpty
<1>2. ASSUME NEW T \in SUBSET S, NEW x \in S \ T, T \in F PROVE T \cup {x} \in F
  <2>1. IsFiniteSet(T) /\ x \notin T /\ f[x] \in Int /\ f[x] = 0 /\ \A y \in T : f[y] \in Int
    BY FS_Subset
  <2>2. SumFunctionOnSet(f, T \cup {x}) = f[x] + SumFunctionOnSet(f, T)
    BY <2>1, SumAdd
  <2>3. QED
    BY <1>2, <2>1, <2>2
<1> HIDE DEF F
<1>3. S \in F
  BY <1>1, <1>2, SubsetInduction
<1>4. QED
  BY <1>3 DEF F

\* A sum may be taken class by class.
LEMMA SumFibers ==
  ASSUME NEW f, NEW S, IsFiniteSet(S), \A x \in S : f[x] \in Int,
         NEW Q, IsFiniteSet(Q), NEW h, \A x \in S : h[x] \in Q
  PROVE  SumFunctionOnSet(f, S) = SumFunctionOnSet([q \in Q |-> SumFunctionOnSet(f, {x \in S : h[x] = q})], Q)
<1> DEFINE Of(T, q) == {x \in T : h[x] = q}
           By(T) == [q \in Q |-> SumFunctionOnSet(f, Of(T, q))]
           F == {T \in SUBSET S : SumFunctionOnSet(f, T) = SumFunctionOnSet(By(T), Q)}
<1>0. ASSUME NEW T \in SUBSET S, NEW q \in Q PROVE IsFiniteSet(Of(T, q)) /\ By(T)[q] \in Int
  <2>1. IsFiniteSet(Of(T, q)) /\ \A x \in Of(T, q) : f[x] \in Int
    BY FS_Subset
  <2>2. QED
    BY <2>1, SumIsInt
<1>1. {} \in F
  <2>1. \A q \in Q : Of({}, q) = {}
    OBVIOUS
  <2>2. \A q \in Q : By({})[q] = 0
    BY <2>1, SumEmpty
  <2> HIDE DEF By
  <2>3. QED
    BY <2>2, SumZero, SumEmpty
<1>2. ASSUME NEW T \in SUBSET S, NEW x \in S \ T, T \in F PROVE T \cup {x} \in F
  <2>1. IsFiniteSet(T) /\ x \notin T /\ f[x] \in Int /\ h[x] \in Q /\ \A y \in T : f[y] \in Int
    BY FS_Subset
  <2>2. SumFunctionOnSet(f, T \cup {x}) = f[x] + SumFunctionOnSet(f, T)
    BY <2>1, SumAdd
  <2>3. Of(T \cup {x}, h[x]) = Of(T, h[x]) \cup {x} /\ x \notin Of(T, h[x])
    BY <2>1
  <2>4. By(T \cup {x})[h[x]] = f[x] + By(T)[h[x]]
    <3>1. \A y \in Of(T, h[x]) : f[y] \in Int
      OBVIOUS
    <3>2. SumFunctionOnSet(f, Of(T, h[x]) \cup {x}) = f[x] + SumFunctionOnSet(f, Of(T, h[x]))
      BY <1>0, <2>1, <2>3, <3>1, SumAdd
    <3>3. QED
      BY <2>1, <2>3, <3>2
  <2>5. \A q \in Q \ {h[x]} : By(T \cup {x})[q] = By(T)[q]
    <3>1. \A q \in Q \ {h[x]} : Of(T \cup {x}, q) = Of(T, q)
      OBVIOUS
    <3>2. QED
      BY <3>1
  <2>6. \A q \in Q : By(T)[q] \in Int
    BY <1>0
  <2>7. SumFunctionOnSet(f, T) = SumFunctionOnSet(By(T), Q)
    BY <1>2
  <2> HIDE DEF By, F
  <2> DEFINE before == By(T)
             after == By(T \cup {x})
  <2>8. /\ h[x] \in Q /\ f[x] \in Int /\ \A q \in Q : before[q] \in Int
        /\ after[h[x]] = f[x] + before[h[x]] /\ \A q \in Q \ {h[x]} : after[q] = before[q]
    BY <2>1, <2>4, <2>5, <2>6
  <2> HIDE DEF before, after
  <2>9. SumFunctionOnSet(after, Q) = f[x] + SumFunctionOnSet(before, Q)
    BY ONLY <2>8, SumChange, IsFiniteSet(Q)
  <2>10. QED
    BY <2>2, <2>7, <2>9 DEF F, before, after
<1> HIDE DEF F
<1>3. S \in F
  BY <1>1, <1>2, SubsetInduction
<1>4. QED
  BY <1>3 DEF F

\* What a function makes of a finite set is finite.
LEMMA ImageFinite == ASSUME NEW S, IsFiniteSet(S), NEW h PROVE IsFiniteSet({h[x] : x \in S})
<1> DEFINE Im(T) == {h[x] : x \in T}
           F == {T \in SUBSET S : IsFiniteSet(Im(T))}
<1>1. {} \in F
  <2>1. Im({}) = {}
    OBVIOUS
  <2>2. QED
    BY <2>1, FS_EmptySet
<1>2. ASSUME NEW T \in SUBSET S, NEW x \in S \ T, T \in F PROVE T \cup {x} \in F
  <2>1. Im(T \cup {x}) = Im(T) \cup {h[x]} /\ IsFiniteSet(Im(T))
    BY <1>2
  <2> HIDE DEF Im
  <2>2. IsFiniteSet(Im(T) \cup {h[x]})
    BY <2>1, FS_AddElement
  <2>3. QED
    BY <2>1, <2>2
<1> HIDE DEF F
<1>3. S \in F
  BY <1>1, <1>2, SubsetInduction
<1>4. QED
  BY <1>3 DEF F

\* A sum over other names of the same terms.
Renames(h, S, R) == /\ \A x \in S : h[x] \in R
                    /\ \A x, y \in S : h[x] = h[y] => x = y
                    /\ \A r \in R : \E x \in S : h[x] = r

LEMMA SumRenamed ==
  ASSUME NEW f, NEW g, NEW S, IsFiniteSet(S), NEW R, NEW h, Renames(h, S, R),
         \A x \in S : g[x] \in Int /\ f[h[x]] = g[x]
  PROVE  IsFiniteSet(R) /\ SumFunctionOnSet(f, R) = SumFunctionOnSet(g, S)
<1> DEFINE Im(T) == {h[x] : x \in T}
           F == {T \in SUBSET S : IsFiniteSet(Im(T)) /\ SumFunctionOnSet(f, Im(T)) = SumFunctionOnSet(g, T)}
<1>1. {} \in F
  <2>1. Im({}) = {}
    OBVIOUS
  <2>2. QED
    BY <2>1, SumEmpty, FS_EmptySet
<1>2. ASSUME NEW T \in SUBSET S, NEW x \in S \ T, T \in F PROVE T \cup {x} \in F
  <2>1. IsFiniteSet(T) /\ x \notin T /\ g[x] \in Int /\ f[h[x]] = g[x] /\ \A y \in T : g[y] \in Int
    BY FS_Subset
  <2>2. SumFunctionOnSet(g, T \cup {x}) = g[x] + SumFunctionOnSet(g, T)
    BY <2>1, SumAdd
  <2>3. Im(T \cup {x}) = Im(T) \cup {h[x]} /\ h[x] \notin Im(T)
    BY DEF Renames
  <2>4. \A z \in Im(T) : f[z] \in Int
    OBVIOUS
  <2>5. IsFiniteSet(Im(T)) /\ SumFunctionOnSet(f, Im(T)) = SumFunctionOnSet(g, T)
    BY <1>2
  <2> HIDE DEF Im, F
  <2>6. SumFunctionOnSet(f, Im(T) \cup {h[x]}) = f[h[x]] + SumFunctionOnSet(f, Im(T))
    BY <2>1, <2>3, <2>4, <2>5, SumAdd
  <2>7. IsFiniteSet(Im(T) \cup {h[x]})
    BY <2>5, FS_AddElement
  <2>8. QED
    BY <2>1, <2>2, <2>3, <2>5, <2>6, <2>7 DEF F
<1> HIDE DEF F
<1>3. S \in F
  BY <1>1, <1>2, SubsetInduction
<1>4. Im(S) = R
  BY DEF Renames
<1>5. QED
  BY <1>3, <1>4 DEF F

\* A sum over pairs, row by row, and the product of two sums.
LEMMA SumRows ==
  ASSUME NEW f, NEW S, NEW T, IsFiniteSet(S), IsFiniteSet(T), \A p \in S \X T : f[p] \in Int
  PROVE  SumFunctionOnSet(f, S \X T)
           = SumFunctionOnSet([x \in S |-> SumFunctionOnSet([y \in T |-> f[<<x, y>>]], T)], S)
<1> DEFINE h == [p \in S \X T |-> p[1]]
           Row(x) == [y \in T |-> f[<<x, y>>]]
           Rows == [x \in S |-> SumFunctionOnSet(Row(x), T)]
           Of(x) == {p \in S \X T : h[p] = x}
           Ofs == [x \in S |-> SumFunctionOnSet(f, Of(x))]
<1>1. IsFiniteSet(S \X T) /\ \A p \in S \X T : h[p] \in S
  BY FS_Product
<1> HIDE DEF h
<1>2. SumFunctionOnSet(f, S \X T) = SumFunctionOnSet(Ofs, S)
  BY <1>1, SumFibers
<1>3. ASSUME NEW x \in S PROVE Ofs[x] = Rows[x]
  <2> DEFINE k == [y \in T |-> <<x, y>>]
  <2>1. \A y \in T : Row(x)[y] \in Int /\ k[y] \in Of(x) /\ f[k[y]] = Row(x)[y]
    BY DEF h
  <2>2. \A y, z \in T : k[y] = k[z] => y = z
    OBVIOUS
  <2>3. \A p \in Of(x) : \E y \in T : k[y] = p
    BY DEF h
  <2> HIDE DEF k, Of, Row
  <2>4. Renames(k, T, Of(x))
    BY <2>1, <2>2, <2>3 DEF Renames
  <2>5. SumFunctionOnSet(f, Of(x)) = SumFunctionOnSet(Row(x), T)
    BY <2>1, <2>4, SumRenamed
  <2>6. QED
    BY <2>5
<1> HIDE DEF Ofs
<1>4. SumFunctionOnSet(Ofs, S) = SumFunctionOnSet(Rows, S)
  <2> HIDE DEF Rows
  <2>1. QED
    BY <1>3, SumSame
<1>5. QED
  BY <1>2, <1>4

\* The sum of the products over all pairs is the product of the sums.
LEMMA SumProduct ==
  ASSUME NEW f, NEW a, NEW b, NEW S, NEW T, IsFiniteSet(S), IsFiniteSet(T),
         \A x \in S : a[x] \in Int, \A y \in T : b[y] \in Int,
         \A x \in S, y \in T : f[<<x, y>>] = a[x] * b[y]
  PROVE  SumFunctionOnSet(f, S \X T) = SumFunctionOnSet(a, S) * SumFunctionOnSet(b, T)
<1> DEFINE Row(x) == [y \in T |-> f[<<x, y>>]]
           Rows == [x \in S |-> SumFunctionOnSet(Row(x), T)]
           all == SumFunctionOnSet(b, T)
<1>1. \A p \in S \X T : f[p] \in Int
  OBVIOUS
<1>2. SumFunctionOnSet(f, S \X T) = SumFunctionOnSet(Rows, S)
  BY <1>1, SumRows
<1>3. all \in Int
  BY SumIsInt
<1>4. ASSUME NEW x \in S PROVE Rows[x] = all * a[x]
  <2>1. a[x] \in Int /\ \A y \in T : b[y] \in Int /\ Row(x)[y] = a[x] * b[y]
    OBVIOUS
  <2> HIDE DEF Row
  <2>2. SumFunctionOnSet(Row(x), T) = a[x] * SumFunctionOnSet(b, T)
    BY <2>1, SumScaled
  <2>3. Rows[x] = a[x] * all
    BY <2>2
  <2> HIDE DEF all
  <2>4. QED
    BY <1>3, <2>1, <2>3
<1> HIDE DEF Rows, all
<1>5. SumFunctionOnSet(Rows, S) = all * SumFunctionOnSet(a, S)
  BY <1>3, <1>4, SumScaled
<1>6. SumFunctionOnSet(a, S) \in Int
  BY SumIsInt
<1> DEFINE sa == SumFunctionOnSet(a, S)
<1> HIDE DEF sa
<1>7. SumFunctionOnSet(Rows, S) = sa * all
  BY <1>3, <1>5, <1>6 DEF sa
<1>8. QED
  BY <1>2, <1>7 DEF sa, all

-----------------------------------------------------------------------------
(* B is the matrix A with its rows and columns added up by mem.              *)
Between(N, mem, a, b) == {p \in N \X N : mem[p[1]] = a /\ mem[p[2]] = b}
Over(N, mem, R) == {p \in N \X N : <<mem[p[1]], mem[p[2]]>> \in R}
Collapses(A, N, mem, B, V) ==
  /\ IsFiniteSet(N) /\ IsFiniteSet(V) /\ \A i \in N : mem[i] \in V
  /\ \A p \in N \X N : A[p] \in Int
  /\ \A a, b \in V : B[<<a, b>>] = SumFunctionOnSet(A, Between(N, mem, a, b))
Row(B, V, a) == [b \in V |-> B[<<a, b>>]]

\* A matrix of integers collapses to one of integers.
LEMMA CollapsedIsInt ==
  ASSUME NEW A, NEW N, NEW mem, NEW B, NEW V, Collapses(A, N, mem, B, V)
  PROVE  \A p \in V \X V : B[p] \in Int
<1> SUFFICES ASSUME NEW a \in V, NEW b \in V PROVE B[<<a, b>>] \in Int
  OBVIOUS
<1>1. IsFiniteSet(N \X N)
  BY FS_Product DEF Collapses
<1>2. IsFiniteSet(Between(N, mem, a, b))
  BY <1>1, FS_Subset DEF Between
<1>3. \A p \in Between(N, mem, a, b) : A[p] \in Int
  BY DEF Between, Collapses
<1>4. SumFunctionOnSet(A, Between(N, mem, a, b)) \in Int
  BY <1>2, <1>3, SumIsInt
<1>5. QED
  BY <1>4 DEF Collapses

\* A sum over pairs of classes is the sum over the pairs they stand for.
LEMMA SumCollapsed ==
  ASSUME NEW A, NEW N, NEW mem, NEW B, NEW V, Collapses(A, N, mem, B, V), NEW R \in SUBSET (V \X V)
  PROVE  SumFunctionOnSet(B, R) = SumFunctionOnSet(A, Over(N, mem, R))
<1> DEFINE h == [p \in N \X N |-> <<mem[p[1]], mem[p[2]]>>]
           D == Over(N, mem, R)
           Of(q) == {p \in D : h[p] = q}
           By == [q \in R |-> SumFunctionOnSet(A, Of(q))]
<1>1. IsFiniteSet(N \X N) /\ IsFiniteSet(R)
  <2>1. IsFiniteSet(N \X N) /\ IsFiniteSet(V \X V)
    BY FS_Product DEF Collapses
  <2>2. QED
    BY <2>1, FS_Subset
<1>2. D \subseteq N \X N
  BY DEF Over
<1>3. IsFiniteSet(D) /\ \A p \in D : A[p] \in Int /\ h[p] \in R
  BY <1>1, <1>2, FS_Subset DEF Over, Collapses
<1>4. SumFunctionOnSet(A, D) = SumFunctionOnSet(By, R)
  <2> HIDE DEF h, D
  <2>1. QED
    BY <1>1, <1>3, SumFibers
<1>5. ASSUME NEW q \in R PROVE By[q] = B[q]
  <2>1. PICK a \in V, b \in V : q = <<a, b>>
    OBVIOUS
  <2>2. Of(q) = Between(N, mem, a, b)
    BY <2>1 DEF Over, Between
  <2>3. QED
    BY <2>1, <2>2 DEF Collapses
<1> HIDE DEF By
<1>6. SumFunctionOnSet(By, R) = SumFunctionOnSet(B, R)
  BY <1>1, <1>5, SumSame
<1>7. QED
  BY <1>4, <1>6

\* The sum over the diagonal, written as one over the nodes.
LEMMA SumDiagonal ==
  ASSUME NEW Z, IsFiniteSet(Z), NEW M, \A x \in Z : M[<<x, x>>] \in Int
  PROVE  SumFunctionOnSet(M, {p \in Z \X Z : p[1] = p[2]}) = SumFunctionOnSet([x \in Z |-> M[<<x, x>>]], Z)
<1> DEFINE Same == {p \in Z \X Z : p[1] = p[2]}
           d == [x \in Z |-> M[<<x, x>>]]
<1> DEFINE h == [x \in Z |-> <<x, x>>]
<1>1. \A x \in Z : d[x] \in Int /\ h[x] \in Same /\ M[h[x]] = d[x]
  OBVIOUS
<1>2. \A x, y \in Z : h[x] = h[y] => x = y
  OBVIOUS
<1>3. \A r \in Same : \E x \in Z : h[x] = r
  <2> SUFFICES ASSUME NEW r \in Same PROVE \E x \in Z : h[x] = r
    OBVIOUS
  <2>1. r[1] \in Z /\ h[r[1]] = r
    OBVIOUS
  <2>2. QED
    BY <2>1
<1> HIDE DEF h, Same, d
<1>4. Renames(h, Z, Same)
  BY <1>1, <1>2, <1>3 DEF Renames
<1>5. SumFunctionOnSet(M, Same) = SumFunctionOnSet(d, Z)
  BY <1>1, <1>4, SumRenamed
<1>6. QED
  BY <1>5 DEF Same, d

\* A symmetric matrix sums to twice what is above its diagonal, and the diagonal.
LEMMA SumTwice ==
  ASSUME NEW Z \in SUBSET Int, IsFiniteSet(Z), NEW M, \A p \in Z \X Z : M[p] \in Int,
         \A x, y \in Z : M[<<x, y>>] = M[<<y, x>>]
  PROVE  SumFunctionOnSet(M, Z \X Z)
           = 2 * SumFunctionOnSet(M, {p \in Z \X Z : p[1] < p[2]}) + SumFunctionOnSet([x \in Z |-> M[<<x, x>>]], Z)
<1> DEFINE Up == {p \in Z \X Z : p[1] < p[2]}
           Down == {p \in Z \X Z : p[1] > p[2]}
           Same == {p \in Z \X Z : p[1] = p[2]}
           d == [x \in Z |-> M[<<x, x>>]]
<1>1. IsFiniteSet(Z \X Z)
  BY FS_Product
<1>2. IsFiniteSet(Up) /\ IsFiniteSet(Down) /\ IsFiniteSet(Same) /\ IsFiniteSet(Up \cup Down)
  <2>1. IsFiniteSet(Up)
    BY <1>1, FS_Subset
  <2>2. IsFiniteSet(Down)
    BY <1>1, FS_Subset
  <2>3. IsFiniteSet(Same)
    BY <1>1, FS_Subset
  <2>4. IsFiniteSet(Up \cup Down)
    BY <2>1, <2>2, FS_Union
  <2>5. QED
    BY <2>1, <2>2, <2>3, <2>4
<1>3. /\ Z \X Z = (Up \cup Down) \cup Same /\ Up \cap Down = {} /\ (Up \cup Down) \cap Same = {}
      /\ (\A p \in Up \cup Down : M[p] \in Int) /\ \A p \in (Up \cup Down) \cup Same : M[p] \in Int
  <2>1. \A p \in Z \X Z : p[1] \in Int /\ p[2] \in Int /\ M[p] \in Int
    OBVIOUS
  <2>2. \A p \in Z \X Z : p[1] < p[2] \/ p[1] > p[2] \/ p[1] = p[2]
    BY <2>1
  <2>3. \A p \in Z \X Z : ~(p[1] < p[2] /\ p[1] > p[2]) /\ ~(p[1] < p[2] /\ p[1] = p[2]) /\ ~(p[1] > p[2] /\ p[1] = p[2])
    BY <2>1
  <2>4. Z \X Z = (Up \cup Down) \cup Same
    BY <2>2
  <2>5. Up \cap Down = {} /\ (Up \cup Down) \cap Same = {}
    BY <2>3
  <2>6. QED
    BY <2>1, <2>4, <2>5
<1>4. SumFunctionOnSet(M, Down) = SumFunctionOnSet(M, Up)
  <2> DEFINE h == [p \in Up |-> <<p[2], p[1]>>]
  <2>1. \A p \in Up : M[p] \in Int /\ h[p] \in Down /\ M[h[p]] = M[p]
    <3> SUFFICES ASSUME NEW p \in Up PROVE M[p] \in Int /\ h[p] \in Down /\ M[h[p]] = M[p]
      OBVIOUS
    <3>1. p \in Z \X Z /\ p[1] < p[2]
      OBVIOUS
    <3> DEFINE q == <<p[2], p[1]>>
    <3>2. q \in Z \X Z /\ q[1] = p[2] /\ q[2] = p[1] /\ p = <<p[1], p[2]>> /\ p[1] \in Z /\ p[2] \in Z
      BY <3>1
    <3>3. h[p] = q
      OBVIOUS
    <3> HIDE DEF q, h
    <3>4. q[1] > q[2] /\ M[p] \in Int
      BY <3>1, <3>2
    <3>5. M[q] = M[p]
      BY <3>2 DEF q
    <3>6. QED
      BY <3>2, <3>3, <3>4, <3>5
  <2>2. \A p, q \in Up : h[p] = h[q] => p = q
    OBVIOUS
  <2>3. \A r \in Down : \E p \in Up : h[p] = r
    <3> SUFFICES ASSUME NEW r \in Down PROVE \E p \in Up : h[p] = r
      OBVIOUS
    <3>1. <<r[2], r[1]>> \in Up /\ h[<<r[2], r[1]>>] = r
      OBVIOUS
    <3>2. QED
      BY <3>1
  <2> HIDE DEF h, Up, Down
  <2>4. Renames(h, Up, Down)
    BY <2>1, <2>2, <2>3 DEF Renames
  <2>5. QED
    BY <1>2, <2>1, <2>4, SumRenamed
<1>5. SumFunctionOnSet(M, Same) = SumFunctionOnSet(d, Z)
  BY SumDiagonal
<1> HIDE DEF Up, Down, Same, d
<1>6. SumFunctionOnSet(M, Z \X Z) = SumFunctionOnSet(M, Up \cup Down) + SumFunctionOnSet(M, Same)
  BY <1>2, <1>3, SumUnion
<1>7. SumFunctionOnSet(M, Up \cup Down) = SumFunctionOnSet(M, Up) + SumFunctionOnSet(M, Down)
  BY <1>2, <1>3, SumUnion
<1>8. SumFunctionOnSet(M, Up) \in Int
  BY <1>2, <1>3, SumIsInt
<1> DEFINE n == SumFunctionOnSet(M, Up)
<1> HIDE DEF n
<1>9. n \in Int /\ SumFunctionOnSet(M, Z \X Z) = (n + n) + SumFunctionOnSet(d, Z)
  BY <1>4, <1>5, <1>6, <1>7, <1>8 DEF n
<1>10. n + n = 2 * n
  BY <1>9
<1>11. QED
  BY <1>9, <1>10 DEF n, Up, d

\* The pairs of one class; a class; its balance; and the balances of all the pairs and of all the classes.
Same(V, group) == {p \in V \X V : group[p[1]] = group[p[2]]}
Class(N, group, g) == {i \in N : group[i] = g}
Within(A, d, m, Z) == m * SumFunctionOnSet(A, Z \X Z) - SumFunctionOnSet(d, Z) * SumFunctionOnSet(d, Z)
Balance(N, A, d, m, B) ==
  /\ IsFiniteSet(N) /\ m \in Int
  /\ (\A p \in N \X N : A[p] \in Int) /\ \A i \in N : d[i] \in Int
  /\ \A p \in N \X N : B[p] = m * A[p] - d[p[1]] * d[p[2]]
ByClass(N, group, A, d, m, G, X) ==
  G = {group[i] : i \in N} /\ \A g \in G : X[g] = Within(A, d, m, Class(N, group, g))

\* The balance within the classes, summed class by class.
LEMMA SumClasses ==
  ASSUME NEW N, NEW A, NEW d, NEW m, NEW B, Balance(N, A, d, m, B),
         NEW group, NEW G, NEW X, ByClass(N, group, A, d, m, G, X)
  PROVE  SumFunctionOnSet(B, Same(N, group)) = SumFunctionOnSet(X, G)
<1> USE DEF Balance, ByClass
<1> DEFINE Zone(g) == {i \in N : group[i] = g}
           All == {p \in N \X N : group[p[1]] = group[p[2]]}
           h == [p \in All |-> group[p[1]]]
           Of(g) == {p \in All : h[p] = g}
           By == [g \in G |-> SumFunctionOnSet(B, Of(g))]
           Q == [g \in G |-> m * SumFunctionOnSet(A, Zone(g) \X Zone(g))
                    - SumFunctionOnSet(d, Zone(g)) * SumFunctionOnSet(d, Zone(g))]
<1>1. IsFiniteSet(All)
  <2>1. IsFiniteSet(N \X N)
    BY FS_Product
  <2>2. QED
    BY <2>1, FS_Subset
<1>2. IsFiniteSet(G)
  BY ImageFinite
<1>3. \A p \in N \X N : B[p] \in Int
  OBVIOUS
<1>4. \A p \in All : B[p] \in Int /\ h[p] \in G
  BY <1>3
<1>5. SumFunctionOnSet(B, All) = SumFunctionOnSet(By, G)
  <2> HIDE DEF All, h
  <2>1. QED
    BY <1>1, <1>2, <1>4, SumFibers
<1>6. ASSUME NEW g \in G PROVE By[g] = Q[g]
  <2> DEFINE Z == Zone(g)
             P == [p \in Z \X Z |-> d[p[1]] * d[p[2]]]
  <2>1. Of(g) = Z \X Z
    OBVIOUS
  <2>2. IsFiniteSet(Z) /\ Z \subseteq N
    BY FS_Subset
  <2> HIDE DEF Zone
  <2>3. IsFiniteSet(Z \X Z)
    BY <2>2, FS_Product
  <2>4. \A p \in Z \X Z : A[p] \in Int /\ P[p] \in Int /\ B[p] = m * A[p] - P[p]
    <3> SUFFICES ASSUME NEW q \in Z \X Z PROVE A[q] \in Int /\ P[q] \in Int /\ B[q] = m * A[q] - P[q]
      OBVIOUS
    <3> DEFINE i == q[1]
               j == q[2]
    <3>0. i \in Z /\ j \in Z /\ q = <<i, j>>
      OBVIOUS
    <3> HIDE DEF i, j
    <3>1. i \in N /\ j \in N /\ q \in N \X N /\ d[i] \in Int /\ d[j] \in Int
      BY <2>2, <3>0
    <3>2. P[q] = d[i] * d[j] /\ B[q] = m * A[q] - d[i] * d[j]
      BY <3>1 DEF i, j
    <3>3. d[i] * d[j] \in Int /\ A[q] \in Int
      BY <3>1
    <3>4. QED
      BY <3>1, <3>2, <3>3
  <2>5. \A i, j \in Z : P[<<i, j>>] = d[i] * d[j]
    OBVIOUS
  <2> HIDE DEF P, Z
  <2>6. SumFunctionOnSet(B, Z \X Z) = m * SumFunctionOnSet(A, Z \X Z) - SumFunctionOnSet(P, Z \X Z)
    BY <2>3, <2>4, SumDifference
  <2>7. SumFunctionOnSet(P, Z \X Z) = SumFunctionOnSet(d, Z) * SumFunctionOnSet(d, Z)
    BY <2>2, <2>5, SumProduct
  <2>8. SumFunctionOnSet(d, Z) \in Int /\ SumFunctionOnSet(A, Z \X Z) \in Int
    BY <2>2, <2>3, <2>4, SumIsInt
  <2> DEFINE sd == SumFunctionOnSet(d, Z)
             sa == SumFunctionOnSet(A, Z \X Z)
  <2> HIDE DEF sd, sa
  <2>9. SumFunctionOnSet(B, Z \X Z) = m * sa - sd * sd
    BY <2>6, <2>7 DEF sa, sd
  <2>10. QED
    BY <2>1, <2>9 DEF sa, sd, Z
<1> HIDE DEF By, Q
<1>7. SumFunctionOnSet(By, G) = SumFunctionOnSet(Q, G)
  <2>1. QED
    BY <1>2, <1>6, SumSame
<1>8. \A g \in G : X[g] = Q[g]
  BY DEF Q, Class, Within
<1>9. SumFunctionOnSet(X, G) = SumFunctionOnSet(Q, G)
  BY <1>2, <1>8, SumSame
<1>10. QED
  BY <1>5, <1>7, <1>9 DEF Same

\* A sum along a row, written as one over the columns.
LEMMA SumRow ==
  ASSUME NEW V, IsFiniteSet(V), NEW a, NEW B, \A b \in V : B[<<a, b>>] \in Int
  PROVE  SumFunctionOnSet(B, {a} \X V) = SumFunctionOnSet(Row(B, V, a), V)
<1> DEFINE h == [b \in V |-> <<a, b>>]
           row == Row(B, V, a)
           Q == {a} \X V
<1>1. \A b \in V : row[b] \in Int /\ h[b] \in Q /\ B[h[b]] = row[b]
  BY DEF Row
<1>2. \A x, y \in V : h[x] = h[y] => x = y
  OBVIOUS
<1>3. \A r \in Q : \E b \in V : h[b] = r
  OBVIOUS
<1> HIDE DEF h, Q, row
<1>4. Renames(h, V, Q)
  BY <1>1, <1>2, <1>3 DEF Renames
<1>5. SumFunctionOnSet(B, Q) = SumFunctionOnSet(row, V)
  BY <1>1, <1>4, SumRenamed
<1>6. QED
  BY <1>5 DEF Q, row

\* The degree of a class is the sum of the degrees in it.
LEMMA DegreeCollapsed ==
  ASSUME NEW A, NEW N, NEW mem, NEW B, NEW V, Collapses(A, N, mem, B, V),
         NEW d, \A i \in N : d[i] = SumFunctionOnSet(Row(A, N, i), N), NEW a \in V
  PROVE  SumFunctionOnSet(Row(B, V, a), V) = SumFunctionOnSet(d, {i \in N : mem[i] = a})
<1> DEFINE R == {a} \X V
           Z == {i \in N : mem[i] = a}
           D == Over(N, mem, R)
           Rows == [i \in Z |-> SumFunctionOnSet([j \in N |-> A[<<i, j>>]], N)]
<1>1. R \in SUBSET (V \X V)
  OBVIOUS
<1>2. SumFunctionOnSet(B, R) = SumFunctionOnSet(A, D)
  <2> HIDE DEF R
  <2>1. QED
    BY <1>1, SumCollapsed
<1>3. SumFunctionOnSet(B, R) = SumFunctionOnSet(Row(B, V, a), V)
  <2>1. \A b \in V : B[<<a, b>>] \in Int
    BY CollapsedIsInt
  <2>2. QED
    BY <2>1, SumRow DEF Collapses
<1>4. D = Z \X N
  BY DEF Over, Collapses
<1>5. IsFiniteSet(Z) /\ IsFiniteSet(N) /\ \A p \in Z \X N : A[p] \in Int
  BY FS_Subset DEF Collapses
<1>6. \A i \in Z : Rows[i] = d[i]
  BY DEF Row
<1> HIDE DEF Z
<1>7. SumFunctionOnSet(A, Z \X N) = SumFunctionOnSet(Rows, Z)
  BY <1>5, SumRows
<1> HIDE DEF Rows
<1>8. SumFunctionOnSet(Rows, Z) = SumFunctionOnSet(d, Z)
  BY <1>5, <1>6, SumSame
<1>9. QED
  BY <1>2, <1>3, <1>4, <1>7, <1>8 DEF Z

\* The excess between two classes is the excess of their weight over the product of their degrees.
LEMMA GainCollapsed ==
  ASSUME NEW N, IsFiniteSet(N), NEW mem, NEW a, NEW b, NEW m \in Int,
         NEW A, \A p \in N \X N : A[p] \in Int, NEW d, \A i \in N : d[i] \in Int,
         NEW B, \A p \in N \X N : B[p] = m * A[p] - d[p[1]] * d[p[2]]
  PROVE  LET Of == Between(N, mem, a, b)
         IN  SumFunctionOnSet(B, Of) = m * SumFunctionOnSet(A, Of)
               - SumFunctionOnSet(d, {i \in N : mem[i] = a}) * SumFunctionOnSet(d, {i \in N : mem[i] = b})
<1> DEFINE Of == Between(N, mem, a, b)
           X == {i \in N : mem[i] = a}
           Y == {i \in N : mem[i] = b}
           P == [p \in X \X Y |-> d[p[1]] * d[p[2]]]
<1>1. Of = X \X Y
  BY DEF Between
<1>2. IsFiniteSet(X) /\ IsFiniteSet(Y) /\ X \subseteq N /\ Y \subseteq N
  BY FS_Subset
<1> HIDE DEF X, Y
<1>3. IsFiniteSet(X \X Y)
  BY <1>2, FS_Product
<1>4. \A p \in X \X Y : A[p] \in Int /\ P[p] \in Int /\ B[p] = m * A[p] - P[p]
  <2> SUFFICES ASSUME NEW q \in X \X Y PROVE A[q] \in Int /\ P[q] \in Int /\ B[q] = m * A[q] - P[q]
    OBVIOUS
  <2> DEFINE i == q[1]
             j == q[2]
  <2>0. i \in X /\ j \in Y /\ q = <<i, j>>
    OBVIOUS
  <2> HIDE DEF i, j
  <2>1. q \in N \X N /\ d[i] \in Int /\ d[j] \in Int
    BY <1>2, <2>0
  <2>2. P[q] = d[i] * d[j] /\ B[q] = m * A[q] - d[i] * d[j]
    BY <2>1 DEF i, j
  <2>3. d[i] * d[j] \in Int /\ A[q] \in Int
    BY <2>1
  <2>4. QED
    BY <2>2, <2>3
<1>5. \A i \in X, j \in Y : P[<<i, j>>] = d[i] * d[j]
  OBVIOUS
<1> HIDE DEF P
<1>6. SumFunctionOnSet(B, X \X Y) = m * SumFunctionOnSet(A, X \X Y) - SumFunctionOnSet(P, X \X Y)
  BY <1>3, <1>4, SumDifference
<1>7. SumFunctionOnSet(P, X \X Y) = SumFunctionOnSet(d, X) * SumFunctionOnSet(d, Y)
  BY <1>2, <1>5, SumProduct
<1>8. QED
  BY <1>1, <1>6, <1>7 DEF X, Y

(* The pairs of one class, and those of them that do not touch u.            *)
Apart(V, group, u) == {p \in Same(V, group) : p[1] # u /\ p[2] # u}

\* The sum within the classes, with what touches u set apart.
LEMMA SumAround ==
  ASSUME NEW V, IsFiniteSet(V), NEW u \in V, NEW group,
         NEW B, \A p \in V \X V : B[p] \in Int, \A v \in V : B[<<v, u>>] = B[<<u, v>>]
  PROVE  SumFunctionOnSet(B, Same(V, group))
           = SumFunctionOnSet(B, Apart(V, group, u)) + B[<<u, u>>]
             + 2 * SumFunctionOnSet(Row(B, V, u), {v \in V \ {u} : group[v] = group[u]})
<1> DEFINE All == {p \in V \X V : group[p[1]] = group[p[2]]}
           Rest == {p \in V \X V : group[p[1]] = group[p[2]] /\ p[1] # u /\ p[2] # u}
           Z == {v \in V \ {u} : group[v] = group[u]}
           row == Row(B, V, u)
           From == {u} \X Z
           To == Z \X {u}
           Self == {<<u, u>>}
<1>1. IsFiniteSet(V \X V)
  BY FS_Product
<1>2. Z \subseteq V /\ IsFiniteSet(Z) /\ \A v \in Z : row[v] \in Int
  BY FS_Subset DEF Row
<1>3. /\ From \subseteq V \X V /\ To \subseteq V \X V /\ Self \subseteq V \X V /\ Rest \subseteq V \X V
      /\ All = ((Rest \cup Self) \cup From) \cup To
      /\ Rest \cap Self = {} /\ (Rest \cup Self) \cap From = {} /\ ((Rest \cup Self) \cup From) \cap To = {}
  <2>1. From \subseteq V \X V /\ To \subseteq V \X V /\ Self \subseteq V \X V /\ Rest \subseteq V \X V
    OBVIOUS
  <2>2. ((Rest \cup Self) \cup From) \cup To \subseteq All
    OBVIOUS
  <2>3. ASSUME NEW p \in All PROVE p \in ((Rest \cup Self) \cup From) \cup To
    <3>1. CASE p[1] # u /\ p[2] # u
      BY <3>1
    <3>2. CASE p[1] = u /\ p[2] = u
      BY <3>2
    <3>3. CASE p[1] = u /\ p[2] # u
      BY <3>3
    <3>4. CASE p[1] # u /\ p[2] = u
      BY <3>4
    <3>5. QED
      BY <3>1, <3>2, <3>3, <3>4
  <2>4. Rest \cap Self = {}
    OBVIOUS
  <2>5. (Rest \cup Self) \cap From = {}
    OBVIOUS
  <2>6. ((Rest \cup Self) \cup From) \cap To = {}
    OBVIOUS
  <2> HIDE DEF All, Rest, Self, From, To
  <2>7. All = ((Rest \cup Self) \cup From) \cup To
    BY <2>2, <2>3
  <2>8. QED
    BY <2>1, <2>4, <2>5, <2>6, <2>7
<1>4. SumFunctionOnSet(B, Self) = B[<<u, u>>]
  BY SumOne
<1>5. SumFunctionOnSet(B, From) = SumFunctionOnSet(row, Z)
  <2> DEFINE part == Row(B, Z, u)
  <2>1. \A v \in Z : B[<<u, v>>] \in Int /\ part[v] = row[v]
    BY <1>2 DEF Row
  <2> HIDE DEF Z, row
  <2>2. SumFunctionOnSet(B, From) = SumFunctionOnSet(part, Z)
    BY <1>2, <2>1, SumRow
  <2> HIDE DEF part
  <2>3. SumFunctionOnSet(part, Z) = SumFunctionOnSet(row, Z)
    BY <1>2, <2>1, SumSame
  <2>4. QED
    BY <2>2, <2>3
<1>6. SumFunctionOnSet(B, To) = SumFunctionOnSet(row, Z)
  <2> DEFINE h == [v \in Z |-> <<v, u>>]
  <2>1. \A v \in Z : row[v] \in Int /\ h[v] \in To /\ B[h[v]] = row[v]
    BY <1>2 DEF Row
  <2>2. \A x, y \in Z : h[x] = h[y] => x = y
    OBVIOUS
  <2>3. \A r \in To : \E v \in Z : h[v] = r
    OBVIOUS
  <2> HIDE DEF h, Z, To, row
  <2>4. Renames(h, Z, To)
    BY <2>1, <2>2, <2>3 DEF Renames
  <2>5. QED
    BY <1>2, <2>1, <2>4, SumRenamed
<1>7. /\ IsFiniteSet(Rest) /\ IsFiniteSet(Self) /\ IsFiniteSet(From) /\ IsFiniteSet(To)
      /\ IsFiniteSet(Rest \cup Self) /\ IsFiniteSet((Rest \cup Self) \cup From)
  <2> HIDE DEF Rest, Self, From, To
  <2>1. IsFiniteSet(Rest) /\ IsFiniteSet(Self) /\ IsFiniteSet(From) /\ IsFiniteSet(To)
    BY <1>1, <1>3, FS_Subset
  <2>2. IsFiniteSet(Rest \cup Self)
    BY <2>1, FS_Union
  <2>3. IsFiniteSet((Rest \cup Self) \cup From)
    BY <2>1, <2>2, FS_Union
  <2>4. QED
    BY <2>1, <2>2, <2>3
<1> HIDE DEF All, Rest, Self, From, To
<1>8. /\ \A p \in Rest \cup Self : B[p] \in Int
      /\ \A p \in (Rest \cup Self) \cup From : B[p] \in Int
      /\ \A p \in ((Rest \cup Self) \cup From) \cup To : B[p] \in Int
  BY <1>3
<1>9. SumFunctionOnSet(B, Rest \cup Self) = SumFunctionOnSet(B, Rest) + SumFunctionOnSet(B, Self)
  BY <1>3, <1>7, <1>8, SumUnion
<1>10. SumFunctionOnSet(B, (Rest \cup Self) \cup From) = SumFunctionOnSet(B, Rest \cup Self) + SumFunctionOnSet(B, From)
  BY <1>3, <1>7, <1>8, SumUnion
<1>11. SumFunctionOnSet(B, All) = SumFunctionOnSet(B, (Rest \cup Self) \cup From) + SumFunctionOnSet(B, To)
  BY <1>3, <1>7, <1>8, SumUnion
<1>12. SumFunctionOnSet(B, Rest) \in Int /\ SumFunctionOnSet(row, Z) \in Int /\ B[<<u, u>>] \in Int
  <2> HIDE DEF Z, row
  <2>1. SumFunctionOnSet(B, Rest) \in Int
    BY <1>7, <1>8, SumIsInt
  <2>2. SumFunctionOnSet(row, Z) \in Int
    BY <1>2, SumIsInt
  <2>3. QED
    BY <2>1, <2>2
<1> DEFINE n == SumFunctionOnSet(row, Z)
           r == SumFunctionOnSet(B, Rest)
<1> HIDE DEF n, r
<1>13. n \in Int /\ r \in Int /\ SumFunctionOnSet(B, All) = r + B[<<u, u>>] + n + n
  BY <1>4, <1>5, <1>6, <1>9, <1>10, <1>11, <1>12 DEF n, r
<1>14. SumFunctionOnSet(B, All) = r + B[<<u, u>>] + 2 * n
  BY <1>12, <1>13
<1>15. All = Same(V, group) /\ Rest = Apart(V, group, u)
  BY DEF All, Rest, Same, Apart
<1>16. QED
  BY <1>14, <1>15 DEF n, r, Z, row

\* What a node moved from its class to another changes in the sum within the classes.
LEMMA MoveGain ==
  ASSUME NEW V, IsFiniteSet(V), NEW u \in V, NEW old, NEW new, new[u] # old[u], \A v \in V \ {u} : new[v] = old[v],
         NEW B, \A p \in V \X V : B[p] \in Int, \A v \in V : B[<<v, u>>] = B[<<u, v>>]
  PROVE  LET row == Row(B, V, u)
         IN  SumFunctionOnSet(B, Same(V, new))
               = SumFunctionOnSet(B, Same(V, old))
                 + 2 * (SumFunctionOnSet(row, {v \in V \ {u} : old[v] = new[u]})
                        - SumFunctionOnSet(row, {v \in V \ {u} : old[v] = old[u]}))
<1> DEFINE row == Row(B, V, u)
           Rest(g) == Apart(V, g, u)
           With(g) == {v \in V \ {u} : g[v] = g[u]}
           There == {v \in V \ {u} : old[v] = new[u]}
<1>1. \A g : SumFunctionOnSet(B, Same(V, g)) = SumFunctionOnSet(B, Rest(g)) + B[<<u, u>>] + 2 * SumFunctionOnSet(row, With(g))
  BY SumAround
<1>2. Rest(new) = Rest(old) /\ With(new) = There
  BY DEF Apart, Same
<1>3. SumFunctionOnSet(B, Rest(old)) \in Int /\ B[<<u, u>>] \in Int
  <2>1. IsFiniteSet(V \X V)
    BY FS_Product
  <2>2. IsFiniteSet(Rest(old)) /\ \A p \in Rest(old) : B[p] \in Int
    BY <2>1, FS_Subset DEF Apart, Same
  <2> HIDE DEF Rest
  <2>3. QED
    BY <2>2, SumIsInt
<1>4. SumFunctionOnSet(row, There) \in Int /\ SumFunctionOnSet(row, With(old)) \in Int
  <2>1. IsFiniteSet(There) /\ IsFiniteSet(With(old))
    BY FS_Subset
  <2>2. (\A v \in There : row[v] \in Int) /\ \A v \in With(old) : row[v] \in Int
    BY DEF Row
  <2> HIDE DEF There, With, row
  <2>3. QED
    BY <2>1, <2>2, SumIsInt
<1> HIDE DEF row, Rest, With, There
<1> DEFINE r == SumFunctionOnSet(B, Rest(old)) + B[<<u, u>>]
           x == SumFunctionOnSet(row, There)
           y == SumFunctionOnSet(row, With(old))
           after == SumFunctionOnSet(B, Same(V, new))
           before == SumFunctionOnSet(B, Same(V, old))
<1>5. after = r + 2 * x /\ before = r + 2 * y /\ r \in Int /\ x \in Int /\ y \in Int
  <2>1. before = r + 2 * y
    BY <1>1
  <2>2. SumFunctionOnSet(B, Same(V, new)) = SumFunctionOnSet(B, Rest(new)) + B[<<u, u>>] + 2 * SumFunctionOnSet(row, With(new))
    BY <1>1
  <2>3. after = r + 2 * x
    BY <1>2, <2>2
  <2>4. QED
    BY <1>3, <1>4, <2>1, <2>3
<1> HIDE DEF r, x, y, after, before
<1>6. after = before + 2 * (x - y)
  BY <1>5
<1>7. QED
  BY <1>6 DEF after, before, x, y, row, With, There

-----------------------------------------------------------------------------
\* A matrix collapses to itself, each node on its own.
LEMMA CollapsesAlone ==
  ASSUME NEW A, NEW N, IsFiniteSet(N), \A p \in N \X N : A[p] \in Int, NEW mem, \A i \in N : mem[i] = i
  PROVE  Collapses(A, N, mem, A, N)
<1>1. ASSUME NEW a \in N, NEW b \in N PROVE A[<<a, b>>] = SumFunctionOnSet(A, Between(N, mem, a, b))
  <2>1. Between(N, mem, a, b) = {<<a, b>>}
    BY DEF Between
  <2>2. A[<<a, b>>] \in Int
    OBVIOUS
  <2>3. QED
    BY <2>1, <2>2, SumOne
<1>2. QED
  BY <1>1 DEF Collapses

\* Collapsing twice is collapsing once.
LEMMA CollapsesTwice ==
  ASSUME NEW A, NEW N, NEW mem, NEW B, NEW V, NEW c, NEW D, NEW U, NEW all,
         Collapses(A, N, mem, B, V), Collapses(B, V, c, D, U), \A i \in N : all[i] = c[mem[i]]
  PROVE  Collapses(A, N, all, D, U)
<1>1. IsFiniteSet(N) /\ IsFiniteSet(U) /\ (\A i \in N : all[i] \in U) /\ \A p \in N \X N : A[p] \in Int
  BY DEF Collapses
<1>2. ASSUME NEW a \in U, NEW b \in U PROVE D[<<a, b>>] = SumFunctionOnSet(A, Between(N, all, a, b))
  <2> DEFINE R == Between(V, c, a, b)
  <2>1. D[<<a, b>>] = SumFunctionOnSet(B, R)
    BY DEF Collapses
  <2>2. R \in SUBSET (V \X V)
    BY DEF Between
  <2>3. SumFunctionOnSet(B, R) = SumFunctionOnSet(A, Over(N, mem, R))
    BY <2>2, SumCollapsed
  <2>4. Over(N, mem, R) = Between(N, all, a, b)
    <3>1. ASSUME NEW p \in N \X N
          PROVE  <<mem[p[1]], mem[p[2]]>> \in R <=> all[p[1]] = a /\ all[p[2]] = b
      <4>1. p[1] \in N /\ p[2] \in N
        OBVIOUS
      <4>2. <<mem[p[1]], mem[p[2]]>> \in V \X V
        BY <4>1 DEF Collapses
      <4>3. QED
        BY <4>1, <4>2 DEF Between
    <3>2. QED
      BY <3>1 DEF Over, Between
  <2>5. QED
    BY <2>1, <2>3, <2>4
<1>3. QED
  BY <1>1, <1>2 DEF Collapses

-----------------------------------------------------------------------------
\* By how much the weight between two nodes exceeds what their degrees let expect.
RowSum(A, N, i) == SumFunctionOnSet(Row(A, N, i), N)
Excess(A, N) == [p \in N \X N |-> SumFunctionOnSet(A, N \X N) * A[p] - RowSum(A, N, p[1]) * RowSum(A, N, p[2])]

\* The excess of a matrix of integers is one of integers.
LEMMA ExcessIsInt ==
  ASSUME NEW A, NEW N, IsFiniteSet(N), \A p \in N \X N : A[p] \in Int
  PROVE  /\ SumFunctionOnSet(A, N \X N) \in Int
         /\ \A i \in N : RowSum(A, N, i) \in Int
         /\ \A p \in N \X N : Excess(A, N)[p] \in Int
<1>1. SumFunctionOnSet(A, N \X N) \in Int
  BY FS_Product, SumIsInt
<1>2. ASSUME NEW i \in N PROVE RowSum(A, N, i) \in Int
  <2>1. \A b \in N : Row(A, N, i)[b] \in Int
    BY DEF Row
  <2>2. QED
    BY <2>1, SumIsInt DEF RowSum
<1>3. ASSUME NEW p \in N \X N PROVE Excess(A, N)[p] \in Int
  <2>1. p[1] \in N /\ p[2] \in N /\ A[p] \in Int
    OBVIOUS
  <2>2. RowSum(A, N, p[1]) \in Int /\ RowSum(A, N, p[2]) \in Int
    BY <1>2, <2>1
  <2>3. Excess(A, N)[p] = SumFunctionOnSet(A, N \X N) * A[p] - RowSum(A, N, p[1]) * RowSum(A, N, p[2])
    BY DEF Excess
  <2>4. ASSUME NEW m \in Int, NEW x \in Int, NEW y \in Int, NEW z \in Int PROVE m * x - y * z \in Int
    OBVIOUS
  <2>5. QED
    BY <1>1, <2>1, <2>2, <2>3, <2>4
<1>4. QED
  BY <1>1, <1>2, <1>3

\* A collapsed matrix has the same total, and its excess is the collapsed excess.
LEMMA ExcessCollapsed ==
  ASSUME NEW A, NEW N, NEW mem, NEW B, NEW V, Collapses(A, N, mem, B, V)
  PROVE  /\ SumFunctionOnSet(B, V \X V) = SumFunctionOnSet(A, N \X N)
         /\ Collapses(Excess(A, N), N, mem, Excess(B, V), V)
<1> DEFINE m == SumFunctionOnSet(A, N \X N)
           d == [i \in N |-> RowSum(A, N, i)]
           E == Excess(A, N)
<1>1. /\ IsFiniteSet(N) /\ IsFiniteSet(V) /\ (\A i \in N : mem[i] \in V)
      /\ \A p \in N \X N : A[p] \in Int
  BY DEF Collapses
<1>2. SumFunctionOnSet(B, V \X V) = m
  <2>1. Over(N, mem, V \X V) = N \X N
    BY <1>1 DEF Over
  <2>2. V \X V \in SUBSET (V \X V)
    OBVIOUS
  <2>3. SumFunctionOnSet(B, V \X V) = SumFunctionOnSet(A, Over(N, mem, V \X V))
    BY <2>2, SumCollapsed
  <2>4. QED
    BY <2>1, <2>3
<1>3. m \in Int /\ (\A i \in N : d[i] \in Int) /\ \A p \in N \X N : E[p] \in Int
  BY <1>1, ExcessIsInt
<1>4. \A p \in N \X N : E[p] = m * A[p] - d[p[1]] * d[p[2]]
  BY DEF Excess
<1>5. \A i \in N : d[i] = SumFunctionOnSet(Row(A, N, i), N)
  BY DEF RowSum
<1> HIDE DEF m, d, E
<1>6. ASSUME NEW a \in V, NEW b \in V
      PROVE  Excess(B, V)[<<a, b>>] = SumFunctionOnSet(E, Between(N, mem, a, b))
  <2> DEFINE X == SumFunctionOnSet(d, {i \in N : mem[i] = a})
             Y == SumFunctionOnSet(d, {i \in N : mem[i] = b})
             Of == Between(N, mem, a, b)
  <2>1. RowSum(B, V, a) = X /\ RowSum(B, V, b) = Y
    BY <1>5, DegreeCollapsed DEF RowSum
  <2>2. SumFunctionOnSet(E, Of) = m * SumFunctionOnSet(A, Of) - X * Y
    BY <1>1, <1>3, <1>4, GainCollapsed
  <2>3. B[<<a, b>>] = SumFunctionOnSet(A, Of)
    BY DEF Collapses
  <2>4. Excess(B, V)[<<a, b>>] = SumFunctionOnSet(B, V \X V) * B[<<a, b>>] - RowSum(B, V, a) * RowSum(B, V, b)
    BY DEF Excess
  <2>5. QED
    BY <1>2, <2>1, <2>2, <2>3, <2>4
<1>7. Collapses(E, N, mem, Excess(B, V), V)
  BY <1>1, <1>3, <1>6 DEF Collapses
<1>8. QED
  BY <1>2, <1>7 DEF m, E

\* A class of the nodes of a level is one of those they stand for.
LEMMA ClassesCollapsed ==
  ASSUME NEW A, NEW N, NEW mem, NEW B, NEW V, Collapses(A, N, mem, B, V), NEW c, NEW all,
         \A i \in N : all[i] = c[mem[i]]
  PROVE  SumFunctionOnSet(A, Same(N, all)) = SumFunctionOnSet(B, Same(V, c))
<1>1. Same(V, c) \in SUBSET (V \X V)
  BY DEF Same
<1>2. Over(N, mem, Same(V, c)) = Same(N, all)
  <2>1. ASSUME NEW p \in N \X N
        PROVE  <<mem[p[1]], mem[p[2]]>> \in Same(V, c) <=> all[p[1]] = all[p[2]]
    <3>1. p[1] \in N /\ p[2] \in N
      OBVIOUS
    <3>2. <<mem[p[1]], mem[p[2]]>> \in V \X V
      BY <3>1 DEF Collapses
    <3>3. QED
      BY <3>1, <3>2 DEF Same
  <2>2. QED
    BY <2>1 DEF Over, Same
<1>3. QED
  BY <1>1, <1>2, SumCollapsed

\* Among finitely many, one is greatest.
LEMMA HasGreatest ==
  ASSUME NEW S, IsFiniteSet(S), S # {}, NEW f, \A x \in S : f[x] \in Int
  PROVE  \E x \in S : \A y \in S : f[y] <= f[x]
<1> DEFINE F == {T \in SUBSET S : T # {} => \E x \in T : \A y \in T : f[y] <= f[x]}
<1>1. {} \in F
  OBVIOUS
<1>2. ASSUME NEW T \in SUBSET S, NEW x \in S \ T, T \in F PROVE T \cup {x} \in F
  <2>1. CASE T = {}
    <3>1. f[x] <= f[x]
      OBVIOUS
    <3>2. QED
      BY <2>1, <3>1
  <2>2. CASE T # {}
    <3>1. PICK t \in T : \A y \in T : f[y] <= f[t]
      BY <1>2, <2>2
    <3>2. CASE f[x] <= f[t]
      <4>1. \A y \in T \cup {x} : f[y] <= f[t]
        BY <3>1, <3>2
      <4>2. QED
        BY <4>1
    <3>3. CASE ~(f[x] <= f[t])
      <4>1. \A y \in T \cup {x} : f[y] <= f[x]
        BY <3>1, <3>3
      <4>2. QED
        BY <4>1
    <3>4. QED
      BY <3>2, <3>3
  <2>3. QED
    BY <2>1, <2>2
<1> HIDE DEF F
<1>3. S \in F
  BY <1>1, <1>2, SubsetInduction
<1>4. QED
  BY <1>3 DEF F

=============================================================================
