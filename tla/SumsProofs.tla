----------------------------- MODULE SumsProofs -----------------------------
(***************************************************************************)
(* Induction over finite sets and natural numbers, stated about sets where *)
(* the library's theorems are about operators, and the facts about sums    *)
(* that follow from it.                                                    *)
(***************************************************************************)
EXTENDS Sums, FiniteSetTheorems, WellFoundedInduction, TLAPS

(* A finite set belongs to W when every subset of it belongs to W as soon  *)
(* as the smaller ones do: otherwise WFMin yields a smallest one that does *)
(* not.                                                                    *)
LEMMA SubsetInduction ==
    ASSUME NEW S, IsFiniteSet(S), NEW W,
           \A T \in SUBSET S : (\A U \in SUBSET T : U # T => U \in W) => T \in W
    PROVE  S \in W
<1> DEFINE Bad == {T \in SUBSET S : T \notin W}
<1> SUFFICES ASSUME Bad # {}  PROVE FALSE
  OBVIOUS
<1>1. Bad \subseteq FiniteSubsetsOf(S)
  BY FS_FiniteSubsetsOfFinite
<1>2. PICK T \in Bad : \A U \in Bad : ~ (<<U, T>> \in StrictSubsetOrdering(S))
  <2>1. IsWellFoundedOn(StrictSubsetOrdering(S), FiniteSubsetsOf(S))
    BY FS_StrictSubsetOrderingWellFounded
  <2> HIDE DEF Bad
  <2> QED  BY <1>1, <2>1, WFMin
<1>3. ASSUME NEW U \in SUBSET T, U # T  PROVE U \in W
  BY <1>2, <1>3 DEF StrictSubsetOrdering
<1> QED  BY <1>2, <1>3

(* The same, one element at a time.                                        *)
LEMMA ElementInduction ==
    ASSUME NEW S, IsFiniteSet(S), NEW W, {} \in W,
           \A T \in SUBSET S : \A x \in S \ T : T \in W => T \union {x} \in W
    PROVE  S \in W
<1>1. ASSUME NEW T \in SUBSET S, \A U \in SUBSET T : U # T => U \in W
      PROVE  T \in W
  <2>1. ASSUME NEW x \in T  PROVE T \in W
    <3>1. T \ {x} \in W
      BY <1>1
    <3>2. (T \ {x}) \union {x} = T
      OBVIOUS
    <3> QED  BY <3>1, <3>2
  <2> QED  BY <2>1
<1> QED  BY <1>1, SubsetInduction

(* A set with zero and with the successors of its naturals has all         *)
(* naturals.                                                               *)
LEMMA NatSetInduction ==
    ASSUME NEW W, 0 \in W, \A n \in Nat : n \in W => n + 1 \in W
    PROVE  Nat \subseteq W
<1> SUFFICES ASSUME NEW m \in Nat  PROVE m \in W
  OBVIOUS
<1> DEFINE V == {T \in SUBSET (0..m) : \A k \in 0..m : T = 0..k => k \in W}
<1>1. IsFiniteSet(0..m)
  BY FS_Interval
<1>2. ASSUME NEW T \in SUBSET (0..m), \A U \in SUBSET T : U # T => U \in V
      PROVE  T \in V
  <2> SUFFICES ASSUME NEW k \in 0..m, T = 0..k, k # 0  PROVE k \in W
    OBVIOUS
  <2>1. 0..(k-1) \in SUBSET T /\ 0..(k-1) # T
    OBVIOUS
  <2>2. 0..(k-1) \in V
    <3> HIDE DEF V
    <3> QED  BY <1>2, <2>1
  <2>3. k - 1 \in 0..m
    OBVIOUS
  <2>4. k - 1 \in W
    BY <2>2, <2>3
  <2> QED  BY <2>4
<1>3. 0..m \in V
  <2> DEFINE I == 0..m
  <2>1. \A T \in SUBSET I : (\A U \in SUBSET T : U # T => U \in V) => T \in V
    BY <1>2
  <2>2. IsFiniteSet(I)
    BY <1>1
  <2> HIDE DEF V, I
  <2>3. I \in V
    BY <2>1, <2>2, SubsetInduction
  <2> QED  BY <2>3 DEF I
<1> QED  BY <1>3

(* A least element, for a set of natural numbers that has one at all.      *)
LEMMA LeastNat ==
    ASSUME NEW W \in SUBSET Nat, W # {}
    PROVE  \E n \in W : \A m \in W : n <= m
<1> DEFINE V == {n \in Nat : \A m \in W : n <= m}
<1> SUFFICES ASSUME \A n \in W : \E m \in W : ~(n <= m)  PROVE FALSE
  OBVIOUS
<1>1. 0 \in V
  OBVIOUS
<1>2. ASSUME NEW n \in Nat, n \in V  PROVE n + 1 \in V
  BY <1>2
<1>3. Nat \subseteq V
  <2> HIDE DEF V
  <2> QED  BY <1>1, <1>2, NatSetInduction
<1>4. PICK n \in W : TRUE
  OBVIOUS
<1>5. n + 1 \in V
  BY <1>3, <1>4
<1> QED  BY <1>4, <1>5

-----------------------------------------------------------------------------
(* MapThenSumSet, unfolded: the recursive function behind it exists.       *)

AnyOf(s)          == CHOOSE x \in s : TRUE
SumStep(f, g, s)  == IF s = {} THEN 0 ELSE f[AnyOf(s)] + g[s \ {AnyOf(s)}]
IsSums(f, g, S)   == g = [s \in SUBSET S |-> SumStep(f, g, s)]
SumsOf(f, S)      == CHOOSE g : IsSums(f, g, S)

(* A sum is the value at S of the recursive function behind it.            *)
LEMMA SumUnfolded ==
    ASSUME NEW f, NEW S
    PROVE  SumOver(f, S) = SumsOf(f, S)[S]
BY DEF SumOver, MapThenSumSet, MapThenFoldSet, SumsOf, IsSums, SumStep, AnyOf

(* The element chosen from a nonempty set is in it.                        *)
LEMMA AnyOfIn ==
    ASSUME NEW s, s # {}
    PROVE  AnyOf(s) \in s
BY DEF AnyOf

(* By induction on the number of elements.                                 *)
LEMMA SumsExist ==
    ASSUME NEW f, NEW S, IsFiniteSet(S)
    PROVE  \A s \in SUBSET S : SumsOf(f, S)[s] = SumStep(f, SumsOf(f, S), s)
<1> DEFINE UpTo(g, n) == /\ g = [s \in SUBSET S |-> g[s]]
                         /\ \A s \in SUBSET S : Cardinality(s) <= n => g[s] = SumStep(f, g, s)
           W == {n \in Nat : \E g : UpTo(g, n)}
<1>0. \A s \in SUBSET S : Cardinality(s) \in Nat /\ IsFiniteSet(s)
  BY FS_Subset, FS_CardinalityType
<1>1. 0 \in W
  <2> DEFINE g == [s \in SUBSET S |-> 0]
  <2>1. ASSUME NEW s \in SUBSET S, Cardinality(s) <= 0  PROVE g[s] = SumStep(f, g, s)
    <3>1. s = {}
      BY <1>0, <2>1, FS_EmptySet
    <3> QED  BY <3>1 DEF SumStep
  <2>2. UpTo(g, 0)
    BY <2>1
  <2> QED  BY <2>2
<1>2. ASSUME NEW n \in Nat, n \in W  PROVE n + 1 \in W
  <2>1. PICK g : UpTo(g, n)
    BY <1>2
  <2> DEFINE h == [s \in SUBSET S |-> IF Cardinality(s) <= n THEN g[s] ELSE SumStep(f, g, s)]
  <2>2. ASSUME NEW s \in SUBSET S, Cardinality(s) <= n + 1  PROVE h[s] = SumStep(f, g, s)
    BY <1>0, <2>1, <2>2
  <2>3. ASSUME NEW s \in SUBSET S, Cardinality(s) <= n + 1
        PROVE  SumStep(f, g, s) = SumStep(f, h, s)
    <3>1. CASE s = {}
      BY <3>1 DEF SumStep
    <3>2. CASE s # {}
      <4> DEFINE t == s \ {AnyOf(s)}
      <4>1. AnyOf(s) \in s
        BY <3>2, AnyOfIn
      <4>2. t \in SUBSET S /\ Cardinality(t) <= n
        BY <4>1, <2>3, <1>0, FS_RemoveElement
      <4>3. h[t] = g[t]
        BY <4>2
      <4> QED  BY <3>2, <4>3 DEF SumStep
    <3> QED  BY <3>1, <3>2
  <2>4. UpTo(h, n + 1)
    BY <2>2, <2>3
  <2> HIDE DEF h, UpTo
  <2> QED  BY <2>4
<1>3. Cardinality(S) \in W
  <2>1. Nat \subseteq W
    <3> HIDE DEF W
    <3> QED  BY <1>1, <1>2, NatSetInduction
  <2> QED  BY <2>1, FS_CardinalityType
<1>4. PICK g : UpTo(g, Cardinality(S))
  BY <1>3
<1>5. IsSums(f, g, S)
  <2>1. \A s \in SUBSET S : g[s] = SumStep(f, g, s)
    BY <1>4, FS_Subset
  <2> QED  BY <1>4, <2>1 DEF IsSums
<1>6. IsSums(f, SumsOf(f, S), S)
  BY <1>5 DEF SumsOf
<1> DEFINE G == SumsOf(f, S)
<1>7. G = [s \in SUBSET S |-> SumStep(f, G, s)]
  BY <1>6 DEF IsSums
<1> HIDE DEF G
<1>8. \A s \in SUBSET S : G[s] = SumStep(f, G, s)
  BY <1>7
<1> QED  BY <1>8 DEF G

(* The function for a subset is the function for the set, restricted.      *)
LEMMA SumsRestrict ==
    ASSUME NEW f, NEW S, IsFiniteSet(S), NEW T \in SUBSET S
    PROVE  SumsOf(f, S)[T] = SumOver(f, T)
<1> DEFINE G == SumsOf(f, S)
           H == SumsOf(f, T)
           W == {U \in SUBSET T : G[U] = H[U]}
<1>1. IsFiniteSet(T)
  BY FS_Subset
<1>2. \A s \in SUBSET S : G[s] = SumStep(f, G, s)
  BY SumsExist
<1>3. \A s \in SUBSET T : H[s] = SumStep(f, H, s)
  BY <1>1, SumsExist
<1>4. ASSUME NEW U \in SUBSET T, \A V \in SUBSET U : V # U => V \in W
      PROVE  U \in W
  <2> HIDE DEF G, H
  <2>1. CASE U = {}
    BY <1>2, <1>3, <2>1 DEF SumStep
  <2>2. CASE U # {}
    <3>1. U \ {AnyOf(U)} \in W
      BY <1>4, <2>2, AnyOfIn
    <3> QED  BY <1>2, <1>3, <2>2, <3>1 DEF SumStep
  <2> QED  BY <2>1, <2>2
<1>5. T \in W
  <2> HIDE DEF W
  <2> QED  BY <1>1, <1>4, SubsetInduction
<1> QED  BY <1>5, SumUnfolded

(* Nothing adds up to zero.                                                *)
LEMMA SumEmpty == \A f : SumOver(f, {}) = 0
<1> TAKE f
<1>1. SumsOf(f, {})[{}] = SumStep(f, SumsOf(f, {}), {})
  BY SumsExist, FS_EmptySet
<1> QED  BY <1>1, SumUnfolded DEF SumStep

(* A sum over a nonempty set is one of its values and the sum of the       *)
(* others.                                                                 *)
LEMMA SumNonempty ==
    ASSUME NEW f, NEW S, IsFiniteSet(S), S # {}
    PROVE  \E x \in S : SumOver(f, S) = f[x] + SumOver(f, S \ {x})
<1>1. SumsOf(f, S)[S] = SumStep(f, SumsOf(f, S), S)
  BY SumsExist
<1>2. AnyOf(S) \in S
  BY AnyOfIn
<1>3. SumsOf(f, S)[S \ {AnyOf(S)}] = SumOver(f, S \ {AnyOf(S)})
  BY SumsRestrict
<1> QED  BY <1>1, <1>2, <1>3, SumUnfolded DEF SumStep

-----------------------------------------------------------------------------
(* Sums of integers. *)

IntOn(f, S) == \A x \in S : f[x] \in Int

(* A sum of integers is an integer.                                        *)
LEMMA SumInt ==
    ASSUME NEW f, NEW S, IsFiniteSet(S), IntOn(f, S)
    PROVE  SumOver(f, S) \in Int
<1> DEFINE W == {T \in SUBSET S : SumOver(f, T) \in Int}
<1>1. ASSUME NEW T \in SUBSET S, \A U \in SUBSET T : U # T => U \in W
      PROVE  T \in W
  <2>1. CASE T = {}
    BY <2>1, SumEmpty
  <2>2. CASE T # {}
    <3>1. PICK x \in T : SumOver(f, T) = f[x] + SumOver(f, T \ {x})
      BY <2>2, SumNonempty, FS_Subset
    <3>2. T \ {x} \in W
      BY <1>1
    <3> QED  BY <3>1, <3>2 DEF IntOn
  <2> QED  BY <2>1, <2>2
<1>2. S \in W
  <2> HIDE DEF W
  <2> QED  BY <1>1, SubsetInduction
<1> QED  BY <1>2

(* The order in which elements are added does not matter.                  *)
LEMMA SumRemove ==
    ASSUME NEW f, NEW S, IsFiniteSet(S), IntOn(f, S), NEW x \in S
    PROVE  SumOver(f, S) = f[x] + SumOver(f, S \ {x})
<1> DEFINE W == {T \in SUBSET S : \A y \in T : SumOver(f, T) = f[y] + SumOver(f, T \ {y})}
<1>0. \A T \in SUBSET S : SumOver(f, T) \in Int
  BY SumInt, FS_Subset DEF IntOn
<1>1. ASSUME NEW T \in SUBSET S, \A U \in SUBSET T : U # T => U \in W
      PROVE  T \in W
  <2> SUFFICES ASSUME NEW y \in T  PROVE SumOver(f, T) = f[y] + SumOver(f, T \ {y})
    OBVIOUS
  <2>1. PICK z \in T : SumOver(f, T) = f[z] + SumOver(f, T \ {z})
    BY SumNonempty, FS_Subset
  <2>2. CASE y # z
    <3> DEFINE rest == SumOver(f, (T \ {y}) \ {z})
    <3>1. (T \ {z}) \ {y} = (T \ {y}) \ {z}
      OBVIOUS
    <3>2. SumOver(f, T \ {z}) = f[y] + rest
      BY <1>1, <2>2, <3>1
    <3>3. SumOver(f, T \ {y}) = f[z] + rest
      BY <1>1, <2>2
    <3>4. rest \in Int /\ f[y] \in Int /\ f[z] \in Int
      BY <1>0 DEF IntOn
    <3> HIDE DEF W, rest
    <3> QED  BY <2>1, <3>2, <3>3, <3>4
  <2> QED  BY <2>1, <2>2
<1>2. S \in W
  <2> HIDE DEF W
  <2> QED  BY <1>1, SubsetInduction
<1> QED  BY <1>2

(* Adding an element adds its value.                                       *)
LEMMA SumAdd ==
    ASSUME NEW f, NEW S, IsFiniteSet(S), NEW x, x \notin S, IntOn(f, S \union {x})
    PROVE  SumOver(f, S \union {x}) = f[x] + SumOver(f, S)
<1>1. IsFiniteSet(S \union {x}) /\ (S \union {x}) \ {x} = S
  BY FS_AddElement
<1> QED  BY <1>1, SumRemove

(* Only the values on the set matter.                                      *)
LEMMA SumSame ==
    ASSUME NEW f, NEW g, NEW S, IsFiniteSet(S), \A x \in S : f[x] = g[x]
    PROVE  SumOver(f, S) = SumOver(g, S)
<1> DEFINE W == {T \in SUBSET S : SumOver(f, T) = SumOver(g, T)}
<1>1. ASSUME NEW T \in SUBSET S, \A U \in SUBSET T : U # T => U \in W
      PROVE  T \in W
  <2>1. CASE T = {}
    BY <2>1, SumEmpty
  <2>2. CASE T # {}
    <3>1. IsFiniteSet(T)
      BY FS_Subset
    <3>2. AnyOf(T) \in T
      BY <2>2, AnyOfIn
    <3>3. /\ SumOver(f, T) = f[AnyOf(T)] + SumOver(f, T \ {AnyOf(T)})
          /\ SumOver(g, T) = g[AnyOf(T)] + SumOver(g, T \ {AnyOf(T)})
      <4>1. ASSUME NEW h  PROVE SumOver(h, T) = h[AnyOf(T)] + SumOver(h, T \ {AnyOf(T)})
        <5>1. SumsOf(h, T)[T] = SumStep(h, SumsOf(h, T), T)
          BY <3>1, SumsExist
        <5>2. SumsOf(h, T)[T \ {AnyOf(T)}] = SumOver(h, T \ {AnyOf(T)})
          BY <3>1, SumsRestrict
        <5> QED  BY <2>2, <5>1, <5>2, SumUnfolded DEF SumStep
      <4> QED  BY <4>1
    <3>4. T \ {AnyOf(T)} \in W
      BY <1>1, <3>2
    <3> QED  BY <3>2, <3>3, <3>4
  <2> QED  BY <2>1, <2>2
<1>2. S \in W
  <2> HIDE DEF W
  <2> QED  BY <1>1, SubsetInduction
<1> QED  BY <1>2

(* One value changes.                                                      *)
LEMMA SumUpdate ==
    ASSUME NEW f, NEW g, NEW S, IsFiniteSet(S), IntOn(f, S), IntOn(g, S), NEW x \in S,
           \A y \in S : y # x => g[y] = f[y]
    PROVE  SumOver(g, S) = SumOver(f, S) - f[x] + g[x]
<1>1. IsFiniteSet(S \ {x})
  BY FS_RemoveElement
<1>2. SumOver(f, S \ {x}) = SumOver(g, S \ {x})
  BY <1>1, SumSame
<1>3. SumOver(f, S \ {x}) \in Int
  BY <1>1, SumInt DEF IntOn
<1>4. /\ SumOver(f, S) = f[x] + SumOver(f, S \ {x})
      /\ SumOver(g, S) = g[x] + SumOver(g, S \ {x})
  BY SumRemove
<1>5. f[x] \in Int /\ g[x] \in Int
  BY DEF IntOn
<1> QED  BY <1>2, <1>3, <1>4, <1>5

(* Larger values have a larger sum.                                        *)
LEMMA SumLeq ==
    ASSUME NEW f, NEW g, NEW S, IsFiniteSet(S), IntOn(f, S), IntOn(g, S),
           \A x \in S : f[x] <= g[x]
    PROVE  SumOver(f, S) <= SumOver(g, S)
<1> DEFINE W == {T \in SUBSET S : SumOver(f, T) <= SumOver(g, T)}
<1>1. {} \in W
  BY SumEmpty
<1>2. ASSUME NEW T \in SUBSET S, NEW x \in S \ T, T \in W  PROVE T \union {x} \in W
  <2>1. IsFiniteSet(T)
    BY FS_Subset
  <2>2. /\ SumOver(f, T \union {x}) = f[x] + SumOver(f, T)
        /\ SumOver(g, T \union {x}) = g[x] + SumOver(g, T)
    BY <2>1, SumAdd DEF IntOn
  <2>3. SumOver(f, T) \in Int /\ SumOver(g, T) \in Int /\ f[x] \in Int /\ g[x] \in Int
    BY <2>1, SumInt DEF IntOn
  <2> QED  BY <1>2, <2>2, <2>3
<1>3. S \in W
  <2> HIDE DEF W
  <2> QED  BY <1>1, <1>2, ElementInduction
<1> QED  BY <1>3

(* Zeros add up to zero.                                                   *)
LEMMA SumZero ==
    ASSUME NEW f, NEW S, IsFiniteSet(S), \A x \in S : f[x] = 0
    PROVE  SumOver(f, S) = 0
<1> DEFINE W == {T \in SUBSET S : SumOver(f, T) = 0}
<1>1. {} \in W
  BY SumEmpty
<1>2. ASSUME NEW T \in SUBSET S, NEW x \in S \ T, T \in W  PROVE T \union {x} \in W
  <2>1. IsFiniteSet(T) /\ IntOn(f, T \union {x})
    BY FS_Subset DEF IntOn
  <2>2. SumOver(f, T \union {x}) = f[x] + SumOver(f, T)
    BY <2>1, SumAdd
  <2> QED  BY <1>2, <2>2
<1>3. S \in W
  <2> HIDE DEF W
  <2> QED  BY <1>1, <1>2, ElementInduction
<1> QED  BY <1>3

(* A sum of naturals is a natural.                                         *)
LEMMA SumNat ==
    ASSUME NEW f, NEW S, IsFiniteSet(S), \A x \in S : f[x] \in Nat
    PROVE  SumOver(f, S) \in Nat
<1> DEFINE z == [x \in S |-> 0]
<1>1. IntOn(z, S) /\ IntOn(f, S) /\ (\A x \in S : z[x] = 0) /\ (\A x \in S : z[x] <= f[x])
  BY DEF IntOn
<1> HIDE DEF z
<1>2. SumOver(z, S) = 0 /\ SumOver(z, S) <= SumOver(f, S) /\ SumOver(f, S) \in Int
  BY <1>1, SumZero, SumLeq, SumInt
<1> QED  BY <1>2

(* Sums add up value by value ...                                          *)
LEMMA SumPlus ==
    ASSUME NEW f, NEW g, NEW h, NEW S, IsFiniteSet(S), IntOn(f, S), IntOn(g, S),
           \A x \in S : h[x] = f[x] + g[x]
    PROVE  SumOver(h, S) = SumOver(f, S) + SumOver(g, S)
<1> DEFINE W == {T \in SUBSET S : SumOver(h, T) = SumOver(f, T) + SumOver(g, T)}
<1>0. IntOn(h, S)
  BY DEF IntOn
<1>1. {} \in W
  BY SumEmpty
<1>2. ASSUME NEW T \in SUBSET S, NEW x \in S \ T, T \in W  PROVE T \union {x} \in W
  <2>1. IsFiniteSet(T)
    BY FS_Subset
  <2>2. /\ SumOver(f, T \union {x}) = f[x] + SumOver(f, T)
        /\ SumOver(g, T \union {x}) = g[x] + SumOver(g, T)
        /\ SumOver(h, T \union {x}) = h[x] + SumOver(h, T)
    BY <1>0, <2>1, SumAdd DEF IntOn
  <2>3. SumOver(f, T) \in Int /\ SumOver(g, T) \in Int /\ f[x] \in Int /\ g[x] \in Int
    BY <2>1, SumInt DEF IntOn
  <2> QED  BY <1>2, <2>2, <2>3
<1>3. S \in W
  <2> HIDE DEF W
  <2> QED  BY <1>1, <1>2, ElementInduction
<1> QED  BY <1>3

(* ... set by set ...                                                      *)
LEMMA SumUnion ==
    ASSUME NEW f, NEW S, NEW R, IsFiniteSet(S), IsFiniteSet(R), S \intersect R = {},
           IntOn(f, S \union R)
    PROVE  SumOver(f, S \union R) = SumOver(f, S) + SumOver(f, R)
<1> DEFINE W == {T \in SUBSET S : SumOver(f, T \union R) = SumOver(f, T) + SumOver(f, R)}
<1>0. SumOver(f, R) \in Int
  BY SumInt DEF IntOn
<1>1. {} \in W
  <2>1. {} \union R = R
    OBVIOUS
  <2> QED  BY <1>0, <2>1, SumEmpty
<1>2. ASSUME NEW T \in SUBSET S, NEW x \in S \ T, T \in W  PROVE T \union {x} \in W
  <2>1. IsFiniteSet(T) /\ IsFiniteSet(T \union R)
    BY FS_Subset, FS_Union
  <2>2. x \notin T \union R /\ (T \union {x}) \union R = (T \union R) \union {x}
    OBVIOUS
  <2>3. /\ SumOver(f, T \union {x}) = f[x] + SumOver(f, T)
        /\ SumOver(f, (T \union R) \union {x}) = f[x] + SumOver(f, T \union R)
    BY <2>1, <2>2, SumAdd DEF IntOn
  <2>4. SumOver(f, T) \in Int /\ f[x] \in Int
    BY <2>1, SumInt DEF IntOn
  <2>5. SumOver(f, T \union R) = SumOver(f, T) + SumOver(f, R)
    BY <1>2
  <2>6. SumOver(f, (T \union R) \union {x}) = SumOver(f, T \union {x}) + SumOver(f, R)
    <3> HIDE DEF W
    <3> QED  BY <1>0, <2>3, <2>4, <2>5
  <2>7. SumOver(f, (T \union {x}) \union R) = SumOver(f, T \union {x}) + SumOver(f, R)
    BY <2>2, <2>6
  <2> QED  BY <2>7
<1>3. S \in W
  <2> HIDE DEF W
  <2> QED  BY <1>1, <1>2, ElementInduction
<1> QED  BY <1>3

(* ... and class by class, as GROUP BY does.                               *)
LEMMA SumByClass ==
    ASSUME NEW f, NEW c, NEW S, IsFiniteSet(S), IntOn(f, S),
           NEW C, IsFiniteSet(C), \A x \in S : c[x] \in C
    PROVE  SumOver([k \in C |-> SumOver(f, {x \in S : c[x] = k})], C) = SumOver(f, S)
<1> DEFINE Class(T, k) == {x \in T : c[x] = k}
           By(T) == [k \in C |-> SumOver(f, Class(T, k))]
           W == {T \in SUBSET S : SumOver(By(T), C) = SumOver(f, T)}
<1>0. ASSUME NEW T \in SUBSET S
      PROVE  /\ IsFiniteSet(T) /\ SumOver(f, T) \in Int
             /\ IntOn(By(T), C)
             /\ \A k \in C : IsFiniteSet(Class(T, k)) /\ SumOver(f, Class(T, k)) \in Int
  <2>1. IsFiniteSet(T) /\ \A k \in C : IsFiniteSet(Class(T, k)) /\ Class(T, k) \subseteq S
    BY FS_Subset
  <2>2. SumOver(f, T) \in Int
    BY <2>1, SumInt DEF IntOn
  <2>3. ASSUME NEW k \in C  PROVE SumOver(f, Class(T, k)) \in Int
    <3> DEFINE K == Class(T, k)
    <3>1. IsFiniteSet(K) /\ IntOn(f, K)
      BY <2>1 DEF IntOn
    <3> HIDE DEF K
    <3>2. SumOver(f, K) \in Int
      BY <3>1, SumInt
    <3> QED  BY <3>2 DEF K
  <2> HIDE DEF Class
  <2> QED  BY <2>1, <2>2, <2>3 DEF IntOn
<1>1. {} \in W
  <2>1. ASSUME NEW k \in C  PROVE By({})[k] = 0
    <3>1. Class({}, k) = {}
      OBVIOUS
    <3> QED  BY <3>1, SumEmpty
  <2> HIDE DEF By
  <2>2. SumOver(By({}), C) = 0
    BY <2>1, SumZero
  <2> QED  BY <2>2, SumEmpty
<1>2. ASSUME NEW T \in SUBSET S, NEW x \in S \ T, T \in W  PROVE T \union {x} \in W
  <2> DEFINE U == T \union {x}
  <2>0. U \in SUBSET S /\ c[x] \in C /\ f[x] \in Int
    BY DEF IntOn
  <2>1. ASSUME NEW k \in C, k # c[x]  PROVE By(U)[k] = By(T)[k]
    <3>1. Class(U, k) = Class(T, k)
      BY <2>1
    <3> QED  BY <3>1
  <2>2. By(U)[c[x]] = f[x] + By(T)[c[x]]
    <3> DEFINE K == Class(T, c[x])
    <3>1. Class(U, c[x]) = K \union {x} /\ x \notin K /\ K \union {x} \subseteq S
      OBVIOUS
    <3>2. IsFiniteSet(K) /\ IntOn(f, K \union {x})
      BY <1>0, <2>0, <3>1 DEF IntOn
    <3>3. By(U)[c[x]] = SumOver(f, Class(U, c[x])) /\ By(T)[c[x]] = SumOver(f, K)
      BY <2>0
    <3> HIDE DEF K, By, Class
    <3>4. SumOver(f, K \union {x}) = f[x] + SumOver(f, K)
      BY <3>1, <3>2, SumAdd
    <3> QED  BY <3>1, <3>3, <3>4
  <2>3. IntOn(By(U), C) /\ IntOn(By(T), C)
    BY <1>0, <2>0
  <2>4. SumOver(f, U) = f[x] + SumOver(f, T) /\ SumOver(f, T) \in Int
    <3>1. IntOn(f, T \union {x})
      BY DEF IntOn
    <3> QED  BY <1>0, <3>1, SumAdd
  <2>5. By(T)[c[x]] \in Int /\ SumOver(By(T), C) = SumOver(f, T)
    BY <1>2, <2>0, <2>3 DEF IntOn
  <2> DEFINE BU == By(U)
             BT == By(T)
  <2> HIDE DEF BU, BT, U
  <2>6. /\ IntOn(BU, C) /\ IntOn(BT, C) /\ \A k \in C : k # c[x] => BU[k] = BT[k]
        /\ BU[c[x]] = f[x] + BT[c[x]] /\ BT[c[x]] \in Int
        /\ SumOver(BT, C) = SumOver(f, T)
    <3> HIDE DEF By
    <3> QED  BY <2>1, <2>2, <2>3, <2>5 DEF BU, BT
  <2>7. SumOver(BU, C) = SumOver(BT, C) - BT[c[x]] + BU[c[x]]
    BY <2>0, <2>6, SumUpdate
  <2>8. SumOver(BU, C) = SumOver(f, U)
    BY <2>0, <2>4, <2>6, <2>7
  <2>9. U \in W
    <3> HIDE DEF By
    <3> QED  BY <2>0, <2>8 DEF BU
  <2> QED  BY <2>9 DEF U
<1>3. S \in W
  <2> HIDE DEF W
  <2> QED  BY <1>1, <1>2, ElementInduction
<1> QED  BY <1>3

(* A common factor.                                                        *)
LEMMA SumTimes ==
    ASSUME NEW f, NEW g, NEW S, IsFiniteSet(S), IntOn(f, S), NEW m \in Int,
           \A x \in S : g[x] = f[x] * m
    PROVE  SumOver(g, S) = SumOver(f, S) * m
<1> DEFINE W == {T \in SUBSET S : SumOver(g, T) = SumOver(f, T) * m}
<1>0. IntOn(g, S)
  BY DEF IntOn
<1>1. {} \in W
  BY SumEmpty
<1>2. ASSUME NEW T \in SUBSET S, NEW x \in S \ T, T \in W  PROVE T \union {x} \in W
  <2>1. IsFiniteSet(T)
    BY FS_Subset
  <2>2. /\ SumOver(f, T \union {x}) = f[x] + SumOver(f, T)
        /\ SumOver(g, T \union {x}) = g[x] + SumOver(g, T)
    BY <1>0, <2>1, SumAdd DEF IntOn
  <2>3. SumOver(f, T) \in Int /\ f[x] \in Int /\ g[x] = f[x] * m
    BY <2>1, SumInt DEF IntOn
  <2>4. SumOver(g, T) = SumOver(f, T) * m
    BY <1>2
  <2>5. (f[x] + SumOver(f, T)) * m = f[x] * m + SumOver(f, T) * m
    BY <2>3
  <2>6. SumOver(g, T \union {x}) = SumOver(f, T \union {x}) * m
    BY <2>2, <2>3, <2>4, <2>5
  <2> QED  BY <2>6
<1>3. S \in W
  <2> HIDE DEF W
  <2> QED  BY <1>1, <1>2, ElementInduction
<1> QED  BY <1>3

=============================================================================
