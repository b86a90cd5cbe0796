------------------------------ MODULE SumProofs ------------------------------
(***************************************************************************)
(* Sums over finite sets, as the library defines them                      *)
(* (SumFunctionOnSet of Functions): the number of items on a board         *)
(* (NativeExecutor) and the bytes of a cache (EditorCache).  A set of      *)
(* finite sets that is not empty has a least one, so a claim that holds    *)
(* for a set whenever it holds for its proper subsets holds for all.       *)
(***************************************************************************)
EXTENDS Integers, FiniteSets, Functions, FiniteSetTheorems, WellFoundedInduction, TLAPS

(* A set of finite sets has a least one: the ground of every induction     *)
(* below.                                                                  *)
LEMMA LeastSet ==
  ASSUME NEW F, F # {}, \A T \in F : IsFiniteSet(T)
  PROVE  \E T \in F : \A U \in F : U \subseteq T => U = T
<1> DEFINE S == UNION F
<1>1. F \subseteq FiniteSubsetsOf(S)
  BY DEF FiniteSubsetsOf
<1>2. PICK T \in F : \A U \in F : ~ (<<U, T>> \in StrictSubsetOrdering(S))
  <2> HIDE DEF S
  <2> QED BY <1>1, WFMin, FS_StrictSubsetOrderingWellFounded
<1> QED BY <1>1, <1>2 DEF StrictSubsetOrdering, FiniteSubsetsOf

(* The element a fold of the library takes first.                          *)
Pick(S) == CHOOSE x \in S : TRUE

(* What the library's sum over a set iterates to.                          *)
Sums(w, S, g) ==
  g = [s \in SUBSET S |-> IF s = {} THEN 0
                          ELSE w[CHOOSE x \in s : TRUE] + g[s \ {CHOOSE x \in s : TRUE}]]

(* The element taken is one of the set.                                    *)
LEMMA PickIs == \A S : S # {} => Pick(S) \in S
  BY DEF Pick

(* An iterate, one element on.                                             *)
LEMMA SumsAt ==
  ASSUME NEW w, NEW S, NEW g, Sums(w, S, g), NEW s, s \subseteq S
  PROVE  g[s] = IF s = {} THEN 0 ELSE w[Pick(s)] + g[s \ {Pick(s)}]
  BY DEF Sums, Pick

(* Two iterates agree where both are defined.                              *)
LEMMA SumsAgree ==
  ASSUME NEW w, NEW A, NEW B, NEW g, NEW h, Sums(w, A, g), Sums(w, B, h),
         NEW S, S \subseteq A, S \subseteq B, IsFiniteSet(S)
  PROVE  g[S] = h[S]
<1> DEFINE F == {s \in SUBSET S : g[s] # h[s]}
<1> SUFFICES ASSUME F # {} PROVE FALSE
  BY DEF F
<1>1. \A T \in F : IsFiniteSet(T)
  BY FS_Subset
<1>2. PICK s \in F : \A u \in F : u \subseteq s => u = s
  <2> HIDE DEF F
  <2> QED BY <1>1, LeastSet
<1>3. s \subseteq S /\ g[s] # h[s]
  OBVIOUS
<1>4. s # {}
  BY <1>3, SumsAt
<1>5. Pick(s) \in s
  BY <1>4, PickIs
<1>6. s \ {Pick(s)} \notin F
  BY <1>2, <1>5
<1>7. g[s \ {Pick(s)}] = h[s \ {Pick(s)}]
  BY <1>3, <1>6
<1> QED BY <1>3, <1>4, <1>7, SumsAt

(* There is an iterate over every finite set.                              *)
LEMMA SumsExist ==
  ASSUME NEW w, NEW S, IsFiniteSet(S)
  PROVE  \E g : Sums(w, S, g)
<1> DEFINE F == {s \in SUBSET S : ~ \E g : Sums(w, s, g)}
<1> SUFFICES ASSUME F # {} PROVE FALSE
  BY DEF F
<1>1. \A T \in F : IsFiniteSet(T)
  BY FS_Subset
<1>2. PICK T \in F : \A u \in F : u \subseteq T => u = T
  <2> HIDE DEF F
  <2> QED BY <1>1, LeastSet
<1>3. T \subseteq S /\ IsFiniteSet(T)
  BY <1>1
<1> DEFINE iter(U) == CHOOSE g : Sums(w, U, g)
           val(U) == iter(U)[U]
           g == [s \in SUBSET T |-> IF s = {} THEN 0 ELSE w[Pick(s)] + val(s \ {Pick(s)})]
<1>4. \A U : U \subseteq T /\ U # T => Sums(w, U, iter(U))
  <2> TAKE U
  <2> HAVE U \subseteq T /\ U # T
  <2>1. U \notin F
    BY <1>2
  <2>2. \E h : Sums(w, U, h)
    BY <2>1, <1>3
  <2> QED BY <2>2
<1>5. ASSUME NEW s, s \subseteq T, s # {} PROVE g[s \ {Pick(s)}] = val(s \ {Pick(s)})
  <2> DEFINE u == s \ {Pick(s)}
  <2>0. u \subseteq T /\ u # T
    BY <1>5, PickIs
  <2>1. Sums(w, u, iter(u))
    BY <2>0, <1>4
  <2> HIDE DEF iter
  <2>2. val(u) = IF u = {} THEN 0 ELSE w[Pick(u)] + iter(u)[u \ {Pick(u)}]
    <3> HIDE DEF u
    <3> QED BY <2>1, SumsAt
  <2>3. CASE u = {}
    BY <2>2, <2>3, <2>0
  <2>4. CASE u # {}
    <3> DEFINE v == u \ {Pick(u)}
    <3>1. v \subseteq u /\ v \subseteq T /\ v # T /\ IsFiniteSet(v)
      <4> HIDE DEF u
      <4>1. v \subseteq T
        BY <2>0
      <4>2. IsFiniteSet(v)
        <5> HIDE DEF v
        <5> QED BY <1>3, <2>0, FS_Subset, <4>1
      <4> QED BY <2>0, PickIs, <2>4, <4>2
    <3>2. Sums(w, v, iter(v))
      <4> HIDE DEF v, u
      <4> QED BY <3>1, <1>4
    <3>3. iter(u)[v] = iter(v)[v]
      <4> HIDE DEF v, u
      <4> QED BY <3>1, <3>2, <2>1, SumsAgree
    <3>4. g[u] = w[Pick(u)] + val(v)
      <4> HIDE DEF val
      <4> QED BY <2>0, <2>4
    <3> QED BY <3>3, <3>4, <2>2, <2>4
  <2> QED BY <2>3, <2>4
<1>6. Sums(w, T, g)
  <2>1. g = [s \in SUBSET T |-> IF s = {} THEN 0 ELSE w[Pick(s)] + g[s \ {Pick(s)}]]
    <3> DEFINE V(s) == val(s \ {Pick(s)})
               f == [s \in SUBSET T |-> IF s = {} THEN 0 ELSE w[Pick(s)] + V(s)]
    <3>0. f = g OBVIOUS
    <3>1. \A s \in SUBSET T : s # {} => f[s \ {Pick(s)}] = V(s)
      BY <1>5
    <3> HIDE DEF V
    <3>2. f = [s \in SUBSET T |-> IF s = {} THEN 0 ELSE w[Pick(s)] + f[s \ {Pick(s)}]]
      <4>1. \A s \in SUBSET T : f[s] = IF s = {} THEN 0 ELSE w[Pick(s)] + f[s \ {Pick(s)}]
        BY <3>1
      <4> QED BY <4>1
    <3> QED BY <3>2, <3>0
  <2> HIDE DEF g
  <2> QED BY <2>1 DEF Sums, Pick
<1> HIDE DEF g
<1> QED BY <1>6, <1>2

(* The sum over a finite set is what an iterate ends with.                 *)
LEMMA SumIs ==
  ASSUME NEW w, NEW S, IsFiniteSet(S)
  PROVE  \E h : Sums(w, S, h) /\ SumFunctionOnSet(w, S) = h[S]
<1> DEFINE h == CHOOSE g : g = [s \in SUBSET S |-> IF s = {} THEN 0
                          ELSE w[CHOOSE x \in s : TRUE] + g[s \ {CHOOSE x \in s : TRUE}]]
<1>1. SumFunctionOnSet(w, S) = h[S]
  BY DEF SumFunctionOnSet, FoldFunctionOnSet, MapThenFoldSet
<1>2. Sums(w, S, h)
  <2>1. PICK g : Sums(w, S, g)
    BY SumsExist
  <2>2. g = [s \in SUBSET S |-> IF s = {} THEN 0
                          ELSE w[CHOOSE x \in s : TRUE] + g[s \ {CHOOSE x \in s : TRUE}]]
    BY <2>1 DEF Sums
  <2>3. h = [s \in SUBSET S |-> IF s = {} THEN 0
                          ELSE w[CHOOSE x \in s : TRUE] + h[s \ {CHOOSE x \in s : TRUE}]]
    BY <2>2
  <2> HIDE DEF h
  <2> QED BY <2>3 DEF Sums
<1> QED BY <1>1, <1>2

(* The sum over nothing.                                                   *)
LEMMA SumEmpty == \A w : SumFunctionOnSet(w, {}) = 0
<1> TAKE w
<1>1. PICK h : Sums(w, {}, h) /\ SumFunctionOnSet(w, {}) = h[{}]
  BY SumIs, FS_EmptySet
<1> QED BY <1>1, SumsAt

(* The sum, one element on.                                                *)
LEMMA SumPick ==
  ASSUME NEW w, NEW S, IsFiniteSet(S), S # {}
  PROVE  SumFunctionOnSet(w, S) = w[Pick(S)] + SumFunctionOnSet(w, S \ {Pick(S)})
<1>1. PICK h : Sums(w, S, h) /\ SumFunctionOnSet(w, S) = h[S]
  BY SumIs
<1> DEFINE R == S \ {Pick(S)}
<1>2. R \subseteq S /\ IsFiniteSet(R)
  <2>1. R \subseteq S OBVIOUS
  <2> HIDE DEF R
  <2> QED BY <2>1, FS_Subset
<1>3. PICK g : Sums(w, R, g) /\ SumFunctionOnSet(w, R) = g[R]
  <2> HIDE DEF R
  <2> QED BY <1>2, SumIs
<1>4. g[R] = h[R]
  <2> HIDE DEF R
  <2> QED BY <1>1, <1>2, <1>3, SumsAgree
<1> QED BY <1>1, <1>3, <1>4, SumsAt

LEMMA SumInt ==
  ASSUME NEW w, NEW S, IsFiniteSet(S), \A i \in S : w[i] \in Int
  PROVE  SumFunctionOnSet(w, S) \in Int
<1> DEFINE F == {s \in SUBSET S : SumFunctionOnSet(w, s) \notin Int}
<1> SUFFICES ASSUME F # {} PROVE FALSE
  BY DEF F
<1>1. \A T \in F : IsFiniteSet(T)
  BY FS_Subset
<1>2. PICK s \in F : \A u \in F : u \subseteq s => u = s
  <2> HIDE DEF F
  <2> QED BY <1>1, LeastSet
<1>3. s # {}
  BY SumEmpty
<1>4. Pick(s) \in s
  BY <1>3, PickIs
<1>5. SumFunctionOnSet(w, s \ {Pick(s)}) \in Int
  BY <1>2, <1>4
<1>6. SumFunctionOnSet(w, s) = w[Pick(s)] + SumFunctionOnSet(w, s \ {Pick(s)})
  BY <1>1, <1>3, SumPick
<1> QED BY <1>4, <1>5, <1>6

(* The sum of natural numbers is one, and can be taken apart at any        *)
(* element.                                                                *)
LEMMA SumNat ==
  ASSUME NEW w, NEW S, IsFiniteSet(S), \A i \in S : w[i] \in Nat
  PROVE  SumFunctionOnSet(w, S) \in Nat
<1> DEFINE F == {s \in SUBSET S : SumFunctionOnSet(w, s) \notin Nat}
<1> SUFFICES ASSUME F # {} PROVE FALSE
  BY DEF F
<1>1. \A T \in F : IsFiniteSet(T)
  BY FS_Subset
<1>2. PICK s \in F : \A u \in F : u \subseteq s => u = s
  <2> HIDE DEF F
  <2> QED BY <1>1, LeastSet
<1>3. s # {}
  BY SumEmpty
<1>4. Pick(s) \in s
  BY <1>3, PickIs
<1>5. SumFunctionOnSet(w, s \ {Pick(s)}) \in Nat
  BY <1>2, <1>4
<1>6. SumFunctionOnSet(w, s) = w[Pick(s)] + SumFunctionOnSet(w, s \ {Pick(s)})
  BY <1>1, <1>3, SumPick
<1> QED BY <1>4, <1>5, <1>6

(* Whichever element is taken away. *)
LEMMA SumRemove ==
  ASSUME NEW w, NEW S, IsFiniteSet(S), \A i \in S : w[i] \in Int, NEW x \in S
  PROVE  SumFunctionOnSet(w, S) = w[x] + SumFunctionOnSet(w, S \ {x})
<1> DEFINE F == {s \in SUBSET S : \E y \in s : SumFunctionOnSet(w, s) # w[y] + SumFunctionOnSet(w, s \ {y})}
<1> SUFFICES ASSUME F # {} PROVE FALSE
  BY DEF F
<1>1. \A T \in F : IsFiniteSet(T)
  BY FS_Subset
<1>2. PICK s \in F : \A u \in F : u \subseteq s => u = s
  <2> HIDE DEF F
  <2> QED BY <1>1, LeastSet
<1>3. PICK y \in s : SumFunctionOnSet(w, s) # w[y] + SumFunctionOnSet(w, s \ {y})
  OBVIOUS
<1> DEFINE p == Pick(s)
           a == s \ {p}
           b == s \ {y}
           c == a \ {y}
<1>4. p \in s
  BY PickIs
<1>f. IsFiniteSet(s) /\ IsFiniteSet(a) /\ IsFiniteSet(b) /\ IsFiniteSet(c)
  BY <1>1, FS_RemoveElement
<1>5. SumFunctionOnSet(w, s) = w[p] + SumFunctionOnSet(w, a)
  BY <1>f, SumPick
<1>6. p # y
  BY <1>5, <1>3
<1>7. a \notin F /\ b \notin F
  BY <1>2, <1>4
<1>8. SumFunctionOnSet(w, a) = w[y] + SumFunctionOnSet(w, c)
  BY <1>7, <1>6, <1>3
<1>9. SumFunctionOnSet(w, b) = w[p] + SumFunctionOnSet(w, b \ {p})
  BY <1>7, <1>6, <1>4
<1>10. b \ {p} = c
  OBVIOUS
<1>11. w[p] \in Int /\ w[y] \in Int /\ SumFunctionOnSet(w, c) \in Int
  <2>1. c \subseteq S /\ s \subseteq S OBVIOUS
  <2> HIDE DEF c
  <2>2. SumFunctionOnSet(w, c) \in Int
    BY <1>f, SumInt, <2>1
  <2> QED BY <2>1, <2>2, <1>4
<1>12. SumFunctionOnSet(w, s) # w[y] + SumFunctionOnSet(w, b)
  BY <1>3
<1>13. SumFunctionOnSet(w, b) = w[p] + SumFunctionOnSet(w, c)
  BY <1>9, <1>10
<1> DEFINE k == SumFunctionOnSet(w, c)
           m == w[p]
           n == w[y]
<1>14. SumFunctionOnSet(w, s) = m + (n + k) /\ SumFunctionOnSet(w, b) = m + k
  BY <1>5, <1>8, <1>13
<1>15. m \in Int /\ n \in Int /\ k \in Int
  BY <1>11
<1>16. m + (n + k) # n + (m + k)
  <2> HIDE DEF a, b, c, p, F, m, n, k
  <2>1. SumFunctionOnSet(w, s) # n + SumFunctionOnSet(w, b)
    BY <1>12 DEF n
  <2> QED BY <1>14, <2>1
<1> HIDE DEF a, b, c, p, F, m, n, k
<1> QED BY <1>15, <1>16

(* A sum can be taken apart.                                               *)
LEMMA SumSplit ==
  ASSUME NEW w, NEW S, IsFiniteSet(S), \A i \in S : w[i] \in Int, NEW R, R \subseteq S
  PROVE  SumFunctionOnSet(w, S) = SumFunctionOnSet(w, R) + SumFunctionOnSet(w, S \ R)
<1> DEFINE F == {s \in SUBSET S : R \subseteq s /\ SumFunctionOnSet(w, s) # SumFunctionOnSet(w, R) + SumFunctionOnSet(w, s \ R)}
<1> SUFFICES ASSUME F # {} PROVE FALSE
  BY DEF F
<1>1. \A T \in F : IsFiniteSet(T)
  BY FS_Subset
<1>2. PICK s \in F : \A u \in F : u \subseteq s => u = s
  <2> HIDE DEF F
  <2> QED BY <1>1, LeastSet
<1>3. /\ s \subseteq S /\ R \subseteq s /\ IsFiniteSet(s) /\ IsFiniteSet(R)
      /\ SumFunctionOnSet(w, s) # SumFunctionOnSet(w, R) + SumFunctionOnSet(w, s \ R)
  BY <1>1, FS_Subset
<1>4. SumFunctionOnSet(w, R) \in Int
  BY <1>3, SumInt
<1>5. CASE s = R
  <2>1. SumFunctionOnSet(w, s \ R) = 0
    BY <1>5, SumEmpty
  <2> QED BY <1>3, <1>4, <1>5, <2>1
<1>6. CASE s # R
  <2>1. PICK x \in s : x \notin R
    BY <1>3, <1>6
  <2> DEFINE b == s \ {x}
             c == b \ R
  <2>2. SumFunctionOnSet(w, s) = w[x] + SumFunctionOnSet(w, b)
    BY <1>3, SumRemove
  <2>3. SumFunctionOnSet(w, b) = SumFunctionOnSet(w, R) + SumFunctionOnSet(w, c)
    <3>1. b \notin F
      BY <1>2
    <3> QED BY <3>1, <1>3, <2>1
  <2>4. IsFiniteSet(s \ R) /\ (s \ R) \ {x} = c /\ x \in s \ R
    BY <1>3, <2>1, FS_Difference
  <2>5. SumFunctionOnSet(w, s \ R) = w[x] + SumFunctionOnSet(w, c)
    <3>1. \A i \in s \ R : w[i] \in Int
      BY <1>3
    <3> HIDE DEF c
    <3> QED BY <2>4, <3>1, SumRemove
  <2>6. SumFunctionOnSet(w, c) \in Int
    <3>1. IsFiniteSet(c) /\ c \subseteq S
      BY <2>4, <1>3, FS_Subset
    <3> HIDE DEF c
    <3> QED BY <3>1, SumInt
  <2>7. w[x] \in Int
    BY <1>3
  <2> HIDE DEF b, c, F
  <2> QED BY <1>3, <1>4, <2>2, <2>3, <2>5, <2>6, <2>7
<1> QED BY <1>5, <1>6

(* A part of a set has no larger sum.                                      *)
LEMMA SumPart ==
  ASSUME NEW w, NEW S, IsFiniteSet(S), \A i \in S : w[i] \in Nat, NEW R, R \subseteq S
  PROVE  SumFunctionOnSet(w, R) <= SumFunctionOnSet(w, S)
<1> DEFINE T == S \ R
<1>1. IsFiniteSet(R) /\ IsFiniteSet(T) /\ T \subseteq S
  BY FS_Subset
<1>2. SumFunctionOnSet(w, S) = SumFunctionOnSet(w, R) + SumFunctionOnSet(w, T)
  BY SumSplit
<1> HIDE DEF T
<1>3. SumFunctionOnSet(w, R) \in Nat
  BY <1>1, SumNat
<1>4. SumFunctionOnSet(w, T) \in Nat
  BY <1>1, SumNat
<1> QED BY <1>2, <1>3, <1>4

(* The sum depends on the numbers alone.                                   *)
LEMMA SumSame ==
  ASSUME NEW v, NEW w, NEW S, IsFiniteSet(S), \A i \in S : v[i] = w[i]
  PROVE  SumFunctionOnSet(v, S) = SumFunctionOnSet(w, S)
<1> DEFINE F == {s \in SUBSET S : SumFunctionOnSet(v, s) # SumFunctionOnSet(w, s)}
<1> SUFFICES ASSUME F # {} PROVE FALSE
  BY DEF F
<1>1. \A T \in F : IsFiniteSet(T)
  BY FS_Subset
<1>2. PICK s \in F : \A u \in F : u \subseteq s => u = s
  <2> HIDE DEF F
  <2> QED BY <1>1, LeastSet
<1>3. s # {}
  BY SumEmpty
<1>4. Pick(s) \in s
  BY <1>3, PickIs
<1>5. SumFunctionOnSet(v, s \ {Pick(s)}) = SumFunctionOnSet(w, s \ {Pick(s)})
  BY <1>2, <1>4
<1> QED BY <1>1, <1>3, <1>4, <1>5, SumPick

(* Smaller numbers have no larger sum.                                     *)
LEMMA SumMono ==
  ASSUME NEW v, NEW w, NEW S, IsFiniteSet(S), \A i \in S : v[i] \in Int /\ w[i] \in Int /\ v[i] <= w[i]
  PROVE  SumFunctionOnSet(v, S) <= SumFunctionOnSet(w, S)
<1> DEFINE F == {s \in SUBSET S : ~ (SumFunctionOnSet(v, s) <= SumFunctionOnSet(w, s))}
<1> SUFFICES ASSUME F # {} PROVE FALSE
  BY DEF F
<1>1. \A T \in F : IsFiniteSet(T)
  BY FS_Subset
<1>2. PICK s \in F : \A u \in F : u \subseteq s => u = s
  <2> HIDE DEF F
  <2> QED BY <1>1, LeastSet
<1>3. s # {}
  BY SumEmpty
<1>4. Pick(s) \in s
  BY <1>3, PickIs
<1> DEFINE r == s \ {Pick(s)}
<1>5. SumFunctionOnSet(v, r) <= SumFunctionOnSet(w, r)
  BY <1>2, <1>4
<1>6. /\ SumFunctionOnSet(v, s) = v[Pick(s)] + SumFunctionOnSet(v, r)
      /\ SumFunctionOnSet(w, s) = w[Pick(s)] + SumFunctionOnSet(w, r)
  BY <1>1, <1>3, SumPick
<1>7. SumFunctionOnSet(v, r) \in Int /\ SumFunctionOnSet(w, r) \in Int
  <2>1. IsFiniteSet(r) /\ \A i \in r : v[i] \in Int /\ w[i] \in Int
    BY <1>1, FS_Subset
  <2> HIDE DEF r
  <2> QED BY <2>1, SumInt
<1>8. v[Pick(s)] \in Int /\ w[Pick(s)] \in Int /\ v[Pick(s)] <= w[Pick(s)]
  BY <1>4
<1>9. ~ (SumFunctionOnSet(v, s) <= SumFunctionOnSet(w, s))
  BY <1>2
<1> HIDE DEF r, F
<1> QED BY <1>5, <1>6, <1>7, <1>8, <1>9

(* Nothing adds up to nothing, and ones to how many they are.              *)
LEMMA SumZeros ==
  ASSUME NEW w, NEW S, IsFiniteSet(S), \A i \in S : w[i] = 0
  PROVE  SumFunctionOnSet(w, S) = 0
<1> DEFINE F == {s \in SUBSET S : SumFunctionOnSet(w, s) # 0}
<1> SUFFICES ASSUME F # {} PROVE FALSE
  BY DEF F
<1>1. \A T \in F : IsFiniteSet(T)
  BY FS_Subset
<1>2. PICK s \in F : \A u \in F : u \subseteq s => u = s
  <2> HIDE DEF F
  <2> QED BY <1>1, LeastSet
<1>3. s # {}
  BY SumEmpty
<1>4. Pick(s) \in s
  BY <1>3, PickIs
<1>5. SumFunctionOnSet(w, s \ {Pick(s)}) = 0
  BY <1>2, <1>4
<1>6. SumFunctionOnSet(w, s) = w[Pick(s)] + SumFunctionOnSet(w, s \ {Pick(s)})
  BY <1>1, <1>3, SumPick
<1>7. w[Pick(s)] = 0 /\ SumFunctionOnSet(w, s) # 0
  BY <1>4, <1>2
<1> QED BY <1>5, <1>6, <1>7

LEMMA SumOnes ==
  ASSUME NEW w, NEW S, IsFiniteSet(S), \A i \in S : w[i] = 1
  PROVE  SumFunctionOnSet(w, S) = Cardinality(S)
<1> DEFINE F == {s \in SUBSET S : SumFunctionOnSet(w, s) # Cardinality(s)}
<1> SUFFICES ASSUME F # {} PROVE FALSE
  BY DEF F
<1>1. \A T \in F : IsFiniteSet(T)
  BY FS_Subset
<1>2. PICK s \in F : \A u \in F : u \subseteq s => u = s
  <2> HIDE DEF F
  <2> QED BY <1>1, LeastSet
<1>3. s # {}
  BY SumEmpty, FS_EmptySet
<1>4. Pick(s) \in s
  BY <1>3, PickIs
<1>5. SumFunctionOnSet(w, s \ {Pick(s)}) = Cardinality(s \ {Pick(s)})
  BY <1>2, <1>4
<1>6. SumFunctionOnSet(w, s) = w[Pick(s)] + SumFunctionOnSet(w, s \ {Pick(s)})
  BY <1>1, <1>3, SumPick
<1>7. w[Pick(s)] = 1 /\ SumFunctionOnSet(w, s) # Cardinality(s)
  BY <1>4, <1>2
<1>8. Cardinality(s \ {Pick(s)}) = Cardinality(s) - 1 /\ Cardinality(s) \in Nat
  BY <1>1, <1>4, FS_RemoveElement, FS_CardinalityType
<1> QED BY <1>5, <1>6, <1>7, <1>8
=============================================================================
