----------------------------- MODULE SetLemmas -----------------------------
(***************************************************************************)
(* Facts about finite sets that the proofs of several components need:     *)
(* induction over subsets, sums, and what one walk of the power index      *)
(* bonds. None of them speaks of a state.                                  *)
(*                                                                         *)
(* Sums are the community operator SumFunctionOnSet, a fold over a         *)
(* recursive function of the subsets. Its equation and its algebra are     *)
(* derived here from the well-foundedness of the strict subset order: a    *)
(* family of subsets of a finite set that is not empty has a smallest      *)
(* member, so a claim that fails for some subset fails for a smallest one. *)
(***************************************************************************)
EXTENDS PowerOrder, Functions, FiniteSetTheorems, WellFoundedInduction, TLAPS

\* Induction over the subsets of a finite set, as the choice of a smallest one.
LEMMA SmallestSubset ==
  ASSUME NEW S, IsFiniteSet(S), NEW F, F \subseteq SUBSET S, F # {}
  PROVE  \E T \in F : \A U \in F : U \subseteq T => U = T
<1>1. IsWellFoundedOn(StrictSubsetOrdering(S), FiniteSubsetsOf(S))
  BY FS_StrictSubsetOrderingWellFounded
<1>2. F \subseteq FiniteSubsetsOf(S)
  BY FS_FiniteSubsetsOfFinite
<1>3. \E T \in F : \A U \in F : ~(<<U, T>> \in StrictSubsetOrdering(S))
  BY <1>1, <1>2, WFMin, Zenon
<1> QED
  BY <1>3 DEF StrictSubsetOrdering

\* The element a fold takes first, and the equation of its recursive function.
Pick(s) == CHOOSE x \in s : TRUE

IsSum(g, f, S) ==
  g = [s \in SUBSET S |-> IF s = {} THEN 0 ELSE f[Pick(s)] + g[s \ {Pick(s)}]]

LEMMA PickIn ==
  ASSUME NEW s, s # {}
  PROVE  Pick(s) \in s /\ s \ {Pick(s)} \subseteq s /\ s \ {Pick(s)} # s
BY DEF Pick

LEMMA SumStep ==
  ASSUME NEW f, NEW S, NEW g, IsSum(g, f, S), NEW s \in SUBSET S
  PROVE  g[s] = IF s = {} THEN 0 ELSE f[Pick(s)] + g[s \ {Pick(s)}]
BY DEF IsSum

\* Two functions that satisfy the equation agree where both are defined.
LEMMA SumUnique ==
  ASSUME NEW f, NEW S, IsFiniteSet(S), NEW T \in SUBSET S,
         NEW g, IsSum(g, f, S), NEW h, IsSum(h, f, T)
  PROVE  g[T] = h[T]
<1> DEFINE F == {s \in SUBSET T : g[s] # h[s]}
<1> SUFFICES ASSUME F # {} PROVE FALSE
  OBVIOUS
<1>1. IsFiniteSet(T)
  BY FS_Subset
<1>2. PICK s \in F : \A u \in F : u \subseteq s => u = s
  <2>1. F \subseteq SUBSET T
    OBVIOUS
  <2> HIDE DEF F
  <2> QED
    BY <1>1, <2>1, SmallestSubset
<1>3. s \in SUBSET S /\ s \in SUBSET T /\ g[s] # h[s]
  OBVIOUS
<1>4. s # {}
  BY <1>3, SumStep
<1>5. s \ {Pick(s)} \notin F
  BY <1>2, <1>4, PickIn
<1>6. g[s \ {Pick(s)}] = h[s \ {Pick(s)}]
  BY <1>3, <1>5
<1> QED
  BY <1>3, <1>4, <1>6, SumStep

\* There is one: the fold is well defined.
LEMMA SumExists ==
  ASSUME NEW f, NEW S, IsFiniteSet(S)
  PROVE  \E g : IsSum(g, f, S)
<1> DEFINE F == {s \in SUBSET S : ~ \E g : IsSum(g, f, s)}
<1> SUFFICES ASSUME F # {} PROVE FALSE
  OBVIOUS
<1>1. PICK T \in F : \A u \in F : u \subseteq T => u = T
  <2>1. F \subseteq SUBSET S
    OBVIOUS
  <2> HIDE DEF F
  <2> QED
    BY <2>1, SmallestSubset
<1>2. T \in SUBSET S /\ ~ \E g : IsSum(g, f, T)
  OBVIOUS
<1> DEFINE G(u) == CHOOSE g : IsSum(g, f, u)
           rest(s) == s \ {Pick(s)}
           h == [s \in SUBSET T |-> IF s = {} THEN 0 ELSE f[Pick(s)] + G(rest(s))[rest(s)]]
<1>3. ASSUME NEW u \in SUBSET T, u # T PROVE IsSum(G(u), f, u) /\ IsFiniteSet(u)
  <2>1. \E g : IsSum(g, f, u)
    BY <1>1, <1>2, <1>3
  <2>2. IsSum(G(u), f, u)
    BY <2>1
  <2>3. IsFiniteSet(u)
    BY <1>2, FS_Subset
  <2> QED
    BY <2>2, <2>3
<1> HIDE DEF G
<1>4. ASSUME NEW s \in SUBSET T, s # {} PROVE h[rest(s)] = G(rest(s))[rest(s)]
  <2> DEFINE u == rest(s)
             w == rest(u)
  <2>1. u \in SUBSET T /\ u # T
    BY <1>4, PickIn
  <2>2. IsSum(G(u), f, u) /\ IsFiniteSet(u)
    BY <1>3, <2>1
  <2>3. G(u)[u] = IF u = {} THEN 0 ELSE f[Pick(u)] + G(u)[w]
    <3>1. w = u \ {Pick(u)} /\ u \in SUBSET u
      OBVIOUS
    <3> HIDE DEF u, w
    <3> QED
      BY <2>2, <3>1, SumStep
  <2>4. h[u] = IF u = {} THEN 0 ELSE f[Pick(u)] + G(w)[w]
    BY <2>1
  <2>5. CASE u # {}
    <3>1. w \in SUBSET u /\ w # T
      BY <2>1, <2>5, PickIn
    <3>2. IsSum(G(w), f, w)
      BY <1>3, <2>1, <3>1
    <3> HIDE DEF u, w
    <3>3. G(u)[w] = G(w)[w]
      BY <2>2, <3>1, <3>2, SumUnique
    <3> QED
      BY <2>3, <2>4, <2>5, <3>3 DEF u
  <2> QED
    BY <2>3, <2>4, <2>5
<1>5. h = [s \in SUBSET T |-> IF s = {} THEN 0 ELSE f[Pick(s)] + h[s \ {Pick(s)}]]
  <2> HIDE DEF h
  <2>1. h = [s \in SUBSET T |-> IF s = {} THEN 0 ELSE f[Pick(s)] + G(rest(s))[rest(s)]]
    BY DEF h
  <2>2. \A s \in SUBSET T :
           (IF s = {} THEN 0 ELSE f[Pick(s)] + G(rest(s))[rest(s)])
         = (IF s = {} THEN 0 ELSE f[Pick(s)] + h[rest(s)])
    BY <1>4
  <2> QED
    BY <2>1, <2>2
<1>6. IsSum(h, f, T)
  BY <1>5, Zenon DEF IsSum
<1> QED
  BY <1>2, <1>6

\* The equation of a sum.
LEMMA SumEquation ==
  ASSUME NEW f, NEW S, IsFiniteSet(S)
  PROVE  SumFunctionOnSet(f, S) =
           IF S = {} THEN 0
           ELSE f[Pick(S)] + SumFunctionOnSet(f, S \ {Pick(S)})
<1> DEFINE G(u) == CHOOSE g : IsSum(g, f, u)
           T == S \ {Pick(S)}
<1>1. SumFunctionOnSet(f, S) = G(S)[S] /\ SumFunctionOnSet(f, T) = G(T)[T]
  BY DEF SumFunctionOnSet, FoldFunctionOnSet, MapThenFoldSet, IsSum, Pick
<1>2. T \in SUBSET S /\ IsFiniteSet(T)
  BY FS_Subset
<1>3. IsSum(G(S), f, S) /\ IsSum(G(T), f, T)
  BY <1>2, SumExists
<1> HIDE DEF G
<1>4. G(S)[S] = IF S = {} THEN 0 ELSE f[Pick(S)] + G(S)[T]
  BY <1>3, SumStep
<1>5. G(S)[T] = G(T)[T]
  BY <1>2, <1>3, SumUnique
<1> QED
  BY <1>1, <1>4, <1>5

\* Induction over the subsets of a finite set, for a family P of them.
LEMMA SubsetInduction ==
  ASSUME NEW S, IsFiniteSet(S), NEW P,
         \A T \in SUBSET S : (\A U \in SUBSET T : U # T => U \in P) => T \in P
  PROVE  SUBSET S \subseteq P
<1> DEFINE F == (SUBSET S) \ P
<1> SUFFICES ASSUME F # {} PROVE FALSE
  OBVIOUS
<1>1. PICK T \in F : \A U \in F : U \subseteq T => U = T
  <2>1. F \subseteq SUBSET S
    OBVIOUS
  <2> HIDE DEF F
  <2> QED
    BY <2>1, SmallestSubset
<1>2. \A U \in SUBSET T : U # T => U \in P
  BY <1>1
<1> QED
  BY <1>2

\* The same, one element at a time.
LEMMA PickInduction ==
  ASSUME NEW S, IsFiniteSet(S), NEW P, {} \in P,
         \A T \in SUBSET S : T # {} /\ T \ {Pick(T)} \in P => T \in P
  PROVE  S \in P
<1>1. ASSUME NEW T \in SUBSET S, \A U \in SUBSET T : U # T => U \in P
      PROVE  T \in P
  BY <1>1, PickIn
<1>2. SUBSET S \subseteq P
  BY <1>1, SubsetInduction, Zenon
<1> QED
  BY <1>2

\* Induction over an interval, in the form of a set.
LEMMA IntervalInduction ==
  ASSUME NEW n \in Nat, NEW P, 0 \in P,
         \A k \in 0..n : k # n /\ k \in P => k + 1 \in P
  PROVE  0..n \subseteq P
<1> DEFINE F == {T \in SUBSET (0..n) : \E k \in 0..n : T = 0..k /\ k \notin P}
<1> SUFFICES ASSUME NEW m \in 0..n, m \notin P PROVE FALSE
  OBVIOUS
<1>1. IsFiniteSet(0..n)
  BY FS_Interval
<1>2. 0..m \in F
  OBVIOUS
<1>3. PICK T \in F : \A U \in F : U \subseteq T => U = T
  <2> DEFINE S == 0..n
  <2>1. IsFiniteSet(S)
    BY <1>1
  <2>2. F \subseteq SUBSET S
    OBVIOUS
  <2>3. F # {}
    BY <1>2
  <2> HIDE DEF F, S
  <2> QED
    BY <2>1, <2>2, <2>3, SmallestSubset
<1>4. PICK k \in 0..n : T = 0..k /\ k \notin P
  BY <1>3
<1>5. k # 0 /\ k - 1 \in 0..n /\ k - 1 # n /\ (k - 1) + 1 = k
  BY <1>4
<1>6. k - 1 \notin P
  BY <1>4, <1>5
<1>7. 0..(k - 1) \in F
  BY <1>5, <1>6
<1>8. 0..(k - 1) \subseteq T
  BY <1>4
<1>9. k \in T /\ k \notin 0..(k - 1)
  BY <1>4
<1> QED
  BY <1>3, <1>7, <1>8, <1>9

LEMMA SumEmpty ==
  ASSUME NEW f
  PROVE  SumFunctionOnSet(f, {}) = 0
BY SumEquation, FS_EmptySet

\* The equation for a subset of a finite set.
LEMMA SumPick ==
  ASSUME NEW f, NEW S, IsFiniteSet(S), NEW T \in SUBSET S, T # {}
  PROVE  /\ SumFunctionOnSet(f, T) = f[Pick(T)] + SumFunctionOnSet(f, T \ {Pick(T)})
         /\ Pick(T) \in T
BY SumEquation, FS_Subset, PickIn

LEMMA SumInt ==
  ASSUME NEW f, NEW S, IsFiniteSet(S), \A x \in S : f[x] \in Int
  PROVE  SumFunctionOnSet(f, S) \in Int
<1> DEFINE P == {T \in SUBSET S : SumFunctionOnSet(f, T) \in Int}
<1>1. {} \in P
  BY SumEmpty
<1>2. ASSUME NEW T \in SUBSET S, T # {}, T \ {Pick(T)} \in P
      PROVE  T \in P
  BY <1>2, SumPick
<1> HIDE DEF P
<1>3. S \in P
  BY <1>1, <1>2, PickInduction, Zenon
<1> QED
  BY <1>3 DEF P

LEMMA SumNat ==
  ASSUME NEW f, NEW S, IsFiniteSet(S), \A x \in S : f[x] \in Nat
  PROVE  SumFunctionOnSet(f, S) \in Nat
<1> DEFINE P == {T \in SUBSET S : SumFunctionOnSet(f, T) \in Nat}
<1>1. {} \in P
  BY SumEmpty
<1>2. ASSUME NEW T \in SUBSET S, T # {}, T \ {Pick(T)} \in P
      PROVE  T \in P
  BY <1>2, SumPick
<1> HIDE DEF P
<1>3. S \in P
  BY <1>1, <1>2, PickInduction, Zenon
<1> QED
  BY <1>3 DEF P

\* Equal terms have equal sums.
LEMMA SumSame ==
  ASSUME NEW f, NEW g, NEW S, IsFiniteSet(S), \A x \in S : f[x] = g[x]
  PROVE  SumFunctionOnSet(f, S) = SumFunctionOnSet(g, S)
<1> DEFINE P == {T \in SUBSET S : SumFunctionOnSet(f, T) = SumFunctionOnSet(g, T)}
<1>1. {} \in P
  BY SumEmpty
<1>2. ASSUME NEW T \in SUBSET S, T # {}, T \ {Pick(T)} \in P
      PROVE  T \in P
  BY <1>2, SumPick
<1> HIDE DEF P
<1>3. S \in P
  BY <1>1, <1>2, PickInduction, Zenon
<1> QED
  BY <1>3 DEF P

\* Smaller terms have a smaller sum.
LEMMA SumMonotone ==
  ASSUME NEW f, NEW g, NEW S, IsFiniteSet(S),
         \A x \in S : f[x] \in Int /\ g[x] \in Int /\ f[x] <= g[x]
  PROVE  SumFunctionOnSet(f, S) <= SumFunctionOnSet(g, S)
<1> DEFINE P == {T \in SUBSET S : /\ SumFunctionOnSet(f, T) \in Int
                                 /\ SumFunctionOnSet(g, T) \in Int
                                 /\ SumFunctionOnSet(f, T) <= SumFunctionOnSet(g, T)}
<1>1. {} \in P
  BY SumEmpty
<1>2. ASSUME NEW T \in SUBSET S, T # {}, T \ {Pick(T)} \in P
      PROVE  T \in P
  <2> DEFINE p == Pick(T)
             U == T \ {p}
  <2>1. p \in T
    BY <1>2, PickIn
  <2>2. SumFunctionOnSet(f, T) = f[p] + SumFunctionOnSet(f, U)
    BY <1>2, SumPick
  <2>3. SumFunctionOnSet(g, T) = g[p] + SumFunctionOnSet(g, U)
    BY <1>2, SumPick
  <2> HIDE DEF p, U
  <2> QED
    BY <1>2, <2>1, <2>2, <2>3 DEF p, U
<1> HIDE DEF P
<1>3. S \in P
  BY <1>1, <1>2, PickInduction, Zenon
<1> QED
  BY <1>3 DEF P

\* The sum of the sums.
LEMMA SumPlus ==
  ASSUME NEW f, NEW g, NEW h, NEW S, IsFiniteSet(S),
         \A x \in S : f[x] \in Int /\ g[x] \in Int /\ h[x] = f[x] + g[x]
  PROVE  SumFunctionOnSet(h, S) = SumFunctionOnSet(f, S) + SumFunctionOnSet(g, S)
<1> DEFINE P == {T \in SUBSET S : /\ SumFunctionOnSet(f, T) \in Int
                                 /\ SumFunctionOnSet(g, T) \in Int
                                 /\ SumFunctionOnSet(h, T)
                                    = SumFunctionOnSet(f, T) + SumFunctionOnSet(g, T)}
<1>1. {} \in P
  BY SumEmpty
<1>2. ASSUME NEW T \in SUBSET S, T # {}, T \ {Pick(T)} \in P
      PROVE  T \in P
  <2> DEFINE p == Pick(T)
             U == T \ {p}
  <2>1. p \in T
    BY <1>2, PickIn
  <2>2. SumFunctionOnSet(f, T) = f[p] + SumFunctionOnSet(f, U)
    BY <1>2, SumPick
  <2>3. SumFunctionOnSet(g, T) = g[p] + SumFunctionOnSet(g, U)
    BY <1>2, SumPick
  <2>4. SumFunctionOnSet(h, T) = h[p] + SumFunctionOnSet(h, U)
    BY <1>2, SumPick
  <2> HIDE DEF p, U
  <2> QED
    BY <1>2, <2>1, <2>2, <2>3, <2>4 DEF p, U
<1> HIDE DEF P
<1>3. S \in P
  BY <1>1, <1>2, PickInduction, Zenon
<1> QED
  BY <1>3 DEF P

\* Any element may be taken first.
LEMMA SumRemove ==
  ASSUME NEW f, NEW S, IsFiniteSet(S), \A x \in S : f[x] \in Int, NEW x \in S
  PROVE  SumFunctionOnSet(f, S) = f[x] + SumFunctionOnSet(f, S \ {x})
<1> DEFINE Sum(T) == SumFunctionOnSet(f, T)
           P == {T \in SUBSET S : \A y \in T : Sum(T) = f[y] + Sum(T \ {y})}
<1> HIDE DEF Sum
<1>1. \A T \in SUBSET S : Sum(T) \in Int
  BY SumInt, FS_Subset DEF Sum
<1>2. ASSUME NEW T \in SUBSET S, \A U \in SUBSET T : U # T => U \in P
      PROVE  T \in P
  <2> SUFFICES ASSUME NEW y \in T PROVE Sum(T) = f[y] + Sum(T \ {y})
    OBVIOUS
  <2> DEFINE p == Pick(T)
  <2>1. p \in T /\ Sum(T) = f[p] + Sum(T \ {p})
    BY SumPick DEF Sum
  <2> HIDE DEF p
  <2>2. CASE p # y
    <3>1. T \ {p} \in P /\ T \ {y} \in P
      BY <1>2, <2>1
    <3>2. Sum(T \ {p}) = f[y] + Sum((T \ {p}) \ {y})
      BY <2>2, <3>1
    <3>3. Sum(T \ {y}) = f[p] + Sum((T \ {y}) \ {p})
      BY <2>1, <2>2, <3>1
    <3>4. (T \ {p}) \ {y} = (T \ {y}) \ {p}
      OBVIOUS
    <3>5. Sum((T \ {y}) \ {p}) \in Int /\ f[p] \in Int /\ f[y] \in Int
      BY <1>1, <2>1
    <3>6. Sum(T) = f[p] + (f[y] + Sum((T \ {y}) \ {p}))
      BY <2>1, <3>2, <3>4
    <3> QED
      BY <3>3, <3>5, <3>6
  <2> QED
    BY <2>1, <2>2
<1> HIDE DEF P
<1>3. S \in P
  BY <1>2, SubsetInduction, Zenon
<1> QED
  BY <1>3 DEF P, Sum

LEMMA SumInsert ==
  ASSUME NEW f, NEW S, IsFiniteSet(S), \A y \in S : f[y] \in Int,
         NEW x, x \notin S, f[x] \in Int
  PROVE  SumFunctionOnSet(f, S \cup {x}) = f[x] + SumFunctionOnSet(f, S)
<1>1. IsFiniteSet(S \cup {x})
  BY FS_AddElement
<1>2. (S \cup {x}) \ {x} = S
  OBVIOUS
<1> QED
  BY <1>1, <1>2, SumRemove

LEMMA SumOne ==
  ASSUME NEW f, NEW x, f[x] \in Int
  PROVE  SumFunctionOnSet(f, {x}) = f[x]
<1>1. {} \cup {x} = {x} /\ IsFiniteSet({})
  BY FS_EmptySet
<1>2. SumFunctionOnSet(f, {} \cup {x}) = f[x] + SumFunctionOnSet(f, {})
  BY <1>1, SumInsert
<1> QED
  BY <1>1, <1>2, SumEmpty

\* What changing one term does to the sum.
LEMMA SumChange ==
  ASSUME NEW f, NEW g, NEW S, IsFiniteSet(S), NEW x \in S,
         \A y \in S : f[y] \in Int /\ g[y] \in Int,
         \A y \in S \ {x} : g[y] = f[y]
  PROVE  SumFunctionOnSet(g, S) = SumFunctionOnSet(f, S) - f[x] + g[x]
<1>1. IsFiniteSet(S \ {x})
  BY FS_Subset
<1>2. SumFunctionOnSet(g, S \ {x}) = SumFunctionOnSet(f, S \ {x})
  BY <1>1, SumSame
<1>3. SumFunctionOnSet(f, S) = f[x] + SumFunctionOnSet(f, S \ {x})
  BY SumRemove
<1>4. SumFunctionOnSet(g, S) = g[x] + SumFunctionOnSet(g, S \ {x})
  BY SumRemove
<1>5. SumFunctionOnSet(f, S \ {x}) \in Int
  BY <1>1, SumInt
<1> QED
  BY <1>2, <1>3, <1>4, <1>5

\* The sum over two disjoint sets.
LEMMA SumDisjoint ==
  ASSUME NEW f, NEW A, NEW B, IsFiniteSet(A), IsFiniteSet(B), A \cap B = {},
         \A y \in A \cup B : f[y] \in Int
  PROVE  SumFunctionOnSet(f, A \cup B) = SumFunctionOnSet(f, A) + SumFunctionOnSet(f, B)
<1> DEFINE Sum(T) == SumFunctionOnSet(f, T)
           P == {T \in SUBSET B : Sum(A \cup T) = Sum(A) + Sum(T)}
<1> HIDE DEF Sum
<1>1. \A T \in SUBSET B : IsFiniteSet(T) /\ IsFiniteSet(A \cup T) /\ Sum(T) \in Int
  <2> SUFFICES ASSUME NEW T \in SUBSET B
               PROVE  IsFiniteSet(T) /\ IsFiniteSet(A \cup T) /\ Sum(T) \in Int
    OBVIOUS
  <2>1. IsFiniteSet(T)
    BY FS_Subset
  <2>2. IsFiniteSet(A \cup T)
    BY <2>1, FS_Union
  <2> QED
    BY <2>1, <2>2, SumInt DEF Sum
<1>2. Sum(A) \in Int
  BY SumInt DEF Sum
<1>3. {} \in P
  <2>1. A \cup {} = A /\ Sum({}) = 0
    BY SumEmpty DEF Sum
  <2> QED
    BY <1>2, <2>1
<1>4. ASSUME NEW T \in SUBSET B, T # {}, T \ {Pick(T)} \in P
      PROVE  T \in P
  <2> DEFINE p == Pick(T)
             U == T \ {p}
  <2>1. p \in T /\ Sum(T) = f[p] + Sum(U)
    BY <1>4, SumPick DEF Sum
  <2>2. Sum(A \cup U) = Sum(A) + Sum(U)
    BY <1>4
  <2> HIDE DEF p
  <2>3. A \cup T = (A \cup U) \cup {p} /\ p \notin A \cup U
    BY <2>1
  <2>4. IsFiniteSet(A \cup U) /\ Sum(U) \in Int
    BY <1>1
  <2>5. Sum(A \cup T) = f[p] + Sum(A \cup U)
    BY <2>1, <2>3, <2>4, SumInsert DEF Sum
  <2>6. f[p] \in Int
    BY <2>1
  <2> QED
    BY <1>2, <2>1, <2>2, <2>4, <2>5, <2>6
<1> HIDE DEF P
<1>5. B \in P
  BY <1>3, <1>4, PickInduction, Zenon
<1> QED
  BY <1>5 DEF P, Sum

\* No part exceeds the whole.
LEMMA SumPart ==
  ASSUME NEW f, NEW S, IsFiniteSet(S), NEW T \in SUBSET S,
         \A y \in S : f[y] \in Nat
  PROVE  /\ SumFunctionOnSet(f, T) \in Nat
         /\ SumFunctionOnSet(f, S) \in Nat
         /\ SumFunctionOnSet(f, T) <= SumFunctionOnSet(f, S)
<1> DEFINE U == S \ T
<1>1. IsFiniteSet(T) /\ IsFiniteSet(U)
  BY FS_Subset
<1>2. S = T \cup U /\ T \cap U = {}
  OBVIOUS
<1>3. SumFunctionOnSet(f, T) \in Nat /\ SumFunctionOnSet(f, U) \in Nat
  BY <1>1, SumNat
<1> HIDE DEF U
<1>4. SumFunctionOnSet(f, S) = SumFunctionOnSet(f, T) + SumFunctionOnSet(f, U)
  BY <1>1, <1>2, SumDisjoint
<1> QED
  BY <1>3, <1>4

\* No term exceeds the sum.
LEMMA SumTerm ==
  ASSUME NEW f, NEW S, IsFiniteSet(S), \A y \in S : f[y] \in Nat, NEW x \in S
  PROVE  f[x] <= SumFunctionOnSet(f, S)
<1>1. SumFunctionOnSet(f, S) = f[x] + SumFunctionOnSet(f, S \ {x})
  BY SumRemove
<1>2. SumFunctionOnSet(f, S \ {x}) \in Nat
  BY SumPart
<1> QED
  BY <1>1, <1>2

\* A set and its complement when one term changes, by the side it is on.
LEMMA SumSides ==
  ASSUME NEW f, NEW g, NEW S, IsFiniteSet(S), NEW T \in SUBSET S, NEW x \in S,
         \A y \in S : f[y] \in Int /\ g[y] \in Int,
         \A y \in S \ {x} : g[y] = f[y]
  PROVE  /\ x \in T =>
              /\ SumFunctionOnSet(g, T) = SumFunctionOnSet(f, T) - f[x] + g[x]
              /\ SumFunctionOnSet(g, S \ T) = SumFunctionOnSet(f, S \ T)
         /\ x \notin T =>
              /\ SumFunctionOnSet(g, T) = SumFunctionOnSet(f, T)
              /\ SumFunctionOnSet(g, S \ T) = SumFunctionOnSet(f, S \ T) - f[x] + g[x]
<1> DEFINE U == S \ T
<1>1. IsFiniteSet(T) /\ IsFiniteSet(U)
  BY FS_Subset
<1>2. T \subseteq S /\ U \subseteq S /\ (x \in U <=> x \notin T)
  OBVIOUS
<1> HIDE DEF U
<1>3. CASE x \in T
  <2>1. SumFunctionOnSet(g, T) = SumFunctionOnSet(f, T) - f[x] + g[x]
    BY <1>1, <1>2, <1>3, SumChange
  <2>2. SumFunctionOnSet(g, U) = SumFunctionOnSet(f, U)
    <3>1. \A y \in U : g[y] = f[y]
      BY <1>2, <1>3
    <3> QED
      BY <1>1, <3>1, SumSame
  <2> QED
    BY <1>3, <2>1, <2>2 DEF U
<1>4. CASE x \notin T
  <2>1. SumFunctionOnSet(g, U) = SumFunctionOnSet(f, U) - f[x] + g[x]
    BY <1>1, <1>2, <1>4, SumChange
  <2>2. SumFunctionOnSet(g, T) = SumFunctionOnSet(f, T)
    <3>1. \A y \in T : g[y] = f[y]
      BY <1>2, <1>4
    <3> QED
      BY <1>1, <3>1, SumSame
  <2> QED
    BY <1>4, <2>1, <2>2 DEF U
<1> QED
  BY <1>3, <1>4

\* From one subset to another, and from its complement to the other's.
LEMMA SumExchange ==
  ASSUME NEW f, NEW S, IsFiniteSet(S), NEW A \in SUBSET S, NEW B \in SUBSET S,
         \A y \in S : f[y] \in Nat
  PROVE  /\ SumFunctionOnSet(f, B) = SumFunctionOnSet(f, A)
              + SumFunctionOnSet(f, B \ A) - SumFunctionOnSet(f, A \ B)
         /\ SumFunctionOnSet(f, S \ B) = SumFunctionOnSet(f, S \ A)
              - SumFunctionOnSet(f, B \ A) + SumFunctionOnSet(f, A \ B)
         /\ SumFunctionOnSet(f, B \ A) <= SumFunctionOnSet(f, S \ A)
         /\ SumFunctionOnSet(f, A \ B) <= SumFunctionOnSet(f, A)
         /\ SumFunctionOnSet(f, S \ A) \in Nat
         /\ SumFunctionOnSet(f, A) \in Nat
         /\ SumFunctionOnSet(f, B \ A) \in Nat
         /\ SumFunctionOnSet(f, A \ B) \in Nat
<1> DEFINE C == A \cap B
           N == S \ (A \cup B)
           AB == A \ B
           BA == B \ A
<1>1. /\ A = C \cup AB /\ B = C \cup BA
      /\ S \ A = N \cup BA /\ S \ B = N \cup AB
      /\ C \cap AB = {} /\ C \cap BA = {} /\ N \cap AB = {} /\ N \cap BA = {}
      /\ C \in SUBSET S /\ N \in SUBSET S /\ AB \in SUBSET S /\ BA \in SUBSET S
  OBVIOUS
<1>2. AB = A \ B /\ BA = B \ A
  OBVIOUS
<1> HIDE DEF C, N, AB, BA
<1>3. IsFiniteSet(C) /\ IsFiniteSet(N) /\ IsFiniteSet(AB) /\ IsFiniteSet(BA)
  BY <1>1, FS_Subset
<1>4. \A T \in SUBSET S : \A y \in T : f[y] \in Int
  OBVIOUS
<1>5. /\ SumFunctionOnSet(f, C \cup AB) = SumFunctionOnSet(f, C) + SumFunctionOnSet(f, AB)
      /\ SumFunctionOnSet(f, C \cup BA) = SumFunctionOnSet(f, C) + SumFunctionOnSet(f, BA)
  BY <1>1, <1>3, <1>4, SumDisjoint
<1>6. /\ SumFunctionOnSet(f, N \cup AB) = SumFunctionOnSet(f, N) + SumFunctionOnSet(f, AB)
      /\ SumFunctionOnSet(f, N \cup BA) = SumFunctionOnSet(f, N) + SumFunctionOnSet(f, BA)
  BY <1>1, <1>3, <1>4, SumDisjoint
<1>7. /\ SumFunctionOnSet(f, C) \in Nat /\ SumFunctionOnSet(f, N) \in Nat
      /\ SumFunctionOnSet(f, AB) \in Nat /\ SumFunctionOnSet(f, BA) \in Nat
  BY <1>1, SumPart
<1>8. /\ SumFunctionOnSet(f, A) = SumFunctionOnSet(f, C) + SumFunctionOnSet(f, AB)
      /\ SumFunctionOnSet(f, B) = SumFunctionOnSet(f, C) + SumFunctionOnSet(f, BA)
      /\ SumFunctionOnSet(f, S \ A) = SumFunctionOnSet(f, N) + SumFunctionOnSet(f, BA)
      /\ SumFunctionOnSet(f, S \ B) = SumFunctionOnSet(f, N) + SumFunctionOnSet(f, AB)
  BY <1>1, <1>5, <1>6, Zenon
<1> QED
  BY <1>2, <1>7, <1>8

\* A sum of zeros.
LEMMA SumZero ==
  ASSUME NEW g, NEW S, IsFiniteSet(S), \A y \in S : g[y] = 0
  PROVE  SumFunctionOnSet(g, S) = 0
<1> DEFINE P == {V \in SUBSET S : SumFunctionOnSet(g, V) = 0}
<1>1. {} \in P
  BY SumEmpty
<1>2. ASSUME NEW V \in SUBSET S, V # {}, V \ {Pick(V)} \in P
      PROVE  V \in P
  <2>1. SumFunctionOnSet(g, V) = g[Pick(V)] + SumFunctionOnSet(g, V \ {Pick(V)})
    BY <1>2, SumPick
  <2>2. g[Pick(V)] = 0
    BY <1>2, PickIn
  <2> QED
    BY <1>2, <2>1, <2>2
<1> HIDE DEF P
<1>3. S \in P
  BY <1>1, <1>2, PickInduction
<1> QED
  BY <1>3 DEF P

\* Terms that are zero outside of T.
LEMMA SumRestrict ==
  ASSUME NEW f, NEW g, NEW S, IsFiniteSet(S), NEW T \in SUBSET S,
         \A y \in T : f[y] \in Int /\ g[y] = f[y],
         \A y \in S \ T : g[y] = 0
  PROVE  SumFunctionOnSet(g, S) = SumFunctionOnSet(f, T)
<1> DEFINE U == S \ T
<1>1. IsFiniteSet(T) /\ IsFiniteSet(U)
  BY FS_Subset
<1>2. S = T \cup U /\ T \cap U = {}
  OBVIOUS
<1>3. SumFunctionOnSet(g, T) = SumFunctionOnSet(f, T)
  BY <1>1, SumSame
<1>4. SumFunctionOnSet(g, U) = 0
  BY <1>1, SumZero
<1>5. \A y \in S : g[y] \in Int
  OBVIOUS
<1> HIDE DEF U
<1>6. SumFunctionOnSet(g, S) = SumFunctionOnSet(g, T) + SumFunctionOnSet(g, U)
  BY <1>1, <1>2, <1>5, SumDisjoint
<1>7. SumFunctionOnSet(f, T) \in Int
  BY <1>1, SumInt
<1> QED
  BY <1>3, <1>4, <1>6, <1>7

\* Equal terms: a multiple of their number.
LEMMA SumConstant ==
  ASSUME NEW f, NEW S, IsFiniteSet(S), NEW c \in Int, \A y \in S : f[y] = c
  PROVE  SumFunctionOnSet(f, S) = c * Cardinality(S)
<1> DEFINE P == {T \in SUBSET S : SumFunctionOnSet(f, T) = c * Cardinality(T)}
<1>1. {} \in P
  BY SumEmpty, FS_EmptySet
<1>2. ASSUME NEW T \in SUBSET S, T # {}, T \ {Pick(T)} \in P
      PROVE  T \in P
  <2> DEFINE p == Pick(T)
             U == T \ {p}
  <2>1. p \in T /\ SumFunctionOnSet(f, T) = f[p] + SumFunctionOnSet(f, U)
    BY <1>2, SumPick
  <2>2. SumFunctionOnSet(f, U) = c * Cardinality(U)
    BY <1>2
  <2>3. IsFiniteSet(T)
    BY FS_Subset
  <2> HIDE DEF p
  <2>4. Cardinality(U) = Cardinality(T) - 1 /\ Cardinality(T) \in Nat
    BY <2>1, <2>3, FS_RemoveElement, FS_CardinalityType
  <2>5. f[p] = c
    BY <2>1
  <2> DEFINE n == Cardinality(T)
  <2>6. SumFunctionOnSet(f, T) = c + c * (n - 1) /\ n \in Nat
    BY <2>1, <2>2, <2>4, <2>5
  <2> HIDE DEF n
  <2>7. c + c * (n - 1) = c * n
    BY <2>6
  <2> QED
    BY <2>6, <2>7 DEF n
<1> HIDE DEF P
<1>3. S \in P
  BY <1>1, <1>2, PickInduction, Zenon
<1> QED
  BY <1>3 DEF P

-----------------------------------------------------------------------------
(* The power order and the set one walk of the power index bonds, for      *)
(* every index and every assignment of powers.                             *)

\* The order of ValidatorsPowerStoreIterator is transitive.
LEMMA PrecedesTransitive ==
  ASSUME NEW S \in SUBSET Nat, NEW p \in [S -> Nat],
         NEW u \in S, NEW v \in S, NEW w \in S,
         Precedes(p, u, v), Precedes(p, v, w)
  PROVE  Precedes(p, u, w)
  BY DEF Precedes

\* A validator that is ahead of another has fewer validators ahead of it.
LEMMA AheadGrows ==
  ASSUME NEW S \in SUBSET Nat, IsFiniteSet(S), NEW p \in [S -> Nat],
         NEW index \in SUBSET S,
         NEW u \in index, NEW v \in index, Precedes(p, u, v)
  PROVE  /\ Cardinality(Ahead(index, p, u)) \in Nat
         /\ Cardinality(Ahead(index, p, v)) \in Nat
         /\ Cardinality(Ahead(index, p, u)) < Cardinality(Ahead(index, p, v))
<1> DEFINE A == Ahead(index, p, u)
           B == Ahead(index, p, v)
<1>1. IsFiniteSet(A) /\ IsFiniteSet(B)
  <2>1. A \in SUBSET S /\ B \in SUBSET S
    BY Zenon DEF Ahead
  <2> QED
    BY <2>1, FS_Subset
<1>2. A \in SUBSET B
  <2>1. \A w \in index : Precedes(p, w, u) => Precedes(p, w, v)
    BY PrecedesTransitive
  <2> QED
    BY <2>1, Zenon DEF Ahead
<1>3. u \in B /\ u \notin A
  BY DEF Ahead, Precedes
<1>4. Cardinality(A) \in Nat /\ Cardinality(B) \in Nat
  BY <1>1, FS_CardinalityType
<1>5. Cardinality(A) <= Cardinality(B) /\ Cardinality(A) # Cardinality(B)
  BY <1>1, <1>2, <1>3, FS_Subset
<1> QED
  BY <1>4, <1>5

\* At most max validators of the index have fewer than max ahead of them: the
\* number of validators ahead is a different one for each of them.
LEMMA FirstMax ==
  ASSUME NEW S \in SUBSET Nat, IsFiniteSet(S), NEW p \in [S -> Nat],
         NEW index \in SUBSET S, NEW max \in Nat \ {0},
         NEW T \in SUBSET index,
         \A v \in T : Cardinality(Ahead(index, p, v)) < max
  PROVE  IsFiniteSet(T) /\ Cardinality(T) <= max
<1> DEFINE R == 0 .. max - 1
           rank == [v \in T |-> Cardinality(Ahead(index, p, v))]
<1>1. IsFiniteSet(R) /\ Cardinality(R) = max
  BY FS_Interval
<1>2. \A v \in T : rank[v] \in R
  <2> SUFFICES ASSUME NEW v \in T PROVE rank[v] \in R
    OBVIOUS
  <2>1. Ahead(index, p, v) \in SUBSET S
    BY Zenon DEF Ahead
  <2>2. Cardinality(Ahead(index, p, v)) \in Nat
    BY <2>1, FS_Subset, FS_CardinalityType
  <2> QED
    BY <2>2
<1>3. \A u, v \in T : u # v => rank[u] # rank[v]
  <2> SUFFICES ASSUME NEW u \in T, NEW v \in T, u # v
               PROVE  rank[u] # rank[v]
    OBVIOUS
  <2>1. Precedes(p, u, v) \/ Precedes(p, v, u)
    BY DEF Precedes
  <2>2. CASE Precedes(p, u, v)
    BY <2>2, AheadGrows
  <2>3. CASE Precedes(p, v, u)
    BY <2>3, AheadGrows
  <2> QED
    BY <2>1, <2>2, <2>3
<1>4. rank \in Injection(T, R)
  BY <1>2, <1>3 DEF Injection, IsInjective
<1> HIDE DEF rank, R
<1>5. IsFiniteSet(T) /\ Cardinality(T) <= Cardinality(R)
  BY <1>1, <1>4, FS_Injection
<1> QED
  BY <1>1, <1>5

\* The walk bonds at most max validators besides the volunteers.
LEMMA SelectedBound ==
  ASSUME NEW S \in SUBSET Nat, IsFiniteSet(S), NEW p \in [S -> Nat],
         NEW index \in SUBSET S, NEW vol \in SUBSET S, NEW max \in Nat \ {0}
  PROVE  Cardinality(Selected(index, vol, p, max) \ vol) <= max
<1>1. Selected(index, vol, p, max) \ vol \in SUBSET index
  BY DEF Selected
<1>2. \A v \in Selected(index, vol, p, max) \ vol :
        Cardinality(Ahead(index, p, v)) < max
  BY DEF Selected
<1> QED
  BY <1>1, <1>2, FirstMax, Zenon

\* Volunteers included, the walk bonds at most max validators and as many more
\* as there are volunteers.
LEMMA SelectedFits ==
  ASSUME NEW S \in SUBSET Nat, IsFiniteSet(S), NEW p \in [S -> Nat],
         NEW index \in SUBSET S, NEW vol \in SUBSET S, NEW max \in Nat \ {0}
  PROVE  Cardinality(Selected(index, vol, p, max)) <= max + Cardinality(vol)
<1> DEFINE B == Selected(index, vol, p, max)
           C == B \ vol
<1>1. Cardinality(C) <= max
  BY SelectedBound
<1>2. B \in SUBSET S /\ C \in SUBSET S /\ B \in SUBSET (C \cup vol)
  BY Zenon DEF Selected
<1> HIDE DEF B, C
<1>3. IsFiniteSet(C) /\ IsFiniteSet(vol)
  BY <1>2, FS_Subset, Zenon
<1>4. /\ IsFiniteSet(C \cup vol)
      /\ Cardinality(C \cup vol)
           = Cardinality(C) + Cardinality(vol) - Cardinality(C \cap vol)
  BY <1>3, FS_Union
<1>5. /\ IsFiniteSet(B) /\ Cardinality(B) <= Cardinality(C \cup vol)
  BY <1>2, <1>4, FS_Subset, Zenon
<1>6. IsFiniteSet(C \cap vol)
  <2>1. C \cap vol \in SUBSET C
    OBVIOUS
  <2> QED
    BY <2>1, <1>3, FS_Subset
<1>7. /\ Cardinality(B) \in Nat /\ Cardinality(C) \in Nat
      /\ Cardinality(vol) \in Nat /\ Cardinality(C \cap vol) \in Nat
  BY <1>3, <1>5, <1>6, FS_CardinalityType
<1>8. Cardinality(B) <= max + Cardinality(vol)
  BY <1>1, <1>4, <1>5, <1>7
<1> QED
  BY <1>8 DEF B

\* A validator the walk leaves out does not precede one it bonds that is no
\* volunteer.
LEMMA SelectedByPower ==
  ASSUME NEW S \in SUBSET Nat, IsFiniteSet(S), NEW p \in [S -> Nat],
         NEW index \in SUBSET S, NEW vol \in SUBSET S, NEW max \in Nat \ {0},
         NEW u \in Selected(index, vol, p, max) \ vol,
         NEW v \in index \ Selected(index, vol, p, max)
  PROVE  ~Precedes(p, v, u)
<1> SUFFICES ASSUME Precedes(p, v, u) PROVE FALSE
  OBVIOUS
<1>1. u \in index /\ p[u] > 0 /\ Cardinality(Ahead(index, p, u)) < max
  BY DEF Selected
<1>2. p[v] > 0
  BY <1>1 DEF Precedes
<1>3. Cardinality(Ahead(index, p, v)) < max
  <2>1. /\ Cardinality(Ahead(index, p, v)) \in Nat
        /\ Cardinality(Ahead(index, p, u)) \in Nat
        /\ Cardinality(Ahead(index, p, v)) < Cardinality(Ahead(index, p, u))
    BY <1>1, AheadGrows
  <2> QED
    BY <2>1, <1>1
<1> QED
  BY <1>2, <1>3 DEF Selected
=============================================================================
