----------------------------- MODULE LoopProofs -----------------------------
(***************************************************************************)
(* Proofs about the two loops that walk something by position: the walk of *)
(* the power index in ApplyAndReturnValidatorSetUpdates, for every index,  *)
(* volunteer map and parameter, and the loops of the generated decoders,   *)
(* for every table of fields, every input of any length and every width of *)
(* integers. Neither reads past the end of what it walks.                  *)
(***************************************************************************)
EXTENDS ApplyLoop, Wire, SetLemmas

-----------------------------------------------------------------------------
(* The walk of the power index.                                            *)

\* What the first loop has left of the volunteer map.
Dropped == remaining = {v \in volunteers : v \in jailed => v \in pending}

\* While the second loop runs: the visited validators are the first of the
\* index; the map holds the volunteers that are still to come; those bonded are
\* the visited ones that Selected names; and as long as count is below max it has
\* counted every visited validator (beyond, the ones skipped are not counted).
Walked ==
  /\ remaining = (volunteers \ jailed) \ visited
  /\ \A v \in visited : Ahead(powerIndex, power, v) \subseteq visited
  /\ bonded = visited \cap Selected(powerIndex, volunteers, power, max)
  /\ count <= Cardinality(visited)
  /\ count < max => count = Cardinality(visited)

LoopInv ==
  /\ power \in [Validators -> Nat] /\ jailed \subseteq Validators
  /\ volunteers \subseteq Validators /\ max \in Nat \ {0}
  /\ pending \subseteq volunteers /\ visited \subseteq powerIndex /\ count \in Nat
  /\ stage \in {"drop", "walk", "done"}
  /\ stage = "drop" => Dropped /\ visited = {} /\ bonded = {} /\ count = 0
  /\ stage = "walk" => Walked
  /\ BondsSelected

\* Of two validators one comes first.
LEMMA Total ==
  ASSUME NEW S \in SUBSET Nat, NEW p \in [S -> Nat], NEW u \in S, NEW v \in S
  PROVE  u = v \/ Precedes(p, u, v) \/ Precedes(p, v, u)
BY DEF Precedes

\* What was visited comes before what was not, so that a validator the iterator
\* has not reached has at least the visited ones ahead of it.
LEMMA VisitedFirst ==
  ASSUME LoopInv, stage = "walk", NEW u \in powerIndex \ visited
  PROVE  /\ visited \subseteq Ahead(powerIndex, power, u)
         /\ IsFiniteSet(visited) /\ Cardinality(visited) \in Nat
         /\ Cardinality(Ahead(powerIndex, power, u)) \in Nat
         /\ Cardinality(visited) <= Cardinality(Ahead(powerIndex, power, u))
<1>1. /\ Validators \in SUBSET Nat /\ IsFiniteSet(Validators)
      /\ power \in [Validators -> Nat] /\ powerIndex \in SUBSET Validators
      /\ visited \in SUBSET powerIndex
  BY LoopAssumption, Zenon DEF LoopInv, powerIndex
<1>2. visited \subseteq Ahead(powerIndex, power, u)
  <2> SUFFICES ASSUME NEW w \in visited PROVE w \in Ahead(powerIndex, power, u)
    OBVIOUS
  <2>1. w = u \/ Precedes(power, w, u) \/ Precedes(power, u, w)
    <3>1. w \in Validators /\ u \in Validators
      BY <1>1
    <3> QED
      BY <1>1, <3>1, Total, Zenon
  <2>2. ~Precedes(power, u, w)
    <3>1. Ahead(powerIndex, power, w) \subseteq visited
      BY DEF LoopInv, Walked
    <3> QED
      BY <3>1 DEF Ahead
  <2> QED
    BY <1>1, <2>1, <2>2 DEF Ahead
<1>3. IsFiniteSet(Ahead(powerIndex, power, u))
  <2>1. Ahead(powerIndex, power, u) \in SUBSET Validators
    BY <1>1, Zenon DEF Ahead
  <2> QED
    BY <1>1, <2>1, FS_Subset
<1>4. IsFiniteSet(visited) /\ Cardinality(visited) <= Cardinality(Ahead(powerIndex, power, u))
  BY <1>2, <1>3, FS_Subset
<1> QED
  BY <1>2, <1>3, <1>4, FS_CardinalityType

\* LoopInit establishes the invariant.
LEMMA LoopInitInv == LoopInit => LoopInv
<1> SUFFICES ASSUME LoopInit PROVE LoopInv
  OBVIOUS
<1>1. power \in [Validators -> Nat] /\ max \in Nat \ {0}
  <2>1. Powers \subseteq Nat /\ MaxValidators \subseteq Nat \ {0}
    BY LoopAssumption, Zenon
  <2> QED
    BY <2>1, Zenon DEF LoopInit
<1> QED
  BY <1>1 DEF LoopInit, LoopInv, Dropped, BondsSelected

\* The first loop, which leaves the volunteers that are not jailed.
LEMMA DropJailedInv ==
  ASSUME LoopInv, DropJailed
  PROVE  LoopInv'
<1>1. UNCHANGED <<power, jailed, volunteers, max, visited, count, bonded>>
  BY DEF DropJailed
<1>2. stage = "drop" /\ Dropped /\ visited = {} /\ bonded = {} /\ count = 0
  BY DEF DropJailed, LoopInv
<1>3. CASE \E v \in pending :
             /\ pending' = pending \ {v}
             /\ remaining' = IF v \in jailed THEN remaining \ {v} ELSE remaining
             /\ stage' = stage
  <2>1. Dropped'
    BY <1>1, <1>2, <1>3 DEF Dropped, LoopInv
  <2> QED
    BY <1>1, <1>2, <1>3, <2>1 DEF LoopInv, powerIndex, BondsSelected
<1>4. CASE pending = {} /\ stage' = "walk" /\ UNCHANGED <<pending, remaining>>
  <2>1. Cardinality({}) = 0
    BY FS_EmptySet
  <2>2. Walked'
    BY <1>1, <1>2, <1>4, <2>1 DEF Dropped, Walked, LoopInv
  <2> QED
    BY <1>1, <1>4, <2>2 DEF LoopInv, powerIndex, BondsSelected
<1> QED
  BY <1>3, <1>4 DEF DropJailed

\* The loop condition fails: what was not visited is no volunteer, and has
\* MaxValidators ahead of it.
LEMMA LoopExitInv ==
  ASSUME LoopInv, LoopExit
  PROVE  LoopInv'
<1>1. /\ UNCHANGED <<power, jailed, volunteers, max, pending, remaining, visited, count, bonded>>
      /\ stage = "walk" /\ stage' = "done" /\ Walked
      /\ remaining = {} /\ (count >= max \/ powerIndex \subseteq visited)
  BY DEF LoopExit, Continues, Valid, LoopInv
<1>2. \A u \in powerIndex \ visited : u \notin Selected(powerIndex, volunteers, power, max)
  <2> SUFFICES ASSUME NEW u \in powerIndex \ visited
               PROVE  u \notin volunteers /\ ~(Cardinality(Ahead(powerIndex, power, u)) < max)
    BY DEF Selected
  <2>1. u \notin volunteers
    BY <1>1 DEF Walked, powerIndex
  <2>2. count \in Nat /\ max \in Nat /\ count >= max /\ count <= Cardinality(visited)
    BY <1>1 DEF LoopInv, Walked
  <2>3. /\ Cardinality(visited) \in Nat
        /\ Cardinality(Ahead(powerIndex, power, u)) \in Nat
        /\ Cardinality(visited) <= Cardinality(Ahead(powerIndex, power, u))
    BY <1>1, VisitedFirst
  <2> QED
    BY <2>1, <2>2, <2>3
<1>3. bonded = Selected(powerIndex, volunteers, power, max)
  BY <1>1, <1>2 DEF Walked, Selected
<1> QED
  BY <1>1, <1>3 DEF LoopInv, BondsSelected, powerIndex

\* One pass of the second loop. The current validator has exactly the visited
\* ones ahead of it.
LEMMA LoopBodyInv ==
  ASSUME LoopInv, LoopBody
  PROVE  LoopInv'
<1> DEFINE Sel == Selected(powerIndex, volunteers, power, max)
<1>1. PICK v \in Validators : IsCurrent(v) /\ Visit(v)
  BY DEF LoopBody
<1>2. /\ UNCHANGED <<power, jailed, volunteers, max, pending>>
      /\ stage = "walk" /\ Walked
      /\ v \in powerIndex \ visited /\ Ahead(powerIndex, power, v) \subseteq visited
      /\ visited' = visited \cup {v} /\ remaining' = remaining \ {v}
      /\ powerIndex' = powerIndex
      /\ count \in Nat /\ max \in Nat \ {0} /\ visited \subseteq powerIndex
      /\ power \in [Validators -> Nat]
  BY <1>1 DEF LoopBody, LoopInv, IsCurrent, Visit, powerIndex
<1>3. Ahead(powerIndex, power, v) = visited
  BY <1>2, VisitedFirst
<1>4. /\ IsFiniteSet(visited) /\ Cardinality(visited) \in Nat
      /\ Cardinality(visited') = Cardinality(visited) + 1
  <2>1. IsFiniteSet(visited) /\ Cardinality(visited) \in Nat
    BY <1>2, VisitedFirst
  <2> QED
    BY <1>2, <2>1, FS_AddElement, Zenon
<1>5. /\ remaining' = (volunteers \ jailed) \ visited'
      /\ \A u \in visited' : Ahead(powerIndex, power, u) \subseteq visited'
  <2>1. remaining = (volunteers \ jailed) \ visited
    BY <1>2 DEF Walked
  <2>2. \A u \in visited : Ahead(powerIndex, power, u) \subseteq visited
    BY <1>2, Zenon DEF Walked
  <2>3. remaining' = (volunteers \ jailed) \ visited'
    BY <1>2, <2>1
  <2>4. \A u \in visited' : Ahead(powerIndex, power, u) \subseteq visited
    BY <1>2, <2>2, Zenon
  <2> QED
    BY <1>2, <2>3, <2>4
<1>6. v \in remaining <=> v \in volunteers
  BY <1>2 DEF Walked, powerIndex
<1>7. v \in Sel <=> power[v] > 0 /\ (v \in volunteers \/ Cardinality(visited) < max)
  BY <1>2, <1>3 DEF Selected
<1>8. /\ bonded = visited \cap Sel /\ count <= Cardinality(visited)
      /\ count < max => count = Cardinality(visited)
  BY <1>2 DEF Walked
<1>9. Sel' = Sel
  BY <1>2
<1> HIDE DEF Sel
<1>10. ASSUME stage' = "walk", bonded' = visited' \cap Sel, count' \in Nat,
              count' <= Cardinality(visited'),
              count' < max => count' = Cardinality(visited')
       PROVE  LoopInv'
  <2>1. Walked'
    <3>1. \A u \in visited' : Ahead(powerIndex', power', u) \subseteq visited'
      BY <1>2, <1>5
    <3>2. remaining' = (volunteers' \ jailed') \ visited'
      BY <1>2, <1>5
    <3>3. bonded' = visited' \cap Selected(powerIndex', volunteers', power', max')
      BY <1>9, <1>10 DEF Sel
    <3> QED
      BY <1>2, <1>10, <3>1, <3>2, <3>3 DEF Walked
  <2> QED
    BY <1>2, <1>10, <2>1 DEF LoopInv, BondsSelected
<1>11. CASE /\ v \notin remaining /\ count >= max
            /\ UNCHANGED <<count, bonded, stage>>
  <2>1. v \notin Sel
    BY <1>2, <1>4, <1>6, <1>7, <1>8, <1>11
  <2>2. bonded' = visited' \cap Sel
    BY <1>2, <1>8, <1>11, <2>1
  <2> QED
    BY <1>2, <1>4, <1>8, <1>10, <1>11, <2>2
<1>12. CASE /\ v \in remaining \/ count < max
            /\ power[v] = 0
            /\ stage' = "done" /\ UNCHANGED <<count, bonded>>
  <2>1. \A u \in powerIndex \ visited : u \notin Sel
    <3> SUFFICES ASSUME NEW u \in powerIndex \ visited PROVE ~(power[u] > 0)
      BY DEF Sel, Selected
    <3>1. ~Precedes(power, u, v)
      BY <1>3 DEF Ahead
    <3>2. power[u] \in Nat /\ power[v] = 0
      BY <1>2, <1>12 DEF powerIndex
    <3> QED
      BY <3>1, <3>2 DEF Precedes
  <2>2. Sel \subseteq powerIndex
    BY DEF Sel, Selected
  <2>3. bonded = Sel
    BY <1>8, <2>1, <2>2
  <2>4. BondsSelected'
    BY <1>9, <1>12, <2>3 DEF BondsSelected, Sel
  <2> QED
    BY <1>2, <1>12, <2>4 DEF LoopInv
<1>13. CASE /\ v \in remaining \/ count < max
            /\ power[v] > 0
            /\ bonded' = bonded \cup {v} /\ count' = count + 1 /\ stage' = stage
  <2>1. v \in Sel
    BY <1>6, <1>7, <1>8, <1>13
  <2>2. bonded' = visited' \cap Sel
    BY <1>2, <1>8, <1>13, <2>1
  <2> QED
    BY <1>2, <1>4, <1>8, <1>10, <1>13, <2>2
<1> QED
  BY <1>1, <1>11, <1>12, <1>13 DEF Visit

\* Every pass of either loop keeps the invariant.
LEMMA LoopInvariance == LoopSpec => []LoopInv
<1>1. LoopInv /\ [LoopNext]_loopVars => LoopInv'
  <2> SUFFICES ASSUME LoopInv, [LoopNext]_loopVars PROVE LoopInv'
    OBVIOUS
  <2>1. CASE UNCHANGED loopVars
    BY <2>1, Zenon DEF loopVars, LoopInv, Dropped, Walked, BondsSelected, powerIndex
  <2> QED
    BY <2>1, DropJailedInv, LoopExitInv, LoopBodyInv DEF LoopNext
<1> QED
  BY <1>1, LoopInitInv, PTL DEF LoopSpec

\* The closed form that ValidatorSet uses for the whole of EndBlock is what the
\* loop of ApplyAndReturnValidatorSetUpdates computes, for every number of
\* validators, every power, volunteer map and parameter, and in whatever order
\* Go ranges over the map.
THEOREM LoopBondsSelected == LoopSpec => []BondsSelected
  BY LoopInvariance, PTL DEF LoopInv

\* The loop, whose condition stays true while a volunteer is left in the map,
\* never asks an exhausted iterator for a value.
THEOREM LoopStaysInside == LoopSpec => []NeverReadsPastEnd
<1>1. LoopInv => NeverReadsPastEnd
  BY DEF LoopInv, Walked, NeverReadsPastEnd, Continues, Valid, powerIndex
<1> QED
  BY <1>1, LoopInvariance, PTL

-----------------------------------------------------------------------------
(* The decoders.                                                           *)

\* Frames whose slices are nested, the outer one being the n bytes of the input.
Nested(s, n) ==
  /\ \E S : s \in Seq(S)
  /\ s # <<>> /\ s[1].l = n
  /\ \A k \in 1..Len(s) :
       s[k].l \in Nat /\ s[k].l <= n /\ (k > 1 => s[k].l <= s[k - 1].l)

\* The inductive invariant. A field may be skipped from its tag on only because
\* the tag was in the slice.
Inv ==
  /\ dAtA \in Seq(0..255) /\ Nested(stack, Len(dAtA))
  /\ iNdEx \in Nat /\ shift \in Nat /\ acc \in Nat /\ depth \in Nat /\ preIndex \in Nat
  /\ pc = "switch" \/ (pc = "tag" /\ shift > 0) => preIndex <= l
  /\ iNdEx > l => pc = "skip" /\ depth > 0
  /\ status = "ok" => Len(stack) = 1 /\ iNdEx = Len(dAtA)

-----------------------------------------------------------------------------
\* Every slice ends inside the input: StaysInSlice in terms of the frames.
LEMMA InvImplies == Inv => StaysInSlice
<1> SUFFICES ASSUME Inv PROVE StaysInSlice
  OBVIOUS
<1>1. PICK S : stack \in Seq(S)
  BY DEF Inv, Nested
<1>2. \A k \in 1..Len(stack) :
        stack[k].l <= IF k = 1 THEN Len(dAtA) ELSE stack[k - 1].l
  BY <1>1 DEF Inv, Nested
<1> QED
  BY <1>2 DEF Inv, StaysInSlice

\* The slice of the inner frame, and a frame put in its place.
LastSlice(s) == s[Len(s)].l
ReplaceLast(s, e) == [s EXCEPT ![Len(s)] = e]
SameSlice(s, e) == e.l = LastSlice(s)

\* Store changes the message of the inner frame: the slices stay.
LEMMA Replaced ==
  ASSUME NEW s, NEW n, NEW e, Nested(s, n), SameSlice(s, e)
  PROVE  Nested(ReplaceLast(s, e), n) /\ LastSlice(ReplaceLast(s, e)) = LastSlice(s)
<1> USE DEF SameSlice, LastSlice
<1>1. PICK S : s \in Seq(S)
  BY DEF Nested
<1> DEFINE r == [s EXCEPT ![Len(s)] = e]
<1>2. Len(s) \in Nat /\ Len(s) > 0
  BY <1>1 DEF Nested
<1>3. r \in Seq(S \cup {e}) /\ Len(r) = Len(s)
  BY <1>1, <1>2
<1>4. \A k \in 1..Len(s) : r[k].l = s[k].l
  BY <1>1, <1>2
<1> HIDE DEF r
<1>5. \A k \in 1..Len(r) : r[k].l \in Nat /\ r[k].l <= n /\ (k > 1 => r[k].l <= r[k - 1].l)
  <2> SUFFICES ASSUME NEW k \in 1..Len(r)
               PROVE  r[k].l \in Nat /\ r[k].l <= n /\ (k > 1 => r[k].l <= r[k - 1].l)
    OBVIOUS
  <2>1. s[k].l \in Nat /\ s[k].l <= n /\ (k > 1 => s[k].l <= s[k - 1].l)
    BY <1>3, SMTT(30) DEF Nested
  <2>2. r[k].l = s[k].l /\ (k > 1 => r[k - 1].l = s[k - 1].l)
    BY <1>2, <1>3, <1>4
  <2> QED
    BY <2>1, <2>2
<1>6. r # <<>> /\ r[1].l = n
  BY <1>2, <1>3, <1>4 DEF Nested
<1>7. \E T : r \in Seq(T)
  BY <1>3
<1>8. Nested(r, n)
  BY <1>5, <1>6, <1>7 DEF Nested
<1>9. r[Len(r)].l = s[Len(s)].l
  BY <1>2, <1>3, <1>4
<1> QED
  BY <1>8, <1>9, Zenon DEF r, ReplaceLast

\* Slice calls an inner Unmarshal, on a slice of its own.
LEMMA Pushed ==
  ASSUME NEW s, NEW n, NEW e, Nested(s, n), e.l \in Nat, e.l <= s[Len(s)].l
  PROVE  \A r : r = Append(s, e) =>
           Nested(r, n) /\ Len(r) = Len(s) + 1 /\ r[Len(r)] = e
<1>1. PICK S : s \in Seq(S)
  BY DEF Nested
<1> DEFINE r == Append(s, e)
<1>2. Len(s) \in Nat /\ Len(s) > 0
  BY <1>1 DEF Nested
<1>3. r \in Seq(S \cup {e}) /\ Len(r) = Len(s) + 1 /\ r[Len(s) + 1] = e
      /\ \A k \in 1..Len(s) : r[k] = s[k]
  <2>1. s \in Seq(S \cup {e}) /\ e \in S \cup {e}
    BY <1>1
  <2> QED
    BY <2>1
<1> HIDE DEF r
<1>4. \A k \in 1..Len(r) : r[k].l \in Nat /\ r[k].l <= n /\ (k > 1 => r[k].l <= r[k - 1].l)
  <2> SUFFICES ASSUME NEW k \in 1..Len(r)
               PROVE  r[k].l \in Nat /\ r[k].l <= n /\ (k > 1 => r[k].l <= r[k - 1].l)
    OBVIOUS
  <2>1. CASE k = Len(s) + 1
    <3>1. s[Len(s)].l \in Nat /\ s[Len(s)].l <= n /\ n \in Nat
      BY <1>2 DEF Nested
    <3>2. r[k] = e /\ r[k - 1] = s[Len(s)]
      BY <1>2, <1>3, <2>1
    <3> QED
      BY <3>1, <3>2
  <2>2. CASE k \in 1..Len(s)
    <3>1. s[k].l \in Nat /\ s[k].l <= n /\ (k > 1 => s[k].l <= s[k - 1].l)
      BY <2>2 DEF Nested
    <3>2. r[k] = s[k] /\ (k > 1 => r[k - 1] = s[k - 1])
      BY <1>2, <1>3, <2>2
    <3> QED
      BY <3>1, <3>2
  <2> QED
    BY <1>2, <1>3, <2>1, <2>2
<1>5. r # <<>> /\ r[1].l = n
  BY <1>2, <1>3 DEF Nested
<1>6. \E T : r \in Seq(T)
  BY <1>3
<1>7. Nested(r, n)
  BY <1>4, <1>5, <1>6 DEF Nested
<1>8. Len(r) = Len(s) + 1 /\ r[Len(r)] = e
  BY <1>3
<1> QED
  BY <1>7, <1>8 DEF r

\* Return leaves an inner Unmarshal.
LEMMA Popped ==
  ASSUME NEW s, NEW n, Nested(s, n), Len(s) > 1
  PROVE  \A r : r = SubSeq(s, 1, Len(s) - 1) =>
           Nested(r, n) /\ Len(r) = Len(s) - 1 /\ r[Len(r)] = s[Len(s) - 1]
<1>1. PICK S : s \in Seq(S)
  BY DEF Nested
<1> DEFINE r == SubSeq(s, 1, Len(s) - 1)
<1>2. Len(s) \in Nat
  BY <1>1
<1>3. r \in Seq(S) /\ Len(r) = Len(s) - 1 /\ \A k \in 1..(Len(s) - 1) : r[k] = s[k]
  BY <1>1, <1>2
<1> HIDE DEF r
<1>4. \A k \in 1..Len(r) : r[k].l \in Nat /\ r[k].l <= n /\ (k > 1 => r[k].l <= r[k - 1].l)
  <2> SUFFICES ASSUME NEW k \in 1..Len(r)
               PROVE  r[k].l \in Nat /\ r[k].l <= n /\ (k > 1 => r[k].l <= r[k - 1].l)
    OBVIOUS
  <2>1. s[k].l \in Nat /\ s[k].l <= n /\ (k > 1 => s[k].l <= s[k - 1].l)
    BY <1>2, <1>3 DEF Nested
  <2>2. r[k] = s[k] /\ (k > 1 => r[k - 1] = s[k - 1])
    BY <1>2, <1>3
  <2> QED
    BY <2>1, <2>2
<1>5. r # <<>> /\ r[1].l = n
  BY <1>2, <1>3 DEF Nested
<1>6. \E T : r \in Seq(T)
  BY <1>3
<1>7. Nested(r, n)
  BY <1>4, <1>5, <1>6 DEF Nested
<1>8. Len(r) = Len(s) - 1 /\ r[Len(r)] = s[Len(s) - 1]
  BY <1>2, <1>3
<1> QED
  BY <1>7, <1>8 DEF r

-----------------------------------------------------------------------------
\* The innermost slice is a part of the input.
LEMMA SliceInInput == Inv => l \in Nat /\ l <= Len(dAtA)
<1> SUFFICES ASSUME Inv PROVE l \in Nat /\ l <= Len(dAtA)
  OBVIOUS
<1>1. PICK S : stack \in Seq(S)
  BY DEF Inv, Nested
<1>2. Len(stack) \in 1..Len(stack)
  BY <1>1 DEF Inv, Nested
<1> QED
  BY <1>2 DEF Inv, Nested, l, Top

\* A length is an integer, whatever the varint was.
LEMMA LengthIsInt == acc \in Nat => length \in Int
<1> SUFFICES ASSUME acc \in Nat PROVE length \in Int
  OBVIOUS
<1>1. 2^Width \in Nat \ {0} /\ 2^(Width - 1) \in Nat
  BY WireAssumption
<1>2. acc % 2^Width \in Int
  BY <1>1
<1> QED
  BY <1>1, <1>2 DEF length, Signed

\* An element of a sequence.
LEMMA ElementOf ==
  ASSUME NEW S, NEW s \in Seq(S), NEW k \in 1..Len(s)
  PROVE  s[k] \in S
OBVIOUS

\* Seven bits in their place are a natural number.
LEMMA GroupIsNat ==
  ASSUME shift \in Nat, shift < Width, NEW b \in 0..255
  PROVE  Group(b) \in Nat
<1>1. Width - shift \in 0..Width /\ shift \in 0..Width
  BY WireAssumption
<1>2. 2^(Width - shift) \in Nat \ {0} /\ 2^shift \in Nat \ {0}
  BY <1>1, WireAssumption
<1> DEFINE p == 2^(Width - shift)
           q == 2^shift
<1>3. b % 128 \in Nat
  OBVIOUS
<1>4. (b % 128) % p \in Nat
  BY <1>2, <1>3
<1>5. ((b % 128) % p) * q \in Nat
  BY <1>2, <1>4
<1> QED
  BY <1>5 DEF Group

\* Calling Unmarshal establishes the invariant.
LEMMA InvInit == Init => Inv
<1> SUFFICES ASSUME NEW in \in Inputs, StartUnmarshal(in.type, in.bytes)
             PROVE  Inv
  BY DEF Init
<1> USE DEF StartUnmarshal
<1>1. dAtA \in Seq(0..255) /\ Len(dAtA) \in Nat
  BY WireAssumption
<1> DEFINE e == [type |-> in.type, l |-> Len(dAtA), m |-> EmptyMessage, field |-> 0]
<1>2. stack = <<e>> /\ stack \in Seq({e}) /\ Len(stack) = 1 /\ stack[1] = e
  OBVIOUS
<1>3. stack[1].l = Len(dAtA)
  BY <1>2
<1>4. \A k \in 1..Len(stack) : k = 1
  BY <1>2
<1>5. \E S : stack \in Seq(S)
  BY <1>2, Zenon
<1> HIDE DEF e
<1>6. Nested(stack, Len(dAtA))
  BY <1>1, <1>2, <1>3, <1>4, <1>5, SMTT(30) DEF Nested
<1> QED
  BY <1>1, <1>2, <1>3, <1>6 DEF Inv, l, Top

\* An error leaves everything as it is.
LEMMA FailKeeps ==
  ASSUME Inv, NEW error, error # "ok", Fail(error)
  PROVE  Inv'
BY DEF Inv, Fail, reading, place, l, Top, Nested

\* Storing a value and going on behind it, inside the slice.
LEMMA StoreKeeps ==
  ASSUME Inv, status = "running", NEW m, Store(m), dAtA' = dAtA, status' = status,
         NEW p \in {"tag", "packed"}, Goto(p), place' = place,
         iNdEx' \in Nat, iNdEx' <= l
  PROVE  Inv'
<1> DEFINE e == [type |-> Top.type, l |-> Top.l, m |-> m, field |-> Top.field]
<1>1. stack' = [stack EXCEPT ![Len(stack)] = e] /\ e.l = stack[Len(stack)].l
  BY DEF Store, Top
<1> HIDE DEF e
<1>2. Nested(stack, Len(dAtA))
  BY DEF Inv
<1>3. Nested(stack', Len(dAtA)) /\ stack'[Len(stack')].l = stack[Len(stack)].l
  <2>1. stack' = ReplaceLast(stack, e)
    BY <1>1, Zenon DEF ReplaceLast
  <2>2. SameSlice(stack, e)
    BY <1>1, Zenon DEF SameSlice, LastSlice
  <2>3. Nested(ReplaceLast(stack, e), Len(dAtA)) /\ LastSlice(ReplaceLast(stack, e)) = LastSlice(stack)
    BY <1>2, <2>2, Replaced, Zenon
  <2> QED
    BY <2>1, <2>3, Zenon DEF LastSlice
<1>4. l' = l
  BY <1>3 DEF l, Top
<1>5. Nested(stack', Len(dAtA'))
  BY <1>3
<1>6. shift' = 0 /\ acc' = 0 /\ depth' = depth /\ preIndex' = preIndex /\ pc' # "switch"
  BY DEF Goto, place
<1>7. l \in Nat
  BY SliceInInput
<1>8. ~(iNdEx' > l')
  BY <1>4, <1>7
<1> QED
  BY <1>5, <1>6, <1>8 DEF Inv

\* A step that leaves the frames alone and stays in the slice, or skips a group.
LEMMA MoveKeeps ==
  ASSUME Inv, status = "running", dAtA' = dAtA, stack' = stack, status' = status,
         iNdEx' \in Nat, shift' \in Nat, acc' \in Nat, depth' \in Nat, preIndex' \in Nat,
         iNdEx' <= l \/ (pc' = "skip" /\ depth' > 0),
         pc' = "switch" \/ (pc' = "tag" /\ shift' > 0) => preIndex' <= l
  PROVE  Inv'
<1>1. l' = l /\ l \in Nat
  BY SliceInInput DEF l, Top
<1>2. Nested(stack', Len(dAtA'))
  BY DEF Inv
<1> QED
  BY <1>1, <1>2 DEF Inv

\* One byte of a varint: the index stays in the slice.
LEMMA InvReadByte == Inv /\ ReadByte => Inv'
<1> SUFFICES ASSUME Inv, ReadByte PROVE Inv'
  OBVIOUS
<1>1. CASE shift >= Width /\ Fail("IntOverflow")
  BY <1>1, FailKeeps
<1>2. CASE shift < Width /\ iNdEx >= l /\ Fail("UnexpectedEOF")
  BY <1>2, FailKeeps
<1>3. CASE ~(shift >= Width /\ Fail("IntOverflow"))
           /\ ~(shift < Width /\ iNdEx >= l /\ Fail("UnexpectedEOF"))
  <2> DEFINE b == dAtA[iNdEx + 1]
  <2>1. /\ shift < Width /\ iNdEx < l
        /\ acc' = acc + Group(b)
        /\ IF b < 128 THEN pc' = AfterVarint[pc] /\ shift' = 0
                      ELSE pc' = pc /\ shift' = shift + 7
        /\ iNdEx' = iNdEx + 1
        /\ preIndex' = IF pc = "tag" /\ shift = 0 THEN iNdEx ELSE preIndex
        /\ UNCHANGED <<dAtA, stack, fieldNum, postIndex, depth, status>>
    BY <1>3 DEF ReadByte
  <2>2. l \in Nat /\ l <= Len(dAtA)
    BY SliceInInput
  <2>3. b \in 0..255
    <3>1. dAtA \in Seq(0..255) /\ iNdEx \in Nat /\ Len(dAtA) \in Nat
      BY DEF Inv
    <3>2. iNdEx + 1 \in 1..Len(dAtA)
      BY <2>1, <2>2, <3>1
    <3> QED
      BY <3>1, <3>2, ElementOf, Zenon
  <2> HIDE DEF b
  <2>4. Group(b) \in Nat
    BY <2>1, <2>3, GroupIsNat, Zenon DEF Inv
  <2>5. acc' \in Nat /\ shift' \in Nat /\ depth' \in Nat /\ preIndex' \in Nat /\ iNdEx' \in Nat
    BY <2>1, <2>4 DEF Inv
  <2>6. pc' = "switch" \/ (pc' = "tag" /\ shift' > 0) => pc = "tag" \/ pc = "switch"
    BY <2>1, SMTT(30) DEF ReadByte, AfterVarint
  <2>7. pc' = "switch" \/ (pc' = "tag" /\ shift' > 0) => preIndex' <= l
    BY <2>1, <2>2, <2>6 DEF Inv, ReadByte, AfterVarint
  <2> QED
    BY <2>1, <2>2, <2>5, <2>7, MoveKeeps, SMTT(30) DEF ReadByte
<1> QED
  BY <1>1, <1>2, <1>3

\* The tag picks the field and moves back at most to itself.
LEMMA InvSwitch == Inv /\ Switch => Inv'
<1> SUFFICES ASSUME Inv, Switch PROVE Inv'
  OBVIOUS
<1>1. CASE \E error \in {"EndGroup", "IllegalTag", "WrongWireType"} : Fail(error)
  BY <1>1, FailKeeps
<1>2. CASE ~\E error \in {"EndGroup", "IllegalTag", "WrongWireType"} : Fail(error)
  <2>1. /\ dAtA' = dAtA /\ stack' = stack /\ status' = status /\ status = "running"
        /\ iNdEx' \in {iNdEx, preIndex} /\ preIndex' = preIndex /\ depth' \in {depth, 0}
        /\ shift' = 0 /\ acc' = 0 /\ pc' \in {"skip", "value", "double", "length"}
        /\ pc = "switch"
    BY <1>2 DEF Switch, Goto
  <2>2. iNdEx <= l /\ preIndex <= l /\ iNdEx \in Nat /\ l \in Nat
    BY <2>1, SliceInInput DEF Inv
  <2> QED
    BY <2>1, <2>2, MoveKeeps DEF Inv
<1> QED
  BY <1>1, <1>2

\* A value is stored behind bytes that were in the slice.
LEMMA InvStore == Inv /\ (StoreValue \/ StoreDouble) => Inv'
<1> SUFFICES ASSUME Inv, StoreValue \/ StoreDouble PROVE Inv'
  OBVIOUS
<1>0. l \in Nat /\ iNdEx \in Nat
  BY SliceInInput DEF Inv
<1>1. CASE StoreValue
  <2>1. iNdEx <= l /\ iNdEx' = iNdEx
    BY <1>0, <1>1 DEF StoreValue, Inv
  <2> QED
    BY <1>0, <1>1, <2>1, StoreKeeps DEF StoreValue
<1>2. CASE StoreDouble /\ ~Fail("UnexpectedEOF")
  BY <1>0, <1>2, StoreKeeps DEF StoreDouble
<1>3. CASE Fail("UnexpectedEOF")
  BY <1>3, FailKeeps
<1> QED
  BY <1>1, <1>2, <1>3

\* A field with a length: the new slice ends inside the one it is in.
LEMMA InvSlice == Inv /\ Slice => Inv'
<1> SUFFICES ASSUME Inv, Slice PROVE Inv'
  OBVIOUS
<1> DEFINE post == iNdEx + length
           e == [type |-> Known.of, l |-> post, m |-> Inner(Known, Get(Top.m, Known)),
                 field |-> fieldNum]
<1>1. CASE \E error \in {"InvalidLength", "UnexpectedEOF", "NotANumber"} : Fail(error)
  BY <1>1, FailKeeps
<1>2. CASE ~\E error \in {"InvalidLength", "UnexpectedEOF", "NotANumber"} : Fail(error)
  <2>1. length >= 0 /\ post <= l /\ status = "running" /\ pc = "slice"
    BY <1>2 DEF Slice, SliceWithin
  <2>2. length \in Nat /\ post \in Nat /\ iNdEx <= post /\ l \in Nat /\ iNdEx \in Nat
    BY <2>1, LengthIsInt, SliceInInput, SMTT(30) DEF Inv
  <2>3. \/ /\ \E m : Store(m)
           /\ iNdEx' = post /\ Goto("tag") /\ UNCHANGED <<dAtA, place, status>>
        \/ /\ Goto("packed")
           /\ UNCHANGED <<dAtA, iNdEx, stack, fieldNum, preIndex, depth, status>>
        \/ /\ stack' = Append(stack, e)
           /\ Goto("tag") /\ UNCHANGED <<dAtA, iNdEx, place, status>>
    BY <1>2 DEF Slice, SliceWithin
  <2> HIDE DEF post
  <2>4. CASE /\ \E m : Store(m)
             /\ iNdEx' = post /\ Goto("tag") /\ UNCHANGED <<dAtA, place, status>>
    BY <2>1, <2>2, <2>4, StoreKeeps, SMTT(30)
  <2>5. CASE /\ Goto("packed")
             /\ UNCHANGED <<dAtA, iNdEx, stack, fieldNum, preIndex, depth, status>>
    <3>1. iNdEx' <= l /\ shift' = 0 /\ acc' = 0 /\ pc' = "packed"
      BY <2>1, <2>2, <2>5 DEF Goto
    <3> QED
      BY <2>1, <2>2, <2>5, <3>1, MoveKeeps DEF Inv
  <2>6. CASE /\ stack' = Append(stack, e)
             /\ Goto("tag") /\ UNCHANGED <<dAtA, iNdEx, place, status>>
    <3>1. e.l = post /\ stack[Len(stack)].l = l
      BY DEF l, Top
    <3> HIDE DEF e
    <3>2. Nested(stack, Len(dAtA)) /\ Len(dAtA) \in Nat
      BY DEF Inv
    <3>3. e.l \in Nat /\ e.l <= stack[Len(stack)].l
      BY <2>1, <2>2, <3>1
    <3>4. \A r : r = Append(stack, e) => Nested(r, Len(dAtA)) /\ r[Len(r)] = e
      BY <3>2, <3>3, Pushed, Zenon
    <3>5. Nested(stack', Len(dAtA)) /\ stack'[Len(stack')] = e
      BY <2>6, <3>4, Zenon
    <3>6. l' = post
      BY <3>1, <3>5 DEF l, Top
    <3>7. Nested(stack', Len(dAtA')) /\ iNdEx' <= l' /\ l' \in Nat
      BY <2>2, <2>6, <3>5, <3>6
    <3>8. shift' = 0 /\ acc' = 0 /\ depth' = depth /\ preIndex' = preIndex /\ pc' = "tag"
      BY <2>6 DEF Goto, place
    <3> QED
      BY <2>1, <2>2, <2>6, <3>7, <3>8 DEF Inv
  <2> QED
    BY <2>3, <2>4, <2>5, <2>6, SMTT(30)
<1> QED
  BY <1>1, <1>2

\* A packed list is read inside the slice.
LEMMA InvPacked == Inv /\ (PackedElement \/ PackedEnd) => Inv'
<1> SUFFICES ASSUME Inv, PackedElement \/ PackedEnd PROVE Inv'
  OBVIOUS
<1>1. l \in Nat /\ iNdEx \in Nat /\ iNdEx <= l /\ iNdEx' = iNdEx
  BY SliceInInput DEF Inv, PackedElement, PackedEnd
<1>2. CASE PackedElement
  BY <1>1, <1>2, StoreKeeps DEF PackedElement
<1>3. CASE PackedEnd
  <2>1. shift' = 0 /\ acc' = 0 /\ pc' = "tag" /\ depth' = depth /\ preIndex' = preIndex
    BY <1>3, SMTT(30) DEF PackedEnd, Goto, place
  <2> QED
    BY <1>1, <1>3, <2>1, MoveKeeps DEF PackedEnd, Inv
<1> QED
  BY <1>2, <1>3

\* An inner Unmarshal returns where its slice ends.
LEMMA InvReturn == Inv /\ Return => Inv'
<1> SUFFICES ASSUME Inv, Return PROVE Inv'
  OBVIOUS
<1>1. l \in Nat /\ iNdEx = l /\ status = "running" /\ pc = "tag" /\ shift = 0
  BY SliceInInput DEF Inv, Return, AtEnd
<1>2. CASE Len(stack) = 1
  <2>1. Fail("ok")
    BY <1>1, <1>2 DEF Return
  <2>2. l = Len(dAtA)
    BY <1>2 DEF l, Top, Inv, Nested
  <2> QED
    BY <1>1, <1>2, <2>1, <2>2, Zenon DEF Inv, Fail, reading, place, l, Top, Nested
<1>3. CASE Len(stack) > 1
  <2> DEFINE s == SubSeq(stack, 1, Len(stack) - 1)
             outer == stack[Len(stack) - 1]
             f == Tables[outer.type][Top.field]
             v == CASE f.kind = "message" -> Top.m
                    [] f.kind = "messagePtr" -> <<Top.m>>
                    [] OTHER -> Append(Get(outer.m, f), Top.m)
             e == [type |-> outer.type, l |-> outer.l, m |-> Set(outer.m, f, v),
                   field |-> outer.field]
  <2>1. PICK S : stack \in Seq(S)
    BY DEF Inv, Nested
  <2>2. Nested(stack, Len(dAtA)) /\ Len(stack) \in Nat
    BY <2>1 DEF Inv
  <2>3. /\ stack' = [s EXCEPT ![Len(stack) - 1] = e]
        /\ status' = status
        /\ UNCHANGED <<dAtA, iNdEx, pc, shift, acc, fieldNum, preIndex, postIndex, depth>>
    <3>1. Len(stack) # 1 /\ ~(iNdEx > l)
      BY <1>1, <1>3
    <3>2. /\ stack' = [s EXCEPT ![Len(stack) - 1] = e]
          /\ status' = IF iNdEx > l THEN "UnexpectedEOF" ELSE status
          /\ UNCHANGED <<dAtA, iNdEx, pc, reading, place>>
      BY <3>1, Zenon DEF Return
    <3> QED
      BY <3>1, <3>2, Zenon DEF reading, place
  <2>4. Nested(s, Len(dAtA)) /\ Len(s) = Len(stack) - 1 /\ s[Len(s)] = outer
    <3>1. \A r : r = SubSeq(stack, 1, Len(stack) - 1) =>
            Nested(r, Len(dAtA)) /\ Len(r) = Len(stack) - 1 /\ r[Len(r)] = stack[Len(stack) - 1]
      BY <1>3, <2>2, Popped, Zenon
    <3> QED
      BY <3>1, Zenon
  <2>5. e.l = s[Len(s)].l /\ stack' = [s EXCEPT ![Len(s)] = e]
    BY <2>3, <2>4, Zenon
  <2>6. outer.l \in Nat /\ l <= outer.l
    BY <1>3, <2>2 DEF Nested, l, Top
  <2> HIDE DEF s, outer, e
  <2>7. Nested(stack', Len(dAtA)) /\ stack'[Len(stack')].l = outer.l
    <3>1. stack' = ReplaceLast(s, e)
      BY <2>5, Zenon DEF ReplaceLast
    <3>2. SameSlice(s, e)
      BY <2>5, Zenon DEF SameSlice, LastSlice
    <3>3. Nested(ReplaceLast(s, e), Len(dAtA)) /\ LastSlice(ReplaceLast(s, e)) = LastSlice(s)
      BY <2>4, <3>2, Replaced, Zenon
    <3>4. Nested(stack', Len(dAtA)) /\ stack'[Len(stack')].l = s[Len(s)].l
      BY <3>1, <3>3, Zenon DEF LastSlice
    <3> QED
      BY <2>4, <3>4, Zenon
  <2>8. l' = outer.l
    BY <2>7 DEF l, Top
  <2>9. Nested(stack', Len(dAtA'))
    BY <2>3, <2>7
  <2>10. ~(iNdEx' > l')
    BY <1>1, <2>3, <2>6, <2>8
  <2> QED
    BY <1>1, <2>3, <2>9, <2>10 DEF Inv
<1> QED
  BY <1>2, <1>3, SMTT(30) DEF Return

\* The end of an iteration of skip.
LEMMA SkipToKeeps ==
  ASSUME Inv, status = "running", NEW index \in Nat, NEW d \in Nat, SkipTo(index, d)
  PROVE  Inv'
<1>1. CASE \E error \in {"InvalidLength", "UnexpectedEOF"} : Fail(error)
  BY <1>1, FailKeeps
<1>2. CASE ~\E error \in {"InvalidLength", "UnexpectedEOF"} : Fail(error)
  <2>1. /\ d = 0 => index <= l
        /\ iNdEx' = index /\ depth' = d
        /\ shift' = 0 /\ acc' = 0
        /\ pc' = IF d = 0 THEN "tag" ELSE "skip"
        /\ UNCHANGED <<dAtA, stack, preIndex, status>>
    BY <1>2 DEF SkipTo, Goto
  <2> QED
    BY <2>1, MoveKeeps DEF Inv
<1> QED
  BY <1>1, <1>2

\* skip ends inside the slice, or in a group, where reading fails.
LEMMA InvSkip == Inv /\ (SkipSwitch \/ SkipVarint \/ SkipBytes) => Inv'
<1> SUFFICES ASSUME Inv, SkipSwitch \/ SkipVarint \/ SkipBytes PROVE Inv'
  OBVIOUS
<1>1. iNdEx \in Nat /\ depth \in Nat /\ length \in Int /\ status = "running"
      /\ l \in Nat /\ iNdEx <= l
  BY LengthIsInt, SliceInInput DEF Inv, SkipSwitch, SkipVarint, SkipBytes
<1>2. CASE \E error \in {"UnexpectedEndOfGroup", "IllegalWireType", "InvalidLength"} : Fail(error)
  BY <1>2, FailKeeps
<1>3. CASE \E index \in Nat, d \in Nat : SkipTo(index, d)
  BY <1>1, <1>3, SkipToKeeps
<1>4. CASE /\ Goto("skipVarint") \/ Goto("skipLength")
           /\ UNCHANGED <<dAtA, iNdEx, stack, place, status>>
  <2>1. /\ shift' = 0 /\ acc' = 0 /\ pc' \in {"skipVarint", "skipLength"}
        /\ UNCHANGED <<dAtA, iNdEx, stack, preIndex, depth, status>>
    BY <1>4 DEF Goto, place
  <2> QED
    BY <1>1, <2>1, MoveKeeps DEF Inv
<1>5. CASE SkipVarint
  BY <1>1, <1>3, <1>5 DEF SkipVarint
<1>6. CASE SkipBytes
  <2>1. CASE length >= 0
    BY <1>1, <1>3, <1>6, <2>1 DEF SkipBytes
  <2>2. CASE length < 0
    BY <1>1, <1>2, <1>6, <2>2 DEF SkipBytes
  <2> QED
    BY <1>1, <2>1, <2>2
<1>7. CASE SkipSwitch
  <2>1. \/ Goto(IF wireType = 0 THEN "skipVarint" ELSE "skipLength")
           /\ UNCHANGED <<dAtA, iNdEx, stack, place, status>>
        \/ SkipTo(iNdEx + 8, depth) \/ SkipTo(iNdEx + 4, depth) \/ SkipTo(iNdEx, depth + 1)
        \/ depth # 0 /\ SkipTo(iNdEx, depth - 1)
        \/ Fail("UnexpectedEndOfGroup") \/ Fail("IllegalWireType")
    BY <1>7 DEF SkipSwitch
  <2>2. /\ iNdEx + 8 \in Nat /\ iNdEx + 4 \in Nat /\ depth + 1 \in Nat
        /\ depth # 0 => depth - 1 \in Nat
    BY <1>1
  <2>3. CASE Goto(IF wireType = 0 THEN "skipVarint" ELSE "skipLength")
             /\ UNCHANGED <<dAtA, iNdEx, stack, place, status>>
    BY <1>4, <2>3
  <2> QED
    BY <1>1, <1>2, <1>3, <2>1, <2>2, <2>3, SMTT(30)
<1> QED
  BY <1>5, <1>6, <1>7

-----------------------------------------------------------------------------
\* Unmarshal never reads outside the slice it was given and never hands an
\* inner message more than its own, whatever the bytes, and it returns no error
\* only when it has consumed them all.
THEOREM DecoderStaysInSlice == Spec => []StaysInSlice
<1>1. Init => Inv
  BY InvInit
<1>2. Inv /\ [Unmarshal]_decoder => Inv'
  <2> SUFFICES ASSUME Inv, [Unmarshal]_decoder PROVE Inv'
    OBVIOUS
  <2>1. CASE UNCHANGED decoder
    BY <2>1 DEF decoder, reading, place, Inv, l, Top, Nested
  <2>2. CASE Unmarshal
    BY <2>2, InvReadByte, InvSwitch, InvStore, InvSlice, InvPacked, InvReturn, InvSkip
       DEF Unmarshal
  <2> QED
    BY <2>1, <2>2
<1> QED
  BY <1>1, <1>2, InvImplies, PTL DEF Spec
=============================================================================
