------------------------- MODULE ValidatorSetProofs -------------------------
(***************************************************************************)
(* Proofs about ValidatorSet and Restart, for every set of validators,     *)
(* every parameter, every bound and every list a restart keeps. The        *)
(* inductive invariant is Inv; what holds only between two blocks          *)
(* (BlockInv) is established by BlockValidatorUpdates, and again by an     *)
(* export for height zero, from Inv alone.                                 *)
(***************************************************************************)
EXTENDS Restart, SetLemmas

Inv == TypeOK /\ IndexMatchesRecords /\ LastIsBonded

BlockInv ==
  /\ VolunteersSeated
  /\ SeatsGoByPower
  /\ LastPowerIsCurrent
  /\ LastValidatorsFit

\* The powers of a bonded set sum up to the sum of all the entries that are
\* written for it.
LEMMA TotalOfSet ==
  ASSUME NEW p \in [Validators -> Nat], NEW B \in SUBSET Validators
  PROVE  SumOver(B, p) = SumOver(Validators, [v \in Validators |-> IF v \in B THEN p[v] ELSE 0])
<1> DEFINE g == [v \in Validators |-> IF v \in B THEN p[v] ELSE 0]
<1>1. /\ \A v \in B : p[v] \in Int /\ g[v] = p[v]
      /\ \A v \in Validators \ B : g[v] = 0
  OBVIOUS
<1> HIDE DEF g
<1>2. SumFunctionOnSet(g, Validators) = SumFunctionOnSet(p, B)
  <2>1. IsFiniteSet(Validators)
    BY ValidatorSetAssumption, Zenon
  <2> QED
    BY <1>1, <2>1, SumRestrict
<1> QED
  BY <1>2 DEF SumOver, g

\* The tokens of every validator as a function, in this state and in the next.
LEMMA TokensType ==
  ASSUME TypeOK
  PROVE  /\ tokens \in [Validators -> Nat]
         /\ \A v \in Validators : tokens[v] = Tokens(v) /\ Tokens(v) \in Nat
<1>1. \A v \in Validators : Tokens(v) \in Nat
  BY DEF TypeOK, Tokens, Delegators
<1> QED
  BY <1>1 DEF tokens

\* The pools stay backed when the stake of one validator changes and the pool of
\* its status takes the difference.
LEMMA PoolsMove ==
  ASSUME TypeOK, TypeOK', PoolsBackStake, Bonded' = Bonded, NEW v \in Validators,
         \A u \in Validators \ {v} : Tokens(u)' = Tokens(u),
         v \in Bonded =>
           /\ bondedPool' = bondedPool - Tokens(v) + Tokens(v)'
           /\ notBondedPool' = notBondedPool + unbonding' - unbonding,
         v \notin Bonded =>
           /\ bondedPool' = bondedPool
           /\ notBondedPool' = notBondedPool - Tokens(v) + Tokens(v)'
                               + unbonding' - unbonding
  PROVE  PoolsBackStake'
<1> DEFINE f == tokens
           g == tokens'
           B == Bonded
<1>1. /\ IsFiniteSet(Validators) /\ B \in SUBSET Validators
      /\ \A u \in Validators : f[u] \in Nat /\ g[u] \in Nat
      /\ \A u \in Validators \ {v} : g[u] = f[u]
      /\ f[v] = Tokens(v) /\ g[v] = Tokens(v)'
  <2>1. \A u \in Validators : f[u] = Tokens(u) /\ Tokens(u) \in Nat
    BY TokensType
  <2>2. \A u \in Validators : g[u] = Tokens(u)' /\ Tokens(u)' \in Nat
    <3>1. \A u \in Validators : Tokens(u)' \in Nat
      BY DEF TypeOK, Tokens, Delegators
    <3> QED
      BY <3>1 DEF tokens
  <2>3. IsFiniteSet(Validators)
    BY ValidatorSetAssumption, Zenon
  <2> QED
    BY <2>1, <2>2, <2>3 DEF Bonded
<1>2. /\ bondedPool = SumFunctionOnSet(f, B)
      /\ notBondedPool = SumFunctionOnSet(f, Validators \ B) + unbonding
  BY DEF PoolsBackStake, SumTokens, SumOver
<1>3. /\ unbonding \in Nat /\ unbonding' \in Nat
      /\ f[v] \in Nat /\ g[v] \in Nat
  BY <1>1 DEF TypeOK
<1>4. SUFFICES /\ bondedPool' = SumFunctionOnSet(g, B)
               /\ notBondedPool' = SumFunctionOnSet(g, Validators \ B) + unbonding'
  BY DEF PoolsBackStake, SumTokens, SumOver
<1> HIDE DEF f, g, B
<1>5. IsFiniteSet(B) /\ IsFiniteSet(Validators \ B)
  BY <1>1, FS_Subset
<1>6. SumFunctionOnSet(f, B) \in Nat /\ SumFunctionOnSet(f, Validators \ B) \in Nat
  BY <1>1, <1>5, SumNat
<1>7. CASE v \in B
  <2>1. /\ SumFunctionOnSet(g, B) = SumFunctionOnSet(f, B) - f[v] + g[v]
        /\ SumFunctionOnSet(g, Validators \ B) = SumFunctionOnSet(f, Validators \ B)
    BY <1>1, <1>7, SumSides
  <2> QED
    BY <1>1, <1>2, <1>3, <1>6, <1>7, <2>1 DEF B
<1>8. CASE v \notin B
  <2>1. /\ SumFunctionOnSet(g, B) = SumFunctionOnSet(f, B)
        /\ SumFunctionOnSet(g, Validators \ B)
             = SumFunctionOnSet(f, Validators \ B) - f[v] + g[v]
    BY <1>1, <1>8, SumSides
  <2> QED
    BY <1>1, <1>2, <1>3, <1>6, <1>8, <2>1 DEF B
<1> QED
  BY <1>7, <1>8

\* They stay backed when a block or an export bonds another set of validators
\* and transfers only the difference of the two flows; and what it transfers is
\* there.
LEMMA PoolsExchange ==
  ASSUME TypeOK, PoolsBackStake, NEW C \in SUBSET Validators,
         NEW net, net = SumTokens({v \in C : status[v] # "bonded"}) - SumTokens(Bonded \ C)
  PROVE  /\ bondedPool + net = SumTokens(C)
         /\ notBondedPool - net = SumTokens(Validators \ C) + unbonding
         /\ net <= notBondedPool /\ -net <= bondedPool
         /\ net \in Int /\ bondedPool \in Nat /\ notBondedPool \in Nat
<1> DEFINE f == tokens
           B == Bonded
<1>1. /\ IsFiniteSet(Validators) /\ B \in SUBSET Validators
      /\ \A u \in Validators : f[u] \in Nat
      /\ {v \in C : status[v] # "bonded"} = C \ B
  <2>1. IsFiniteSet(Validators)
    BY ValidatorSetAssumption, Zenon
  <2> QED
    BY <2>1, TokensType DEF Bonded
<1>2. /\ bondedPool = SumFunctionOnSet(f, B)
      /\ notBondedPool = SumFunctionOnSet(f, Validators \ B) + unbonding
      /\ unbonding \in Nat
  BY DEF PoolsBackStake, SumTokens, SumOver, TypeOK
<1> HIDE DEF f, B
<1>3. /\ SumFunctionOnSet(f, C) = SumFunctionOnSet(f, B)
           + SumFunctionOnSet(f, C \ B) - SumFunctionOnSet(f, B \ C)
      /\ SumFunctionOnSet(f, Validators \ C) = SumFunctionOnSet(f, Validators \ B)
           - SumFunctionOnSet(f, C \ B) + SumFunctionOnSet(f, B \ C)
      /\ SumFunctionOnSet(f, C \ B) <= SumFunctionOnSet(f, Validators \ B)
      /\ SumFunctionOnSet(f, B \ C) <= SumFunctionOnSet(f, B)
      /\ SumFunctionOnSet(f, Validators \ B) \in Nat
      /\ SumFunctionOnSet(f, B) \in Nat
      /\ SumFunctionOnSet(f, C \ B) \in Nat
      /\ SumFunctionOnSet(f, B \ C) \in Nat
  BY <1>1, SumExchange, Zenon
<1>4. /\ net = SumFunctionOnSet(f, C \ B) - SumFunctionOnSet(f, B \ C)
      /\ SumTokens(C) = SumFunctionOnSet(f, C)
      /\ SumTokens(Validators \ C) = SumFunctionOnSet(f, Validators \ C)
  BY <1>1 DEF SumTokens, SumOver, f, B
<1> QED
  BY <1>2, <1>3, <1>4

\* Validators without stake add nothing.
LEMMA TokensInside ==
  ASSUME TypeOK, NEW B \in SUBSET Validators,
         \A v \in Validators \ B : Tokens(v) = 0
  PROVE  SumTokens(Validators) = SumTokens(B)
<1> DEFINE f == tokens
<1>1. /\ \A v \in B : f[v] \in Int /\ f[v] = f[v]
      /\ \A v \in Validators \ B : f[v] = 0
  BY TokensType
<1>2. IsFiniteSet(Validators)
  BY ValidatorSetAssumption, Zenon
<1> HIDE DEF f
<1>3. SumFunctionOnSet(f, Validators) = SumFunctionOnSet(f, B)
  BY <1>1, <1>2, SumRestrict
<1> QED
  BY <1>3 DEF SumTokens, SumOver, f

\* The pools are naturals.
LEMMA PoolsNat ==
  ASSUME TypeOK, PoolsBackStake
  PROVE  bondedPool \in Nat /\ notBondedPool \in Nat /\ unbonding \in Nat
<1> DEFINE net == SumTokens({v \in {} : status[v] # "bonded"}) - SumTokens(Bonded \ {})
<1>1. net = SumTokens({v \in {} : status[v] # "bonded"}) - SumTokens(Bonded \ {})
  OBVIOUS
<1> HIDE DEF net
<1>2. bondedPool \in Nat /\ notBondedPool \in Nat
  BY <1>1, PoolsExchange, Zenon
<1> QED
  BY <1>2 DEF TypeOK

\* The same for a redelegation: the stake of two validators changes.
LEMMA PoolsShift ==
  ASSUME TypeOK, TypeOK', PoolsBackStake, Bonded' = Bonded, unbonding' = unbonding,
         NEW v \in Validators, NEW w \in Validators, v # w, NEW amt \in Nat,
         \A u \in Validators \ {v, w} : Tokens(u)' = Tokens(u),
         Tokens(v)' = Tokens(v) - amt, Tokens(w)' = Tokens(w) + amt,
         NEW from, from = IF v \in Bonded THEN amt ELSE 0,
         NEW to, to = IF w \in Bonded THEN amt ELSE 0,
         bondedPool' = bondedPool - from + to,
         notBondedPool' = notBondedPool + from - to
  PROVE  PoolsBackStake'
<1> DEFINE f == tokens
           g == tokens'
           h == [u \in Validators |-> IF u = v THEN g[v] ELSE f[u]]
           B == Bonded
           U == Validators \ Bonded
<1>1. /\ IsFiniteSet(Validators) /\ B \in SUBSET Validators
      /\ \A u \in Validators : f[u] \in Nat /\ g[u] \in Nat
      /\ \A u \in Validators \ {v, w} : g[u] = f[u]
      /\ g[v] = f[v] - amt /\ g[w] = f[w] + amt
  <2>1. \A u \in Validators : f[u] = Tokens(u) /\ Tokens(u) \in Nat
    BY TokensType
  <2>2. \A u \in Validators : g[u] = Tokens(u)' /\ Tokens(u)' \in Nat
    <3>1. \A u \in Validators : Tokens(u)' \in Nat
      BY DEF TypeOK, Tokens, Delegators
    <3> QED
      BY <3>1 DEF tokens
  <2>3. IsFiniteSet(Validators)
    BY ValidatorSetAssumption, Zenon
  <2> QED
    BY <2>1, <2>2, <2>3 DEF Bonded
<1>2. /\ bondedPool = SumFunctionOnSet(f, B)
      /\ notBondedPool = SumFunctionOnSet(f, U) + unbonding
      /\ unbonding \in Nat
  BY DEF PoolsBackStake, SumTokens, SumOver, TypeOK
<1>3. SUFFICES /\ bondedPool' = SumFunctionOnSet(g, B)
               /\ notBondedPool' = SumFunctionOnSet(g, U) + unbonding
  BY DEF PoolsBackStake, SumTokens, SumOver
<1> HIDE DEF f, g
<1>4. /\ \A u \in Validators : h[u] \in Nat
      /\ \A u \in Validators \ {v} : h[u] = f[u]
      /\ \A u \in Validators \ {w} : g[u] = h[u]
      /\ h[v] = g[v] /\ h[w] = f[w]
  BY <1>1
<1> HIDE DEF h, B
<1>5. /\ SumFunctionOnSet(f, B) \in Nat /\ SumFunctionOnSet(f, U) \in Nat
      /\ U = Validators \ B
  <2>1. IsFiniteSet(B) /\ IsFiniteSet(U)
    BY <1>1, FS_Subset DEF B
  <2> QED
    BY <1>1, <2>1, SumNat DEF B
<1> HIDE DEF U
<1>6. /\ SumFunctionOnSet(h, B) = SumFunctionOnSet(f, B) - from
      /\ SumFunctionOnSet(h, U) = SumFunctionOnSet(f, U) - (amt - from)
  <2>1. CASE v \in B
    <3>1. /\ SumFunctionOnSet(h, B) = SumFunctionOnSet(f, B) - f[v] + h[v]
          /\ SumFunctionOnSet(h, U) = SumFunctionOnSet(f, U)
      BY <1>1, <1>4, <1>5, <2>1, SumSides
    <3> QED
      BY <1>1, <1>4, <1>5, <2>1, <3>1, SMTT(30) DEF B
  <2>2. CASE v \notin B
    <3>1. /\ SumFunctionOnSet(h, B) = SumFunctionOnSet(f, B)
          /\ SumFunctionOnSet(h, U) = SumFunctionOnSet(f, U) - f[v] + h[v]
      BY <1>1, <1>4, <1>5, <2>2, SumSides
    <3> QED
      BY <1>1, <1>4, <1>5, <2>2, <3>1 DEF B
  <2> QED
    BY <2>1, <2>2
<1>7. from \in Nat /\ to \in Nat
  OBVIOUS
<1>8. /\ SumFunctionOnSet(g, B) = SumFunctionOnSet(h, B) + to
      /\ SumFunctionOnSet(g, U) = SumFunctionOnSet(h, U) + (amt - to)
  <2>0. SumFunctionOnSet(h, B) \in Int /\ SumFunctionOnSet(h, U) \in Int
    BY <1>5, <1>6, <1>7
  <2>1. CASE w \in B
    <3>1. /\ SumFunctionOnSet(g, B) = SumFunctionOnSet(h, B) - h[w] + g[w]
          /\ SumFunctionOnSet(g, U) = SumFunctionOnSet(h, U)
      BY <1>1, <1>4, <1>5, <2>1, SumSides
    <3> QED
      BY <1>1, <1>4, <2>0, <2>1, <3>1 DEF B
  <2>2. CASE w \notin B
    <3>1. /\ SumFunctionOnSet(g, B) = SumFunctionOnSet(h, B)
          /\ SumFunctionOnSet(g, U) = SumFunctionOnSet(h, U) - h[w] + g[w]
      BY <1>1, <1>4, <1>5, <2>2, SumSides
    <3> QED
      BY <1>1, <1>4, <2>0, <2>2, <3>1 DEF B
  <2> QED
    BY <2>1, <2>2
<1> QED
  BY <1>2, <1>5, <1>6, <1>7, <1>8

USE ValidatorSetAssumption

\* Powers are naturals, and a validator without tokens has none.
LEMMA PowerType ==
  ASSUME TypeOK
  PROVE  /\ \A v \in Validators : Tokens(v) \in Nat
         /\ power \in [Validators -> Nat]
         /\ \A v \in Validators : Tokens(v) = 0 => power[v] = 0
<1>1. \A v \in Validators : Tokens(v) \in Nat
  BY DEF TypeOK, Tokens, Delegators
<1>2. \A n \in Nat : n \div PowerReduction \in Nat /\ 0 \div PowerReduction = 0
  OBVIOUS
<1> QED
  BY <1>1, <1>2 DEF power

\* Init establishes the invariant.
LEMMA InitInv == Init => Inv /\ BlockInv
<1> SUFFICES ASSUME Init PROVE Inv /\ BlockInv
  OBVIOUS
<1>1. TypeOK
  <2>1. stake \in [Validators -> [Delegators -> Nat]]
    <3>1. PICK amt \in [Validators -> Amounts] :
            stake = [v \in Validators |->
                       [d \in Delegators |->
                          IF v \in powerIndex /\ d = "self" THEN amt[v] ELSE 0]]
      BY DEF Init
    <3>2. \A v \in Validators : amt[v] \in Nat
      BY Zenon
    <3> QED
      BY <3>1, <3>2
  <2> QED
    BY <2>1 DEF Init, TypeOK, Statuses
<1>2. IndexMatchesRecords
  BY Zenon DEF Init, IndexMatchesRecords, Exists
<1>3. LastIsBonded
  BY DEF Init, LastIsBonded, LastSet, Bonded
<1>4. BlockInv
  BY DEF Init, BlockInv, VolunteersSeated, SeatsGoByPower, LastPowerIsCurrent,
         LastValidatorsFit
<1> QED
  BY <1>1, <1>2, <1>3, <1>4 DEF Inv

\* Unbond keeps the records, the jailed flags and the power index in step, and
\* never takes a validator out of the bonded ones.
LEMMA UnbondInv ==
  ASSUME Inv, NEW v \in Validators, NEW d, NEW amt \in Nat, Exists(v),
         Unbond(v, d, amt)
  PROVE  /\ status' \in [Validators -> Statuses]
         /\ jailed' \in [Validators -> BOOLEAN]
         /\ powerIndex' \subseteq Validators
         /\ IndexMatchesRecords'
         /\ Bonded' = Bonded
<1> DEFINE J == JailedByUnbond(v, d, amt)
           R == RemovedByUnbond(v, amt)
<1>1. status' \in [Validators -> Statuses] /\ powerIndex' \subseteq Validators
  BY DEF Inv, TypeOK, Unbond, Statuses
<1>2. jailed' \in [Validators -> BOOLEAN]
  BY DEF Inv, TypeOK, Unbond
<1>3. Bonded' = Bonded
  BY DEF Inv, TypeOK, Unbond, Bonded, RemovedByUnbond
<1>4. \A u \in Validators : u \in powerIndex' <=> Exists(u)' /\ ~jailed'[u]
  <2> SUFFICES ASSUME NEW u \in Validators
               PROVE  u \in powerIndex' <=> Exists(u)' /\ ~jailed'[u]
    OBVIOUS
  <2>1. u \in powerIndex <=> Exists(u) /\ ~jailed[u]
    BY DEF Inv, IndexMatchesRecords
  <2>2. CASE u # v
    BY <2>1, <2>2 DEF Unbond, Exists, Inv, TypeOK
  <2>3. CASE u = v
    <3>1. jailed'[v] <=> (jailed[v] \/ J) /\ ~R
      BY DEF Unbond, Inv, TypeOK
    <3>2. Exists(v)' <=> ~R
      BY DEF Unbond, Inv, TypeOK, Exists
    <3>3. v \in powerIndex' <=> v \in powerIndex /\ ~J /\ ~R
      BY DEF Unbond
    <3> QED
      BY <2>1, <2>3, <3>1, <3>2, <3>3
  <2> QED
    BY <2>2, <2>3
<1> QED
  BY <1>1, <1>2, <1>3, <1>4, Zenon DEF IndexMatchesRecords

\* What Undelegate adds: the stake stays a natural.
LEMMA UnstakeInv ==
  ASSUME Inv, NEW v \in Validators, NEW d \in Delegators, NEW amt \in Nat,
         Exists(v), Unstake(v, d, amt),
         UNCHANGED <<phase, maxValidators, last>>,
         volunteers' \subseteq Validators
  PROVE  Inv'
<1>1. Unbond(v, d, amt)
  BY DEF Unstake
<1>2. /\ status' \in [Validators -> Statuses]
      /\ jailed' \in [Validators -> BOOLEAN]
      /\ powerIndex' \subseteq Validators
      /\ IndexMatchesRecords'
      /\ Bonded' = Bonded
  BY <1>1, UnbondInv
<1>3. stake' \in [Validators -> [Delegators -> Nat]]
  <2>1. stake[v][d] \in Nat /\ amt <= stake[v][d]
    BY <1>1 DEF Inv, TypeOK, Unbond
  <2>2. stake[v][d] - amt \in Nat
    BY <2>1
  <2> QED
    BY <2>2 DEF Unstake, Inv, TypeOK
<1>4. unbonding' \in Nat
  BY DEF Unstake, Inv, TypeOK
<1>5. LastIsBonded'
  BY <1>2 DEF Inv, LastIsBonded, LastSet
<1> QED
  BY <1>2, <1>3, <1>4, <1>5 DEF Inv, TypeOK

\* The messages of x/staking and x/volunteer, one step per action.
LEMMA MessagesInv ==
  ASSUME Inv, NEW v \in Validators, NEW amt \in Amounts
  PROVE  /\ CreateValidator(v, amt) => Inv'
         /\ RegisterVolunteerValidator(v, amt) => Inv'
         /\ \A d \in Delegators : Delegate(v, d, amt) => Inv'
         /\ \A d \in Delegators : Undelegate(v, d, amt) => Inv'
<1>1. amt \in Nat
  OBVIOUS
<1>2. ASSUME NewRecord(v, amt), UNCHANGED <<phase, maxValidators, last>>,
             volunteers' \subseteq Validators
      PROVE  Inv'
  <2>1. stake' \in [Validators -> [Delegators -> Nat]]
    <3>1. [self |-> amt, other |-> 0] \in [Delegators -> Nat]
      BY <1>1 DEF Delegators
    <3> QED
      BY <1>2, <3>1 DEF NewRecord, Inv, TypeOK
  <2>2. TypeOK'
    BY <1>2, <2>1, Zenon DEF NewRecord, Inv, TypeOK, Statuses
  <2>3. IndexMatchesRecords'
    BY <1>2 DEF NewRecord, Inv, TypeOK, IndexMatchesRecords, Exists
  <2>4. LastIsBonded'
    <3>1. Bonded' = Bonded /\ LastSet' = LastSet
      BY <1>2 DEF NewRecord, Inv, TypeOK, Bonded, LastSet, Exists
    <3> QED
      BY <3>1 DEF Inv, LastIsBonded
  <2> QED
    BY <2>2, <2>3, <2>4 DEF Inv
<1>3. CreateValidator(v, amt) => Inv'
  BY <1>2 DEF CreateValidator, params, valset, Inv, TypeOK
<1>4. RegisterVolunteerValidator(v, amt) => Inv'
  BY <1>2 DEF RegisterVolunteerValidator, params, valset, Inv, TypeOK
<1>5. ASSUME NEW d \in Delegators, Delegate(v, d, amt)
      PROVE  Inv'
  <2>1. stake' \in [Validators -> [Delegators -> Nat]]
    BY <1>1, <1>5 DEF Delegate, Inv, TypeOK
  <2> QED
    BY <1>5, <2>1 DEF Delegate, params, valset, Inv, TypeOK, Exists,
                      IndexMatchesRecords, LastIsBonded, LastSet, Bonded
<1>6. ASSUME NEW d \in Delegators, Undelegate(v, d, amt)
      PROVE  Inv'
  BY <1>1, <1>6, UnstakeInv DEF Undelegate, params, valset, Inv, TypeOK
<1> QED
  BY <1>3, <1>4, <1>5, <1>6

\* MsgUnregisterVolunteerValidator, with and without a record.
LEMMA UnregisterInv ==
  ASSUME Inv, NEW v \in Validators, UnregisterVolunteerValidator(v)
  PROVE  Inv'
<1>1. Tokens(v) \in Nat
  BY PowerType DEF Inv
<1>2. CASE Exists(v)
  <2>1. /\ Unstake(v, "self", Tokens(v))
        /\ volunteers' \subseteq Validators
        /\ UNCHANGED <<phase, maxValidators, last>>
    BY <1>2, Zenon DEF UnregisterVolunteerValidator, valset, Inv, TypeOK
  <2> QED
    BY <1>1, <1>2, <2>1, UnstakeInv DEF Delegators
<1>3. CASE ~Exists(v)
  <2>1. UNCHANGED vars
    BY <1>3 DEF UnregisterVolunteerValidator, valset, records, pools, vars
  <2> QED
    BY <2>1 DEF vars, Inv, TypeOK, Exists, IndexMatchesRecords, LastIsBonded,
                LastSet, Bonded
<1> QED
  BY <1>2, <1>3

\* A redelegation: Unbond at the source, a delegation at the destination.
LEMMA BeginRedelegateInv ==
  ASSUME Inv, NEW src \in Validators, NEW dst \in Validators,
         NEW d \in Delegators, NEW e \in Delegators, NEW amt \in Amounts,
         BeginRedelegate(src, d, dst, e, amt)
  PROVE  Inv'
<1>1. amt \in Nat /\ Exists(src) /\ Unbond(src, d, amt) /\ src # dst
  BY DEF BeginRedelegate
<1>2. /\ status' \in [Validators -> Statuses]
      /\ jailed' \in [Validators -> BOOLEAN]
      /\ powerIndex' \subseteq Validators
      /\ IndexMatchesRecords'
      /\ Bonded' = Bonded
  BY <1>1, UnbondInv
<1>3. stake' \in [Validators -> [Delegators -> Nat]]
  <2>1. /\ stake[src][d] \in Nat /\ amt <= stake[src][d]
        /\ stake[dst][e] \in Nat
    BY <1>1 DEF Inv, TypeOK, Unbond
  <2>2. stake[src][d] - amt \in Nat /\ stake[dst][e] + amt \in Nat
    BY <1>1, <2>1
  <2>3. stake' = [stake EXCEPT ![src][d] = @ - amt, ![dst][e] = @ + amt]
    BY DEF BeginRedelegate
  <2>4. [stake EXCEPT ![src][d] = @ - amt] \in [Validators -> [Delegators -> Nat]]
    BY <2>2 DEF Inv, TypeOK
  <2> QED
    BY <1>1, <2>2, <2>3, <2>4, Zenon DEF Inv, TypeOK
<1>4. UNCHANGED <<phase, maxValidators, volunteers, last, unbonding>>
  BY DEF BeginRedelegate, params, valset
<1>5. LastIsBonded'
  BY <1>2, <1>4 DEF Inv, LastIsBonded, LastSet
<1> QED
  BY <1>2, <1>3, <1>4, <1>5 DEF Inv, TypeOK

\* Jailing and unjailing move a validator out of and into the power index.
LEMMA JailInv ==
  ASSUME Inv, NEW v \in Validators, Jail(v) \/ Unjail(v)
  PROVE  Inv'
<1>1. /\ jailed' \in [Validators -> BOOLEAN]
      /\ powerIndex' \subseteq Validators
  BY Zenon DEF Jail, Unjail, Inv, TypeOK
<1>2. UNCHANGED <<phase, maxValidators, volunteers, status, stake, last, unbonding>>
  BY DEF Jail, Unjail, params, valset, pools
<1>3. IndexMatchesRecords'
  <2>1. CASE Jail(v)
    BY <2>1 DEF Jail, Inv, TypeOK, IndexMatchesRecords, Exists
  <2>2. CASE Unjail(v)
    BY <2>2 DEF Unjail, Inv, TypeOK, IndexMatchesRecords, Exists
  <2> QED
    BY <2>1, <2>2
<1>4. LastIsBonded'
  BY <1>2 DEF Inv, LastIsBonded, LastSet, Bonded
<1> QED
  BY <1>1, <1>2, <1>3, <1>4 DEF Inv, TypeOK

\* What ApplyAndReturnValidatorSetUpdates may bond: validators of the index
\* with power, among them every volunteer that is not jailed.
LEMMA BondedSetFacts ==
  ASSUME Inv
  PROVE  /\ bondedSet \subseteq powerIndex
         /\ \A v \in bondedSet : v \in Validators /\ power[v] > 0 /\ Tokens(v) # 0
         /\ \A v \in powerIndex \cap volunteers : power[v] > 0 => v \in bondedSet
BY PowerType DEF bondedSet, Selected, Inv, TypeOK

\* EndBlock: after it the bonded validators and the last validators are exactly
\* those that the walk of the power index selected.
LEMMA BlockValidatorUpdatesSets ==
  ASSUME Inv, NEW mature, NEW paid \in Int,
         BlockValidatorUpdates(mature, paid)
  PROVE  Bonded' = bondedSet /\ LastSet' = bondedSet
<1> DEFINE removed == {v \in mature : Tokens(v) = 0}
<1>1. mature \cap bondedSet = {} /\ removed \subseteq mature
  BY DEF BlockValidatorUpdates
<1>2. status' = [v \in Validators |-> IF v \in removed THEN "none"
                                      ELSE IF v \in mature THEN "unbonded"
                                      ELSE applied[v]]
  BY DEF BlockValidatorUpdates
<1> HIDE DEF removed
<1>3. \A v \in Validators : status'[v] = "bonded" <=> v \in bondedSet
  <2> SUFFICES ASSUME NEW v \in Validators
               PROVE  status'[v] = "bonded" <=> v \in bondedSet
    OBVIOUS
  <2>1. CASE v \in mature
    BY <1>1, <1>2, <2>1
  <2>2. CASE v \notin mature
    <3>1. status'[v] = applied[v]
      BY <1>1, <1>2, <2>2
    <3>2. status[v] = "bonded" => v \in LastSet
      BY DEF Inv, LastIsBonded, Bonded
    <3> QED
      BY <3>1, <3>2 DEF applied, noLongerBonded
  <2> QED
    BY <2>1, <2>2
<1>4. Bonded' = bondedSet
  BY <1>3, BondedSetFacts, Zenon DEF Bonded
<1>5. LastSet' = bondedSet
  <2>1. last' = [v \in Validators |-> IF v \in bondedSet THEN power[v] ELSE 0]
    BY DEF BlockValidatorUpdates, newLast
  <2> QED
    BY <2>1, BondedSetFacts DEF LastSet
<1> QED
  BY <1>4, <1>5

\* EndBlock preserves the invariant.
LEMMA BlockValidatorUpdatesInv ==
  ASSUME Inv, NEW mature \in SUBSET Validators, NEW paid \in 0..unbonding,
         BlockValidatorUpdates(mature, paid)
  PROVE  Inv'
<1> DEFINE removed == {v \in mature : Tokens(v) = 0}
<1>1. /\ phase' = "begin"
      /\ UNCHANGED <<maxValidators, volunteers, stake>>
      /\ last' = [v \in Validators |-> IF v \in bondedSet THEN power[v] ELSE 0]
      /\ status' = [v \in Validators |-> IF v \in removed THEN "none"
                                         ELSE IF v \in mature THEN "unbonded"
                                         ELSE applied[v]]
      /\ jailed' = [v \in Validators |-> jailed[v] /\ v \notin removed]
      /\ powerIndex' = powerIndex \ removed
      /\ unbonding' = unbonding - paid
      /\ mature \subseteq Unbonding \ bondedSet
  BY DEF BlockValidatorUpdates, newLast, params
<1>2. removed \subseteq mature
  OBVIOUS
<1> HIDE DEF removed
<1>3. TypeOK'
  <2>1. applied \in [Validators -> Statuses]
    BY DEF applied, Inv, TypeOK, Statuses
  <2>2. status' \in [Validators -> Statuses]
    BY <1>1, <2>1 DEF Statuses
  <2>3. last' \in [Validators -> Nat]
    BY <1>1, PowerType DEF Inv
  <2>4. unbonding' \in Nat
    BY <1>1 DEF Inv, TypeOK
  <2>5. jailed' \in [Validators -> BOOLEAN]
    BY <1>1 DEF Inv, TypeOK
  <2> QED
    BY <1>1, <2>2, <2>3, <2>4, <2>5, Zenon DEF Inv, TypeOK
<1>4. IndexMatchesRecords'
  <2>1. \A v \in Validators : Exists(v)' <=> Exists(v) /\ v \notin removed
    <3> SUFFICES ASSUME NEW v \in Validators
                 PROVE  Exists(v)' <=> Exists(v) /\ v \notin removed
      OBVIOUS
    <3>1. v \in mature => Exists(v)
      BY <1>1 DEF Unbonding, Exists
    <3>2. v \in bondedSet \cup noLongerBonded => Exists(v)
      BY BondedSetFacts DEF Inv, IndexMatchesRecords, LastIsBonded, Bonded,
                            noLongerBonded, Exists
    <3>3. applied[v] # "none" <=> Exists(v)
      BY <3>2 DEF applied, Exists
    <3> QED
      BY <1>1, <1>2, <3>1, <3>3 DEF Exists
  <2> QED
    BY <1>1, <2>1, Zenon DEF Inv, TypeOK, IndexMatchesRecords
<1>5. LastIsBonded'
  BY BlockValidatorUpdatesSets DEF LastIsBonded
<1> QED
  BY <1>3, <1>4, <1>5 DEF Inv

\* Every step preserves the invariant.
LEMMA NextInv == Inv /\ [Next]_vars => Inv'
<1> SUFFICES ASSUME Inv, [Next]_vars PROVE Inv'
  OBVIOUS
<1>1. ASSUME NEW v \in Validators, NEW amt \in Amounts,
             CreateValidator(v, amt) \/ RegisterVolunteerValidator(v, amt)
      PROVE  Inv'
  BY <1>1, MessagesInv
<1>2. ASSUME NEW v \in Validators, NEW amt \in Amounts, NEW d \in Delegators,
             Delegate(v, d, amt) \/ Undelegate(v, d, amt)
      PROVE  Inv'
  BY <1>2, MessagesInv
<1>3. ASSUME NEW v \in Validators, NEW amt \in Amounts, NEW dst \in Validators,
             NEW d \in Delegators, NEW e \in Delegators,
             BeginRedelegate(v, d, dst, e, amt)
      PROVE  Inv'
  BY <1>3, BeginRedelegateInv
<1>4. ASSUME NEW v \in Validators, Jail(v) \/ Unjail(v)
      PROVE  Inv'
  BY <1>4, JailInv
<1>5. ASSUME NEW v \in Validators, UnregisterVolunteerValidator(v)
      PROVE  Inv'
  BY <1>5, UnregisterInv
<1>6. ASSUME NEW mature \in SUBSET Unbonding, NEW paid \in 0..unbonding,
             BlockValidatorUpdates(mature, paid)
      PROVE  Inv'
  <2>1. mature \in SUBSET Validators
    BY DEF Unbonding
  <2> QED
    BY <1>6, <2>1, BlockValidatorUpdatesInv
<1>7. CASE \/ BeginBlock \/ EndTransactions \/ EndBlockFails
           \/ \E m \in MaxValidatorsSet : UpdateMaxValidators(m)
           \/ UNCHANGED vars
  <2>1. /\ UNCHANGED <<volunteers, status, jailed, stake, powerIndex, last, unbonding>>
        /\ phase' \in {"begin", "deliver", "gov", "halted"}
        /\ maxValidators' \in MaxValidatorsSet
    BY <1>7 DEF BeginBlock, EndTransactions, EndBlockFails, UpdateMaxValidators,
                vars, params, records, valset, pools, Inv, TypeOK
  <2> QED
    BY <2>1 DEF Inv, TypeOK, Exists, IndexMatchesRecords, LastIsBonded, LastSet,
                Bonded
<1> QED
  BY <1>1, <1>2, <1>3, <1>4, <1>5, <1>6, <1>7 DEF Next

\* Every step establishes BlockInv: BlockValidatorUpdates, which alone leads to
\* the phase "begin", from the facts about the selected set.
LEMMA NextBlockInv == Inv /\ BlockInv /\ [Next]_vars => BlockInv'
<1> SUFFICES ASSUME Inv, BlockInv, [Next]_vars, phase' = "begin" PROVE BlockInv'
  BY SMTT(30) DEF BlockInv, VolunteersSeated, SeatsGoByPower, LastPowerIsCurrent,
         LastValidatorsFit
<1>1. CASE UNCHANGED vars
  BY <1>1, SMTT(30) DEF vars, BlockInv, VolunteersSeated, SeatsGoByPower,
              LastPowerIsCurrent, LastValidatorsFit, GetLastValidatorsFails,
              Bonded, LastSet, Exists, power, Tokens, Precedes
<1>2. CASE Next
  <2>1. PICK mature \in SUBSET Unbonding, paid \in 0..unbonding :
               BlockValidatorUpdates(mature, paid)
    <3>1. ~BeginBlock /\ ~EndTransactions /\ ~EndBlockFails
      BY DEF BeginBlock, EndTransactions, EndBlockFails
    <3>2. \A v \in Validators, amt \in Amounts :
            ~CreateValidator(v, amt) /\ ~RegisterVolunteerValidator(v, amt)
      BY DEF CreateValidator, RegisterVolunteerValidator
    <3>3. \A v \in Validators, amt \in Amounts, d \in Delegators :
            ~Delegate(v, d, amt) /\ ~Undelegate(v, d, amt)
      BY DEF Delegate, Undelegate
    <3>4. \A v, dst \in Validators, amt \in Amounts, d, e \in Delegators :
            ~BeginRedelegate(v, d, dst, e, amt)
      BY DEF BeginRedelegate
    <3>5. \A v \in Validators :
            ~Jail(v) /\ ~Unjail(v) /\ ~UnregisterVolunteerValidator(v)
      BY DEF Jail, Unjail, UnregisterVolunteerValidator
    <3>6. \A m \in MaxValidatorsSet : ~UpdateMaxValidators(m)
      BY DEF UpdateMaxValidators
    <3> QED
      BY <1>2, <3>1, <3>2, <3>3, <3>4, <3>5, <3>6 DEF Next
  <2> DEFINE removed == {v \in mature : Tokens(v) = 0}
  <2>2. /\ ~ApplyFails
        /\ UNCHANGED <<maxValidators, volunteers, stake>>
        /\ last' = [v \in Validators |-> IF v \in bondedSet THEN power[v] ELSE 0]
        /\ jailed' = [v \in Validators |-> jailed[v] /\ v \notin removed]
        /\ powerIndex' = powerIndex \ removed
    BY <2>1 DEF BlockValidatorUpdates, newLast, params
  <2>3. power' = power
    BY <2>2 DEF power, Tokens
  <2>4. Bonded' = bondedSet /\ LastSet' = bondedSet
    <3>1. paid \in Int
      BY DEF Inv, TypeOK
    <3> QED
      BY <2>1, <3>1, BlockValidatorUpdatesSets
  <2>5. Inv'
    BY NextInv
  <2>6. /\ power \in [Validators -> Nat]
        /\ \A v \in removed : v \in Validators => power[v] = 0
        /\ powerIndex \in SUBSET Validators
        /\ volunteers \in SUBSET Validators
        /\ maxValidators \in Nat \ {0}
    BY PowerType, Zenon DEF Inv, TypeOK
  <2> HIDE DEF removed
  <2>7. VolunteersSeated'
    <3> SUFFICES ASSUME NEW v \in volunteers, ~jailed'[v], power[v] > 0
                 PROVE  v \in bondedSet
      BY <2>2, <2>3, <2>4, <2>6 DEF VolunteersSeated, Bonded
    <3>1. v \in Validators /\ v \notin removed
      BY <2>6
    <3>2. jailed'[v] <=> jailed[v] /\ v \notin removed
      BY <2>2, <3>1, Zenon
    <3>3. ~jailed[v]
      BY <3>1, <3>2
    <3>4. v \in powerIndex
      BY <2>2, <3>3 DEF ApplyFails
    <3> QED
      BY <3>4, BondedSetFacts
  <2>8. SeatsGoByPower'
    <3>1. Cardinality(bondedSet \ volunteers) <= maxValidators
      BY <2>6, SelectedBound DEF bondedSet
    <3>2. \A u \in bondedSet \ volunteers, v \in powerIndex \ bondedSet :
            ~Precedes(power, v, u)
      BY <2>6, SelectedByPower DEF bondedSet
    <3>3. \A u \in bondedSet \ volunteers, v \in powerIndex' \ bondedSet :
            ~Precedes(power, v, u)
      BY <2>2, <3>2
    <3> QED
      BY <2>2, <2>3, <2>4, <3>1, <3>3 DEF SeatsGoByPower, Precedes
  <2>9. LastPowerIsCurrent'
    <3>1. \A v \in bondedSet : last'[v] = power[v]
      BY <2>2, BondedSetFacts
    <3> QED
      BY <2>3, <2>4, <3>1 DEF LastPowerIsCurrent
  <2>10. LastValidatorsFit'
    <3>1. Cardinality(bondedSet) <= maxValidators + Cardinality(volunteers)
      BY <2>6, SelectedFits DEF bondedSet
    <3>2. ~(Cardinality(LastSet') > maxValidators' + Cardinality(volunteers'))
      <4>1. IsFiniteSet(bondedSet) /\ IsFiniteSet(volunteers)
        <5>1. bondedSet \in SUBSET Validators
          BY BondedSetFacts
        <5> QED
          BY <5>1, <2>6, FS_Subset, Zenon
      <4>2. Cardinality(bondedSet) \in Nat /\ Cardinality(volunteers) \in Nat
        BY <4>1, FS_CardinalityType
      <4> QED
        BY <2>2, <2>4, <2>6, <3>1, <4>2
    <3>3. \A v \in LastSet' : Exists(v)'
      BY <2>5 DEF Inv, LastIsBonded, Bonded, Exists
    <3> QED
      BY <3>2, <3>3 DEF LastValidatorsFit, GetLastValidatorsFails
  <2> QED
    BY <2>7, <2>8, <2>9, <2>10 DEF BlockInv
<1> QED
  BY <1>1, <1>2

\* Export and import at the same height: the index built from the records is
\* the one there was.
LEMMA ExportAppStateInv ==
  ASSUME Inv, BlockInv, ExportAppState
  PROVE  Inv' /\ BlockInv'
<1>1. /\ UNCHANGED <<maxValidators, volunteers, status, jailed, stake, last, unbonding>>
      /\ powerIndex' = {v \in Validators : status[v] # "none" /\ ~jailed[v]}
      /\ phase = "begin" /\ phase' \in {"begin", "halted"}
  BY DEF ExportAppState, Import, params
<1>2. powerIndex' = powerIndex
  BY <1>1 DEF Inv, IndexMatchesRecords, Exists
<1>3. Inv'
  BY <1>1, <1>2 DEF Inv, TypeOK, IndexMatchesRecords, LastIsBonded, LastSet, Bonded, Exists
<1>4. /\ power' = power /\ Bonded' = Bonded /\ LastSet' = LastSet
      /\ GetLastValidatorsFails' = GetLastValidatorsFails
  BY <1>1 DEF power, Tokens, Bonded, LastSet, GetLastValidatorsFails, Exists
<1>5. VolunteersSeated' /\ SeatsGoByPower'
  BY <1>1, <1>2, <1>4 DEF BlockInv, VolunteersSeated, SeatsGoByPower, Precedes
<1>6. LastPowerIsCurrent' /\ LastValidatorsFit'
  BY <1>1, <1>4 DEF BlockInv, LastPowerIsCurrent, LastValidatorsFit
<1> QED
  BY <1>3, <1>5, <1>6 DEF BlockInv

\* The export for height zero bonds what the walk of the old index selects, and
\* after the import the stores agree and the seats go as after a block.
LEMMA ExportForZeroHeightInv ==
  ASSUME Inv, NEW allowed, ExportForZeroHeight(allowed)
  PROVE  Inv' /\ BlockInv'
<1> DEFINE jailed0 == jailedExcept(allowed)
           vol == {v \in volunteers : ~jailed0[v]}
           chosen == Selected(powerIndex, vol, power, maxValidators)
           left == LastSet \ chosen
<1>1. /\ UNCHANGED <<maxValidators, volunteers, stake, unbonding>>
      /\ phase' \in {"begin", "halted"}
      /\ jailed' = jailed0
      /\ status' = [v \in Validators |-> IF v \in chosen THEN "bonded"
                                         ELSE IF v \in left THEN "unbonding" ELSE status[v]]
      /\ powerIndex' = {v \in Validators : status'[v] # "none" /\ ~jailed'[v]}
      /\ last' = [v \in Validators |-> IF v \in chosen THEN power[v] ELSE 0]
      /\ \A v \in volunteers : Exists(v)
  BY Zenon DEF ExportForZeroHeight, Import, params
<1>2. /\ power \in [Validators -> Nat] /\ power' = power
      /\ powerIndex \in SUBSET Validators /\ volunteers \in SUBSET Validators
      /\ maxValidators \in Nat \ {0} /\ vol \in SUBSET Validators
  <2>1. power' = power
    BY <1>1, SMTT(30) DEF power, Tokens
  <2> QED
    BY <2>1, PowerType, ZenonT(30) DEF Inv, TypeOK
<1>3. /\ chosen \subseteq powerIndex
      /\ \A v \in chosen : power[v] > 0
      /\ \A v \in powerIndex \cap vol : power[v] > 0 => v \in chosen
  BY DEF Selected
<1>4. /\ jailed0 \in [Validators -> BOOLEAN]
      /\ \A v \in Validators : jailed[v] => jailed0[v]
  BY DEF jailedExcept, Inv, TypeOK
<1>5. /\ Cardinality(chosen \ vol) <= maxValidators
      /\ Cardinality(chosen) <= maxValidators + Cardinality(vol)
      /\ \A u \in chosen \ vol, v \in powerIndex \ chosen : ~Precedes(power, v, u)
  BY <1>2, SelectedBound, SelectedFits, SelectedByPower, SMTT(30)
<1>6. /\ \A v \in volunteers : ~jailed0[v] => v \in vol
      /\ vol \subseteq volunteers
  OBVIOUS
<1> HIDE DEF jailed0, vol, chosen
<1>7. Bonded' = chosen /\ LastSet' = chosen
  <2>1. \A v \in Validators : status[v] = "bonded" => v \in LastSet
    BY DEF Inv, LastIsBonded, Bonded
  <2>2. Bonded' = chosen
    BY <1>1, <1>2, <1>3, <2>1, Zenon DEF Bonded
  <2>3. LastSet' = chosen
    <3>1. \A v \in Validators : last'[v] > 0 <=> v \in chosen
      BY <1>1, <1>2, <1>3
    <3>2. LastSet' = {v \in Validators : last'[v] > 0}
      BY DEF LastSet
    <3> QED
      BY <1>2, <1>3, <3>1, <3>2, Zenon
  <2> QED
    BY <2>2, <2>3
<1>8. powerIndex' \subseteq powerIndex
  <2>1. \A v \in LastSet : status[v] # "none"
    BY DEF Inv, LastIsBonded, Bonded
  <2>2. \A v \in chosen : status[v] # "none"
    BY <1>3 DEF Inv, IndexMatchesRecords, Exists
  <2>3. \A v \in Validators : status'[v] # "none" => status[v] # "none"
    BY <1>1, <2>1, <2>2
  <2> QED
    BY <1>1, <1>4, <2>3, Zenon DEF Inv, IndexMatchesRecords, Exists
<1>9. TypeOK'
  <2>1. status' \in [Validators -> Statuses]
    BY <1>1 DEF Inv, TypeOK, Statuses
  <2>2. last' \in [Validators -> Nat]
    BY <1>1, <1>2
  <2>3. powerIndex' \subseteq Validators
    BY <1>1
  <2> QED
    BY <1>1, <1>4, <2>1, <2>2, <2>3, SMTT(30) DEF Inv, TypeOK
<1>10. Inv'
  BY <1>1, <1>7, <1>9 DEF Inv, IndexMatchesRecords, LastIsBonded, Exists
<1>11. VolunteersSeated'
  <2> SUFFICES ASSUME NEW v \in volunteers, ~jailed0[v], power[v] > 0
               PROVE  v \in chosen
    BY <1>1, <1>2, <1>7 DEF VolunteersSeated, Bonded
  <2>1. v \in powerIndex
    BY <1>1, <1>2, <1>4 DEF Inv, IndexMatchesRecords
  <2> QED
    BY <1>3, <1>6, <2>1, SMTT(30)
<1>12. IsFiniteSet(chosen) /\ IsFiniteSet(volunteers)
  <2>1. chosen \in SUBSET Validators
    BY <1>2, <1>3
  <2> QED
    BY <1>2, <2>1, FS_Subset, Zenon
<1>13. SeatsGoByPower'
  <2>1. Cardinality(chosen \ volunteers) <= maxValidators
    <3>1. IsFiniteSet(chosen \ vol) /\ chosen \ volunteers \in SUBSET (chosen \ vol)
      <4>1. chosen \ vol \in SUBSET chosen /\ chosen \ volunteers \in SUBSET (chosen \ vol)
        BY <1>6
      <4> QED
        BY <1>12, <4>1, FS_Subset
    <3>2. /\ IsFiniteSet(chosen \ volunteers)
          /\ Cardinality(chosen \ volunteers) <= Cardinality(chosen \ vol)
      BY <3>1, FS_Subset
    <3>3. Cardinality(chosen \ volunteers) \in Nat /\ Cardinality(chosen \ vol) \in Nat
      BY <3>1, <3>2, FS_CardinalityType
    <3> QED
      BY <1>2, <1>5, <3>2, <3>3
  <2>2. \A u \in chosen \ volunteers, v \in powerIndex' \ chosen : ~Precedes(power, v, u)
    BY <1>5, <1>6, <1>8
  <2> QED
    BY <1>1, <1>2, <1>7, <2>1, <2>2, SMTT(30) DEF SeatsGoByPower, Precedes
<1>14. LastPowerIsCurrent'
  <2>1. \A v \in chosen : last'[v] = power[v]
    BY <1>1, <1>2, <1>3
  <2> QED
    BY <1>2, <1>7, <2>1 DEF LastPowerIsCurrent
<1>15. LastValidatorsFit'
  <2>1. /\ IsFiniteSet(vol) /\ Cardinality(vol) <= Cardinality(volunteers)
    BY <1>6, <1>12, FS_Subset
  <2>2. /\ Cardinality(chosen) \in Nat /\ Cardinality(vol) \in Nat
        /\ Cardinality(volunteers) \in Nat
    BY <1>12, <2>1, FS_CardinalityType
  <2>3. ~(Cardinality(LastSet') > maxValidators' + Cardinality(volunteers'))
    BY <1>1, <1>2, <1>5, <1>7, <2>1, <2>2
  <2>4. \A v \in LastSet' : Exists(v)'
    BY <1>10 DEF Inv, LastIsBonded, Bonded, Exists
  <2> QED
    BY <2>3, <2>4 DEF LastValidatorsFit, GetLastValidatorsFails
<1> QED
  BY <1>10, <1>11, <1>13, <1>14, <1>15, ZenonT(30) DEF BlockInv

\* Every step of the chain, and every restart, keeps both invariants.
LEMMA RestartStep == Inv /\ BlockInv /\ [NextRestart]_vars => Inv' /\ BlockInv'
<1> SUFFICES ASSUME Inv, BlockInv, [NextRestart]_vars PROVE Inv' /\ BlockInv'
  OBVIOUS
<1>1. CASE [Next]_vars
  BY <1>1, NextInv, NextBlockInv
<1>2. CASE ExportAppState
  BY <1>2, ExportAppStateInv
<1>3. ASSUME NEW allowed \in SUBSET Validators, ExportForZeroHeight(allowed)
      PROVE  Inv' /\ BlockInv'
  BY <1>3, ExportForZeroHeightInv
<1> QED
  BY <1>1, <1>2, <1>3 DEF NextRestart

\* Both invariants hold in every reachable state, restarts included.
THEOREM Invariance == SpecRestart => [](Inv /\ BlockInv)
  BY InitInv, RestartStep, PTL DEF SpecRestart

\* The type invariant holds for every set of validators and every parameter.
THEOREM TypeCorrect == SpecRestart => []TypeOK
  BY Invariance, PTL DEF Inv

\* The power index and the records never disagree: the panic of the loop on a
\* jailed validator is unreachable in EndBlock, also on a restarted chain.
THEOREM IndexAgrees == SpecRestart => []IndexMatchesRecords
  BY Invariance, PTL DEF Inv

\* The last validators are the bonded ones, so no transition of EndBlock meets
\* a validator in the wrong state.
THEOREM LastAgrees == SpecRestart => []LastIsBonded
  BY Invariance, PTL DEF Inv

\* Every unjailed volunteer with power has its seat when a block ends.
THEOREM VolunteersAreSeated == SpecRestart => []VolunteersSeated
  BY Invariance, PTL DEF BlockInv

\* The seats volunteers do not take go to the validators with most power.
THEOREM OtherSeatsGoByPower == SpecRestart => [](SeatsGoByPower /\ LastPowerIsCurrent)
  BY Invariance, PTL DEF BlockInv

\* The sanity check of GetLastValidators never fires in BeginBlock.
THEOREM SanityCheckHolds == SpecRestart => []LastValidatorsFit
  BY Invariance, PTL DEF BlockInv

\* Where the ante handler sees every staking message, no step gives a volunteer
\* the stake of anybody but its operator.
LEMMA OnlyOperatorStakesStep ==
  ASSUME "nested" \notin Paths, Inv, OnlyOperatorStakes, [Next]_vars
  PROVE  OnlyOperatorStakes'
<1>1. \A v \in Validators, d \in Delegators :
        CheckVolunteerValidator(v, d) /\ v \in volunteers => d = "self"
  BY DEF CheckVolunteerValidator
<1>2. volunteers \subseteq Validators /\ stake \in [Validators -> [Delegators -> Nat]]
  BY DEF Inv, TypeOK
<1>3. ASSUME NEW v \in Validators, NEW amt \in Amounts, NewRecord(v, amt),
             volunteers' \subseteq volunteers \cup {v}
      PROVE  OnlyOperatorStakes'
  BY <1>2, <1>3 DEF NewRecord, OnlyOperatorStakes, Delegators
<1>4. ASSUME NEW v \in Validators, NEW amt \in Amounts,
             CreateValidator(v, amt) \/ RegisterVolunteerValidator(v, amt)
      PROVE  OnlyOperatorStakes'
  BY <1>3, <1>4 DEF CreateValidator, RegisterVolunteerValidator, params
<1>5. ASSUME NEW v \in Validators, NEW amt \in Amounts, NEW d \in Delegators,
             Delegate(v, d, amt) \/ Undelegate(v, d, amt)
      PROVE  OnlyOperatorStakes'
  <2>1. /\ volunteers' = volunteers
        /\ v \in volunteers => d = "self"
        /\ \E n : stake' = [stake EXCEPT ![v][d] = n]
    BY <1>1, <1>5 DEF Delegate, Undelegate, Unstake, params
  <2> QED
    BY <1>2, <2>1, SMTT(30) DEF OnlyOperatorStakes, Delegators
<1>6. ASSUME NEW v \in Validators, NEW amt \in Amounts, NEW dst \in Validators,
             NEW d \in Delegators, NEW e \in Delegators,
             BeginRedelegate(v, d, dst, e, amt)
      PROVE  OnlyOperatorStakes'
  <2>1. /\ volunteers' = volunteers
        /\ v \in volunteers => d = "self"
        /\ dst \in volunteers => e = "self"
        /\ v # dst
        /\ stake' = [stake EXCEPT ![v][d] = @ - amt, ![dst][e] = @ + amt]
    BY <1>1, <1>6 DEF BeginRedelegate, params
  <2> QED
    BY <1>2, <2>1, SMTT(30) DEF OnlyOperatorStakes, Delegators
<1>7. ASSUME NEW v \in Validators, UnregisterVolunteerValidator(v)
      PROVE  OnlyOperatorStakes'
  <2>1. /\ volunteers' \subseteq volunteers
        /\ \/ \E n : stake' = [stake EXCEPT ![v]["self"] = n]
           \/ stake' = stake
    BY <1>7 DEF UnregisterVolunteerValidator, Unstake, records
  <2> QED
    BY <1>2, <2>1 DEF OnlyOperatorStakes, Delegators
<1>8. CASE \/ BeginBlock \/ EndTransactions \/ EndBlockFails
           \/ \E m \in MaxValidatorsSet : UpdateMaxValidators(m)
           \/ \E v \in Validators : Jail(v) \/ Unjail(v)
           \/ \E mature \in SUBSET Unbonding, paid \in 0..unbonding :
                BlockValidatorUpdates(mature, paid)
           \/ UNCHANGED vars
  <2>1. UNCHANGED <<volunteers, stake>>
    BY <1>8 DEF BeginBlock, EndTransactions, EndBlockFails, UpdateMaxValidators,
                Jail, Unjail, BlockValidatorUpdates, vars, params, records
  <2> QED
    BY <2>1, ZenonT(30) DEF OnlyOperatorStakes
<1> QED
  BY <1>4, <1>5, <1>6, <1>7, <1>8 DEF Next

\* The claim of the ante decorator, for every constant: as long as no staking
\* message reaches its handler nested inside another message, a volunteer never
\* has stake that is not its operator's.
THEOREM AnteKeepsOthersOut ==
  ASSUME "nested" \notin Paths
  PROVE  SpecRestart => []OnlyOperatorStakes
<1>1. Init => OnlyOperatorStakes
  BY DEF Init, OnlyOperatorStakes
<1>2. Inv /\ OnlyOperatorStakes /\ [NextRestart]_vars => OnlyOperatorStakes'
  <2> SUFFICES ASSUME Inv, OnlyOperatorStakes, [NextRestart]_vars
               PROVE  OnlyOperatorStakes'
    OBVIOUS
  <2>1. CASE [Next]_vars
    BY <2>1, OnlyOperatorStakesStep
  <2>2. CASE ExportAppState \/ \E allowed \in SUBSET Validators : ExportForZeroHeight(allowed)
    <3>1. UNCHANGED <<volunteers, stake>>
      BY <2>2, Zenon DEF ExportAppState, ExportForZeroHeight, Import, params
    <3> QED
      BY <3>1, Zenon DEF OnlyOperatorStakes
  <2> QED
    BY <2>1, <2>2 DEF NextRestart
<1> QED
  BY <1>1, <1>2, Invariance, PTL DEF SpecRestart

-----------------------------------------------------------------------------
(* LastTotalPower.                                                         *)

TotalIsSum == lastTotalPower = SumOver(Validators, last)

\* The total is written only when an entry changed, which is when it has to be.
LEMMA TotalStep == Inv /\ TotalIsSum /\ [NextRestart]_vars => TotalIsSum'
<1> SUFFICES ASSUME Inv, TotalIsSum, [NextRestart]_vars PROVE TotalIsSum'
  OBVIOUS
<1>1. ASSUME UNCHANGED valset PROVE TotalIsSum'
  BY <1>1 DEF TotalIsSum, SumOver, valset
<1>2. ASSUME NEW B \in SUBSET Validators,
             last' = [v \in Validators |-> IF v \in B THEN power[v] ELSE 0],
             lastTotalPower' = IF last' # last THEN SumOver(B, power) ELSE lastTotalPower
      PROVE  TotalIsSum'
  <2>1. SumOver(B, power) = SumOver(Validators, last')
    BY <1>2, PowerType, TotalOfSet DEF Inv
  <2>2. CASE last' # last
    BY <1>2, <2>1, <2>2 DEF TotalIsSum, SumOver
  <2>3. CASE last' = last
    BY <1>2, <2>3, Zenon DEF TotalIsSum, SumOver
  <2> QED
    BY <2>2, <2>3
<1>3. ASSUME NEW mature, NEW paid, BlockValidatorUpdates(mature, paid)
      PROVE  TotalIsSum'
  <2>1. bondedSet \in SUBSET Validators
    BY BondedSetFacts
  <2>2. /\ last' = [v \in Validators |-> IF v \in bondedSet THEN power[v] ELSE 0]
        /\ lastTotalPower' = IF last' # last THEN SumOver(bondedSet, power)
                             ELSE lastTotalPower
    BY <1>3 DEF BlockValidatorUpdates, newLast
  <2> QED
    BY <1>2, <2>1, <2>2
<1>4. ASSUME NEW allowed, ExportForZeroHeight(allowed)
      PROVE  TotalIsSum'
  <2> DEFINE vol == {v \in volunteers : ~jailedExcept(allowed)[v]}
             chosen == Selected(powerIndex, vol, power, maxValidators)
  <2>1. chosen \in SUBSET Validators
    BY Zenon DEF Selected, Inv, TypeOK
  <2>2. /\ last' = [v \in Validators |-> IF v \in chosen THEN power[v] ELSE 0]
        /\ lastTotalPower' = IF last' # last THEN SumOver(chosen, power)
                             ELSE lastTotalPower
    BY <1>4, Zenon DEF ExportForZeroHeight, Import
  <2> QED
    BY <1>2, <2>1, <2>2
<1>5. ASSUME ExportAppState PROVE TotalIsSum'
  BY <1>1, <1>5 DEF ExportAppState, Import, valset
<1>6. ASSUME NEW v \in Validators, NEW amt \in Amounts,
             CreateValidator(v, amt) \/ RegisterVolunteerValidator(v, amt)
      PROVE  TotalIsSum'
  BY <1>1, <1>6 DEF CreateValidator, RegisterVolunteerValidator
<1>7. ASSUME NEW v \in Validators, NEW amt \in Amounts, NEW d \in Delegators,
             Delegate(v, d, amt) \/ Undelegate(v, d, amt)
      PROVE  TotalIsSum'
  BY <1>1, <1>7 DEF Delegate, Undelegate
<1>8. ASSUME NEW v \in Validators, NEW amt \in Amounts, NEW dst \in Validators,
             NEW d \in Delegators, NEW e \in Delegators,
             BeginRedelegate(v, d, dst, e, amt)
      PROVE  TotalIsSum'
  BY <1>1, <1>8, SMTT(30) DEF BeginRedelegate
<1>9. ASSUME NEW v \in Validators, Jail(v) \/ Unjail(v) \/ UnregisterVolunteerValidator(v)
      PROVE  TotalIsSum'
  BY <1>1, <1>9, Zenon DEF Jail, Unjail, UnregisterVolunteerValidator
<1>10. CASE \/ BeginBlock \/ EndTransactions \/ EndBlockFails
            \/ \E m \in MaxValidatorsSet : UpdateMaxValidators(m)
            \/ UNCHANGED vars
  BY <1>1, <1>10 DEF BeginBlock, EndTransactions, EndBlockFails, UpdateMaxValidators,
                     vars, valset
<1> QED
  BY <1>3, <1>4, <1>5, <1>6, <1>7, <1>8, <1>9, <1>10, Zenon DEF NextRestart, Next

\* When a block ends the last powers are the current ones, and LastTotalPower is
\* their sum at all times, for any number of validators and on restarted chains.
THEOREM LastPowersAreCurrent == SpecRestart => []LastPowersCurrent
<1>1. Init => TotalIsSum
  <2> SUFFICES ASSUME Init PROVE TotalIsSum
    OBVIOUS
  <2>1. lastTotalPower = 0 /\ \A v \in Validators : last[v] = 0
    BY DEF Init
  <2> QED
    BY <2>1, SumZero, Zenon DEF TotalIsSum, SumOver
<1>2. BlockInv /\ TotalIsSum => LastPowersCurrent
  BY DEF BlockInv, TotalIsSum, LastPowersCurrent
<1> QED
  BY <1>1, <1>2, TotalStep, Invariance, PTL DEF SpecRestart

-----------------------------------------------------------------------------
(* The staking pools.                                                      *)

\* A record that is gone leaves no stake behind: CreateValidator overwrites the
\* stake, and would lose what it finds.
NoRecordNoStake == \A v \in Validators : ~Exists(v) => Tokens(v) = 0

StakeInv == NoRecordNoStake /\ PoolsBackStake

\* A step that changes no stake, no pool and no bonded validator.
LEMMA StakeUnchanged ==
  ASSUME StakeInv, UNCHANGED <<stake, pools>>, Bonded' = Bonded,
         \A v \in Validators : ~Exists(v)' => ~Exists(v) \/ Tokens(v) = 0
  PROVE  StakeInv'
<1>1. tokens' = tokens /\ \A v \in Validators : Tokens(v)' = Tokens(v)
  BY DEF tokens, Tokens
<1>2. NoRecordNoStake'
  BY <1>1 DEF StakeInv, NoRecordNoStake
<1>3. PoolsBackStake'
  BY <1>1 DEF StakeInv, PoolsBackStake, SumTokens, SumOver, pools
<1> QED
  BY <1>2, <1>3 DEF StakeInv

\* CreateValidator and RegisterVolunteerValidator.
LEMMA NewRecordStake ==
  ASSUME Inv, Inv', StakeInv, NEW v \in Validators, NEW amt \in Amounts,
         NewRecord(v, amt)
  PROVE  StakeInv'
<1>1. amt \in Nat /\ ~Exists(v)
  BY SMTT(30) DEF NewRecord
<1>2. /\ Tokens(v) = 0 /\ Tokens(v)' = amt
      /\ \A u \in Validators \ {v} : Tokens(u)' = Tokens(u)
  BY <1>1, SMTT(30) DEF NewRecord, StakeInv, NoRecordNoStake, Tokens, Inv, TypeOK
<1>3. \A u \in Validators : Exists(u)' <=> u = v \/ Exists(u)
  BY SMTT(30) DEF NewRecord, Exists, Inv, TypeOK
<1>4. Bonded' = Bonded /\ v \notin Bonded
  BY <1>1 DEF NewRecord, Bonded, Exists, Inv, TypeOK
<1>5. NoRecordNoStake'
  BY <1>2, <1>3 DEF StakeInv, NoRecordNoStake
<1>6. /\ bondedPool' = bondedPool
      /\ notBondedPool' = notBondedPool - Tokens(v) + Tokens(v)' + unbonding' - unbonding
  <2>1. /\ bondedPool' = bondedPool /\ unbonding' = unbonding
        /\ notBondedPool' = notBondedPool + amt
    BY DEF NewRecord
  <2>2. notBondedPool \in Nat /\ unbonding \in Nat
    BY PoolsNat DEF StakeInv, Inv
  <2> QED
    BY <1>1, <1>2, <2>1, <2>2, SMTT(30)
<1>7. PoolsBackStake'
  BY <1>2, <1>4, <1>6, PoolsMove DEF Inv, StakeInv
<1> QED
  BY <1>5, <1>7 DEF StakeInv

\* Delegate.
LEMMA DelegateStake ==
  ASSUME Inv, Inv', StakeInv, NEW v \in Validators, NEW d \in Delegators,
         NEW amt \in Amounts, Delegate(v, d, amt)
  PROVE  StakeInv'
<1>1. amt \in Nat /\ Exists(v) /\ UNCHANGED <<status, unbonding>>
  BY SMTT(30) DEF Delegate
<1>2. /\ Tokens(v) \in Nat /\ Tokens(v)' = Tokens(v) + amt
      /\ \A u \in Validators \ {v} : Tokens(u)' = Tokens(u)
  BY <1>1 DEF Delegate, Tokens, Inv, TypeOK, Delegators
<1>3. Bonded' = Bonded /\ (v \in Bonded <=> status[v] = "bonded")
  BY <1>1 DEF Bonded
<1>4. NoRecordNoStake'
  BY <1>1, <1>2 DEF StakeInv, NoRecordNoStake, Exists
<1>5. bondedPool \in Nat /\ notBondedPool \in Nat /\ unbonding \in Nat
  BY PoolsNat DEF StakeInv, Inv
<1>6. /\ v \in Bonded =>
           /\ bondedPool' = bondedPool - Tokens(v) + Tokens(v)'
           /\ notBondedPool' = notBondedPool + unbonding' - unbonding
      /\ v \notin Bonded =>
           /\ bondedPool' = bondedPool
           /\ notBondedPool' = notBondedPool - Tokens(v) + Tokens(v)'
                               + unbonding' - unbonding
  BY <1>1, <1>2, <1>3, <1>5, SMTT(30) DEF Delegate
<1>7. PoolsBackStake'
  BY <1>2, <1>3, <1>6, PoolsMove, SMTT(30) DEF Inv, StakeInv
<1> QED
  BY <1>4, <1>7, SMTT(30) DEF StakeInv

\* What Unbond leaves of the records: it removes only a record whose whole stake
\* goes.
LEMMA UnbondRecords ==
  ASSUME Inv, NEW v \in Validators, NEW d, NEW amt, Unbond(v, d, amt)
  PROVE  \A u \in Validators : ~Exists(u)' => ~Exists(u) \/ (u = v /\ Tokens(v) = amt)
BY DEF Unbond, RemovedByUnbond, Exists, Inv, TypeOK

\* Undelegate.
LEMMA UnstakeStake ==
  ASSUME Inv, Inv', StakeInv, NEW v \in Validators, NEW d \in Delegators,
         NEW amt \in Nat, Exists(v), Unstake(v, d, amt)
  PROVE  StakeInv'
<1>1. Unbond(v, d, amt) /\ amt <= stake[v][d] /\ unbonding' = unbonding + amt
  BY SMTT(30) DEF Unstake, Unbond
<1>2. /\ Tokens(v) \in Nat /\ Tokens(v)' = Tokens(v) - amt
      /\ \A u \in Validators \ {v} : Tokens(u)' = Tokens(u)
  BY <1>1 DEF Unstake, Tokens, Inv, TypeOK, Delegators
<1>3. Bonded' = Bonded /\ (v \in Bonded <=> status[v] = "bonded")
  BY <1>1, UnbondInv, Zenon DEF Bonded
<1>4. NoRecordNoStake'
  <2> SUFFICES ASSUME NEW u \in Validators, ~Exists(u)' PROVE Tokens(u)' = 0
    BY DEF NoRecordNoStake
  <2>1. ~Exists(u) \/ (u = v /\ Tokens(v) = amt)
    BY <1>1, UnbondRecords, Zenon
  <2>2. CASE u = v
    <3>1. Tokens(v) = amt
      BY <2>1, <2>2, Zenon
    <3> QED
      BY <1>2, <2>2, <3>1, SMTT(30)
  <2>3. CASE u # v
    <3>1. Tokens(u) = 0
      BY <2>1, <2>3, Zenon DEF StakeInv, NoRecordNoStake
    <3> QED
      BY <1>2, <2>3, <3>1, SMTT(30)
  <2> QED
    BY <2>2, <2>3
<1>5. bondedPool \in Nat /\ notBondedPool \in Nat /\ unbonding \in Nat
  BY PoolsNat DEF StakeInv, Inv
<1>6. /\ v \in Bonded =>
           /\ bondedPool' = bondedPool - Tokens(v) + Tokens(v)'
           /\ notBondedPool' = notBondedPool + unbonding' - unbonding
      /\ v \notin Bonded =>
           /\ bondedPool' = bondedPool
           /\ notBondedPool' = notBondedPool - Tokens(v) + Tokens(v)'
                               + unbonding' - unbonding
  BY <1>1, <1>2, <1>3, <1>5 DEF Unstake
<1>7. PoolsBackStake'
  BY <1>2, <1>3, <1>6, PoolsMove DEF Inv, StakeInv
<1> QED
  BY <1>4, <1>7, SMTT(30) DEF StakeInv

\* BeginRedelegate.
LEMMA RedelegateStake ==
  ASSUME Inv, Inv', StakeInv, NEW src \in Validators, NEW dst \in Validators,
         NEW d \in Delegators, NEW e \in Delegators, NEW amt \in Amounts,
         BeginRedelegate(src, d, dst, e, amt)
  PROVE  StakeInv'
<1>1. /\ amt \in Nat /\ src # dst /\ Exists(src) /\ Exists(dst)
      /\ Unbond(src, d, amt) /\ amt <= stake[src][d] /\ unbonding' = unbonding
  BY DEF BeginRedelegate, Unbond
<1>2. /\ Tokens(src)' = Tokens(src) - amt /\ Tokens(dst)' = Tokens(dst) + amt
      /\ \A u \in Validators \ {src, dst} : Tokens(u)' = Tokens(u)
      /\ Tokens(src) \in Nat
  <2>1. stake' = [stake EXCEPT ![src][d] = @ - amt, ![dst][e] = @ + amt]
    BY DEF BeginRedelegate
  <2>2. \A u \in Validators : stake[u]["self"] \in Nat /\ stake[u]["other"] \in Nat
    BY SMTT(30) DEF Inv, TypeOK, Delegators
  <2>3. Tokens(src)' = Tokens(src) - amt
    BY <1>1, <2>1, <2>2, SMTT(30) DEF Tokens, Inv, TypeOK, Delegators
  <2>4. Tokens(dst)' = Tokens(dst) + amt
    BY <1>1, <2>1, <2>2, SMTT(30) DEF Tokens, Inv, TypeOK, Delegators
  <2>5. \A u \in Validators \ {src, dst} : Tokens(u)' = Tokens(u)
    BY <2>1 DEF Tokens, Inv, TypeOK
  <2>6. Tokens(src) \in Nat
    BY <2>2, SMTT(30) DEF Tokens
  <2> QED
    BY <2>3, <2>4, <2>5, <2>6, Zenon
<1>3. Bonded' = Bonded
  BY <1>1, UnbondInv
<1>4. NoRecordNoStake'
  <2> SUFFICES ASSUME NEW u \in Validators, ~Exists(u)' PROVE Tokens(u)' = 0
    BY DEF NoRecordNoStake
  <2>1. ~Exists(u) \/ (u = src /\ Tokens(src) = amt)
    BY <1>1, UnbondRecords, Zenon
  <2>2. CASE ~Exists(u)
    <3>1. u # src /\ u # dst
      BY <1>1, <2>2
    <3>2. Tokens(u)' = Tokens(u) /\ Tokens(u) = 0
      BY <1>2, <2>2, <3>1, Zenon DEF StakeInv, NoRecordNoStake
    <3> QED
      BY <3>2
  <2>3. CASE u = src /\ Tokens(src) = amt
    <3>1. Tokens(u)' = Tokens(src) - amt
      BY <1>2, <2>3, Zenon
    <3> QED
      BY <1>2, <2>3, <3>1
  <2> QED
    BY <2>1, <2>2, <2>3
<1> DEFINE from == IF src \in Bonded THEN amt ELSE 0
           to == IF dst \in Bonded THEN amt ELSE 0
<1>5. /\ bondedPool' = bondedPool - from + to
      /\ notBondedPool' = notBondedPool + from - to
  BY DEF BeginRedelegate, Bonded
<1>6. from = (IF src \in Bonded THEN amt ELSE 0) /\ to = (IF dst \in Bonded THEN amt ELSE 0)
  OBVIOUS
<1> HIDE DEF from, to
<1>7. PoolsBackStake'
  <2>1. TypeOK /\ TypeOK' /\ PoolsBackStake
    BY DEF Inv, StakeInv
  <2> QED
    BY <1>1, <1>2, <1>3, <1>5, <1>6, <2>1, PoolsShift, ZenonT(30)
<1> QED
  BY <1>4, <1>7 DEF StakeInv

\* What ApplyAndReturnValidatorSetUpdates moves between the pools is the tokens
\* of the validators it bonds less those of the ones it no longer bonds.
LEMMA FlowsAre ==
  ASSUME Inv
  PROVE  amtFromNotBondedToBonded - amtFromBondedToNotBonded
           = SumTokens({v \in bondedSet : status[v] # "bonded"}) - SumTokens(Bonded \ bondedSet)
BY DEF Inv, LastIsBonded, amtFromNotBondedToBonded, amtFromBondedToNotBonded, noLongerBonded

\* EndBlock.
LEMMA BlockStake ==
  ASSUME Inv, StakeInv, NEW mature \in SUBSET Validators, NEW paid \in Int,
         BlockValidatorUpdates(mature, paid)
  PROVE  StakeInv'
<1> DEFINE net == amtFromNotBondedToBonded - amtFromBondedToNotBonded
<1>1. /\ bondedPool' = bondedPool + net
      /\ notBondedPool' = notBondedPool - net - paid
      /\ unbonding' = unbonding - paid /\ stake' = stake
  BY DEF BlockValidatorUpdates
<1>2. Bonded' = bondedSet /\ bondedSet \in SUBSET Validators
  BY BlockValidatorUpdatesSets, BondedSetFacts
<1>3. net = SumTokens({v \in bondedSet : status[v] # "bonded"}) - SumTokens(Bonded \ bondedSet)
  BY FlowsAre
<1> HIDE DEF net
<1>4. /\ bondedPool + net = SumTokens(bondedSet)
      /\ notBondedPool - net = SumTokens(Validators \ bondedSet) + unbonding
      /\ net \in Int /\ notBondedPool \in Nat
  <2>1. TypeOK /\ PoolsBackStake
    BY DEF Inv, StakeInv
  <2> QED
    BY <1>2, <1>3, <2>1, PoolsExchange, Zenon
<1>5. tokens' = tokens /\ \A v \in Validators : Tokens(v)' = Tokens(v)
  BY <1>1 DEF tokens, Tokens
<1>6. /\ SumTokens(Bonded)' = SumTokens(bondedSet)
      /\ SumTokens(Validators \ Bonded)' = SumTokens(Validators \ bondedSet)
  BY <1>2, <1>5 DEF SumTokens, SumOver
<1>7. SumTokens(Validators \ bondedSet) \in Int /\ unbonding \in Nat
  <2>1. IsFiniteSet(Validators \ bondedSet)
    <3>1. IsFiniteSet(Validators)
      BY Zenon
    <3> QED
      BY <3>1, FS_Subset
  <2>2. \A v \in Validators \ bondedSet : tokens[v] \in Int
    BY TokensType DEF Inv
  <2> QED
    BY <2>1, <2>2, SumInt, Zenon DEF SumTokens, SumOver, Inv, TypeOK
<1>8. PoolsBackStake'
  BY <1>1, <1>4, <1>6, <1>7 DEF PoolsBackStake
<1>9. NoRecordNoStake'
  <2> DEFINE removed == {v \in mature : Tokens(v) = 0}
  <2>1. status' = [v \in Validators |-> IF v \in removed THEN "none"
                                         ELSE IF v \in mature THEN "unbonded"
                                         ELSE applied[v]]
    BY DEF BlockValidatorUpdates
  <2>2. \A v \in Validators : status'[v] = "none" => v \in removed \/ status[v] = "none"
    BY <2>1 DEF applied
  <2>3. \A v \in removed : Tokens(v) = 0
    OBVIOUS
  <2> HIDE DEF removed
  <2> QED
    BY <1>5, <2>2, <2>3, Zenon DEF StakeInv, NoRecordNoStake, Exists
<1> QED
  BY <1>8, <1>9 DEF StakeInv

\* An export for height zero bonds what it chose.
LEMMA ExportSets ==
  ASSUME Inv, NEW allowed, ExportForZeroHeight(allowed)
  PROVE  LET jailed0 == jailedExcept(allowed)
             chosen == Selected(powerIndex, {v \in volunteers : ~jailed0[v]}, power, maxValidators)
             net == SumTokens({v \in chosen : status[v] # "bonded"}) - SumTokens(Bonded \ chosen)
         IN  /\ chosen \in SUBSET Validators
             /\ Bonded' = chosen
             /\ \A v \in Validators : status'[v] = "none" => status[v] = "none"
             /\ bondedPool' = bondedPool + net
             /\ notBondedPool' = notBondedPool - net
<1> DEFINE jailed0 == jailedExcept(allowed)
           chosen == Selected(powerIndex, {v \in volunteers : ~jailed0[v]}, power, maxValidators)
           net == SumTokens({v \in chosen : status[v] # "bonded"}) - SumTokens(Bonded \ chosen)
<1>1. chosen \in SUBSET Validators
  BY Zenon DEF Selected, Inv, TypeOK
<1>2. LastSet = Bonded
  BY DEF Inv, LastIsBonded
<1>3. /\ bondedPool' = bondedPool + net
      /\ notBondedPool' = notBondedPool - net
      /\ status' = [v \in Validators |-> IF v \in chosen THEN "bonded"
                                         ELSE IF v \in LastSet \ chosen THEN "unbonding"
                                         ELSE status[v]]
  BY <1>2, Zenon DEF ExportForZeroHeight, Import
<1> HIDE DEF chosen
<1>4. Bonded' = chosen
  BY <1>1, <1>2, <1>3, Zenon DEF Bonded
<1>5. \A v \in Validators : status'[v] = "none" => status[v] = "none"
  BY <1>3
<1> QED
  BY <1>1, <1>3, <1>4, <1>5, Zenon DEF chosen

\* Both exports keep the pools backed, so that the check of the staking module's
\* InitGenesis passes on the new chain.
LEMMA ExportStake ==
  ASSUME Inv, StakeInv,
         ExportAppState \/ \E allowed \in SUBSET Validators : ExportForZeroHeight(allowed)
  PROVE  StakeInv' /\ phase' = "begin"
<1>1. /\ UNCHANGED <<stake, unbonding>>
      /\ phase' = IF /\ bondedPool' = SumTokens({v \in Validators : status'[v] = "bonded"})
                     /\ notBondedPool' =
                          SumTokens(Validators \ {v \in Validators : status'[v] = "bonded"})
                          + unbonding
                  THEN "begin" ELSE "halted"
  <2>1. ASSUME NEW r, NEW j, NEW l, NEW t, NEW b, NEW n, Import(r, j, l, t, b, n)
        PROVE  <1>1!:
    BY <2>1 DEF Import
  <2> QED
    BY <2>1, Zenon DEF ExportAppState, ExportForZeroHeight
<1>2. tokens' = tokens /\ \A v \in Validators : Tokens(v)' = Tokens(v)
  BY <1>1 DEF tokens, Tokens
<1>3. SUFFICES StakeInv'
  <2>1. PoolsBackStake' => /\ bondedPool' = SumTokens({v \in Validators : status'[v] = "bonded"})
                           /\ notBondedPool' =
                                SumTokens(Validators \ {v \in Validators : status'[v] = "bonded"})
                                + unbonding
    BY <1>1, <1>2 DEF PoolsBackStake, Bonded, SumTokens, SumOver
  <2> QED
    BY <1>1, <2>1 DEF StakeInv
<1>4. CASE ExportAppState
  <2>1. UNCHANGED <<status, bondedPool, notBondedPool>>
    BY <1>4 DEF ExportAppState, Import
  <2> QED
    BY <1>1, <2>1, StakeUnchanged, SMTT(30) DEF Bonded, Exists, pools
<1>5. ASSUME NEW allowed \in SUBSET Validators, ExportForZeroHeight(allowed)
      PROVE  StakeInv'
  <2> DEFINE chosen == Selected(powerIndex, {v \in volunteers : ~jailedExcept(allowed)[v]},
                                power, maxValidators)
             net == SumTokens({v \in chosen : status[v] # "bonded"}) - SumTokens(Bonded \ chosen)
  <2>1. /\ chosen \in SUBSET Validators
        /\ Bonded' = chosen
        /\ \A v \in Validators : status'[v] = "none" => status[v] = "none"
        /\ bondedPool' = bondedPool + net
        /\ notBondedPool' = notBondedPool - net
    BY <1>5, ExportSets, Zenon
  <2>2. net = SumTokens({v \in chosen : status[v] # "bonded"}) - SumTokens(Bonded \ chosen)
    OBVIOUS
  <2> HIDE DEF chosen, net
  <2>3. /\ bondedPool + net = SumTokens(chosen)
        /\ notBondedPool - net = SumTokens(Validators \ chosen) + unbonding
    <3>1. TypeOK /\ PoolsBackStake
      BY DEF Inv, StakeInv
    <3> QED
      BY <2>1, <2>2, <3>1, PoolsExchange, Zenon
  <2>4. PoolsBackStake'
    BY <1>1, <1>2, <2>1, <2>3 DEF PoolsBackStake, SumTokens, SumOver
  <2>5. NoRecordNoStake'
    BY <1>2, <2>1, Zenon DEF StakeInv, NoRecordNoStake, Exists
  <2> QED
    BY <2>4, <2>5 DEF StakeInv
<1> QED
  BY <1>4, <1>5, SMTT(30)

\* Every step keeps the pools backed, one case per action.
LEMMA StakeStep == Inv /\ Inv' /\ StakeInv /\ [NextRestart]_vars => StakeInv'
<1> SUFFICES ASSUME Inv, Inv', StakeInv, [NextRestart]_vars PROVE StakeInv'
  OBVIOUS
<1>1. ASSUME NEW v \in Validators, NEW amt \in Amounts,
             CreateValidator(v, amt) \/ RegisterVolunteerValidator(v, amt)
      PROVE  StakeInv'
  BY <1>1, NewRecordStake DEF CreateValidator, RegisterVolunteerValidator
<1>2. ASSUME NEW v \in Validators, NEW amt \in Amounts, NEW d \in Delegators,
             Delegate(v, d, amt)
      PROVE  StakeInv'
  BY <1>2, DelegateStake
<1>3. ASSUME NEW v \in Validators, NEW amt \in Amounts, NEW d \in Delegators,
             Undelegate(v, d, amt)
      PROVE  StakeInv'
  <2>1. amt \in Nat /\ Exists(v) /\ Unstake(v, d, amt)
    BY <1>3 DEF Undelegate
  <2> QED
    BY <2>1, UnstakeStake
<1>4. ASSUME NEW v \in Validators, NEW amt \in Amounts, NEW dst \in Validators,
             NEW d \in Delegators, NEW e \in Delegators,
             BeginRedelegate(v, d, dst, e, amt)
      PROVE  StakeInv'
  BY <1>4, RedelegateStake
<1>5. ASSUME NEW v \in Validators, UnregisterVolunteerValidator(v)
      PROVE  StakeInv'
  <2>1. CASE Exists(v)
    <3>1. Unstake(v, "self", Tokens(v))
      BY <1>5, <2>1 DEF UnregisterVolunteerValidator
    <3>2. Tokens(v) \in Nat /\ "self" \in Delegators
      BY PowerType DEF Inv, Delegators
    <3> QED
      BY <2>1, <3>1, <3>2, UnstakeStake, SMTT(30)
  <2>2. CASE ~Exists(v)
    <3>1. UNCHANGED <<status, stake, pools>>
      BY <1>5, <2>2, SMTT(30) DEF UnregisterVolunteerValidator, records
    <3> QED
      BY <3>1, StakeUnchanged DEF Bonded, Exists
  <2> QED
    BY <2>1, <2>2, SMTT(30)
<1>6. ASSUME NEW mature \in SUBSET Unbonding, NEW paid \in 0..unbonding,
             BlockValidatorUpdates(mature, paid)
      PROVE  StakeInv'
  <2>1. mature \in SUBSET Validators /\ paid \in Int
    BY DEF Unbonding, Inv, TypeOK
  <2> QED
    BY <1>6, <2>1, BlockStake, SMTT(30)
<1>7. CASE ExportAppState \/ \E allowed \in SUBSET Validators : ExportForZeroHeight(allowed)
  BY <1>7, ExportStake
<1>8. CASE \/ BeginBlock \/ EndTransactions \/ EndBlockFails
           \/ \E m \in MaxValidatorsSet : UpdateMaxValidators(m)
           \/ \E v \in Validators : Jail(v) \/ Unjail(v)
           \/ UNCHANGED vars
  <2>1. UNCHANGED <<status, stake, pools>>
    BY <1>8 DEF BeginBlock, EndTransactions, EndBlockFails, UpdateMaxValidators,
                Jail, Unjail, vars, records, pools
  <2> QED
    BY <2>1, StakeUnchanged, SMTT(30) DEF Bonded, Exists
<1> QED
  BY <1>1, <1>2, <1>3, <1>4, <1>5, <1>6, <1>7, <1>8, Zenon DEF NextRestart, Next

\* At genesis nothing is bonded.
LEMMA InitStake == Init => StakeInv
<1> SUFFICES ASSUME Init PROVE StakeInv
  OBVIOUS
<1>1. TypeOK
  BY InitInv DEF Inv
<1>2. PICK amt \in [Validators -> Amounts] :
        stake = [v \in Validators |->
                   [d \in Delegators |->
                      IF v \in powerIndex /\ d = "self" THEN amt[v] ELSE 0]]
  BY DEF Init
<1>3. \A v \in Validators \ powerIndex : Tokens(v) = 0
  BY <1>2 DEF Tokens, Delegators
<1>4. NoRecordNoStake
  BY <1>3, SMTT(30) DEF Init, NoRecordNoStake, Exists
<1>5. Bonded = {} /\ Validators \ Bonded = Validators
  BY DEF Init, Bonded
<1>6. SumTokens({}) = 0
  BY SumEmpty DEF SumTokens, SumOver
<1>7. SumTokens(powerIndex) = SumTokens(Validators)
  BY <1>1, <1>3, TokensInside DEF TypeOK
<1>8. SumTokens(Validators) \in Nat
  <2>1. IsFiniteSet(Validators)
    BY Zenon
  <2> QED
    BY <1>1, <2>1, TokensType, SumNat, Zenon DEF SumTokens, SumOver
<1>9. PoolsBackStake
  BY <1>5, <1>6, <1>7, <1>8 DEF Init, PoolsBackStake
<1> QED
  BY <1>4, <1>9 DEF StakeInv

\* The two staking pools hold at all times exactly the tokens of the validators
\* on their side (and of unbonding delegations), for any number of validators
\* and volunteers, though EndBlock and the export for height zero transfer only
\* the difference of the two flows.
THEOREM PoolsAreBacked == SpecRestart => []PoolsBackStake
<1>1. Inv /\ StakeInv => PoolsBackStake
  BY DEF StakeInv
<1> QED
  BY <1>1, InitStake, StakeStep, Invariance, PTL DEF SpecRestart

-----------------------------------------------------------------------------
(* Halts.                                                                  *)

\* With the stores in step and the pools backed, ApplyAndReturnValidatorSetUpdates
\* fails only on a volunteer without record.
LEMMA ApplyFailsOnly ==
  ASSUME Inv, StakeInv, ApplyFails
  PROVE  \E v \in volunteers : ~Exists(v)
<1>1. \A v \in powerIndex : Exists(v) /\ ~jailed[v]
  BY DEF Inv, IndexMatchesRecords
<1>2. \A v \in LastSet : status[v] = "bonded"
  BY DEF Inv, LastIsBonded, Bonded
<1>3. \A v \in LastSet : Exists(v)
  BY <1>2 DEF Exists
<1>4. \A v \in volunteers : Exists(v) /\ ~jailed[v] => v \in powerIndex
  BY DEF Inv, TypeOK, IndexMatchesRecords
<1> DEFINE net == amtFromNotBondedToBonded - amtFromBondedToNotBonded
<1>5. /\ net <= notBondedPool /\ -net <= bondedPool
      /\ net \in Int /\ bondedPool \in Nat /\ notBondedPool \in Nat
  <2>1. TypeOK /\ PoolsBackStake /\ bondedSet \in SUBSET Validators
    BY BondedSetFacts DEF Inv, StakeInv
  <2>2. net = SumTokens({v \in bondedSet : status[v] # "bonded"}) - SumTokens(Bonded \ bondedSet)
    BY FlowsAre
  <2> HIDE DEF net
  <2> QED
    BY <2>1, <2>2, PoolsExchange, Zenon
<1>6. amtFromNotBondedToBonded \in Int /\ amtFromBondedToNotBonded \in Int
  <2>1. \A S \in SUBSET Validators : SumTokens(S) \in Int
    <3> SUFFICES ASSUME NEW S \in SUBSET Validators PROVE SumTokens(S) \in Int
      OBVIOUS
    <3>1. IsFiniteSet(Validators)
      BY Zenon
    <3>2. IsFiniteSet(S)
      BY <3>1, FS_Subset, Zenon
    <3>3. \A v \in S : tokens[v] \in Int
      BY TokensType DEF Inv
    <3> QED
      BY <3>2, <3>3, SumInt, Zenon DEF SumTokens, SumOver
  <2>2. /\ {v \in bondedSet : status[v] # "bonded"} \in SUBSET Validators
        /\ noLongerBonded \in SUBSET Validators
    BY BondedSetFacts DEF noLongerBonded, LastSet
  <2> QED
    BY <2>1, <2>2, Zenon DEF amtFromNotBondedToBonded, amtFromBondedToNotBonded
<1>7. /\ ~(amtFromNotBondedToBonded - amtFromBondedToNotBonded > notBondedPool)
      /\ ~(amtFromBondedToNotBonded - amtFromNotBondedToBonded > bondedPool)
  BY <1>5, <1>6
<1>8. \A v \in noLongerBonded : status[v] = "bonded"
  BY <1>2 DEF noLongerBonded
<1> QED
  BY <1>1, <1>3, <1>4, <1>7, <1>8, Zenon DEF ApplyFails

\* Every step: BeginBlock passes its sanity check, an import its check of the
\* pools, and a halted chain takes no step.
LEMMA HaltStep ==
  ASSUME Inv, BlockInv, StakeInv, HaltsOnlyOnMissingRecord, [NextRestart]_vars
  PROVE  HaltsOnlyOnMissingRecord'
<1>1. CASE BeginBlock
  BY <1>1 DEF BeginBlock, BlockInv, LastValidatorsFit, HaltsOnlyOnMissingRecord
<1>2. CASE EndBlockFails
  <2>1. \E v \in volunteers : ~Exists(v)
    BY <1>2, ApplyFailsOnly DEF EndBlockFails
  <2>2. UNCHANGED <<volunteers, status>>
    BY <1>2 DEF EndBlockFails, params, records
  <2> QED
    BY <2>1, <2>2, Zenon DEF HaltsOnlyOnMissingRecord, Exists
<1>3. CASE ExportAppState \/ \E allowed \in SUBSET Validators : ExportForZeroHeight(allowed)
  <2>1. phase' = "begin"
    BY <1>3, ExportStake, SMTT(30)
  <2> QED
    BY <2>1 DEF HaltsOnlyOnMissingRecord
<1>4. CASE UNCHANGED vars
  BY <1>4 DEF vars, HaltsOnlyOnMissingRecord, Exists
<1>5. ASSUME phase' # "halted" PROVE HaltsOnlyOnMissingRecord'
  BY <1>5 DEF HaltsOnlyOnMissingRecord
<1>6. ASSUME NEW v \in Validators, NEW amt \in Amounts,
             \/ CreateValidator(v, amt) \/ RegisterVolunteerValidator(v, amt)
             \/ \E d \in Delegators : Delegate(v, d, amt) \/ Undelegate(v, d, amt)
             \/ \E dst \in Validators, d, e \in Delegators : BeginRedelegate(v, d, dst, e, amt)
      PROVE  phase' # "halted"
  <2>1. phase' = phase /\ phase \in {"deliver", "gov"}
    BY <1>6, Zenon DEF CreateValidator, RegisterVolunteerValidator, Delegate, Undelegate,
                       BeginRedelegate
  <2> QED
    BY <2>1
<1>7. CASE \/ \E v \in Validators : Jail(v) \/ Unjail(v) \/ UnregisterVolunteerValidator(v)
           \/ \E m \in MaxValidatorsSet : UpdateMaxValidators(m)
  <2>1. phase' = phase /\ phase \in {"deliver", "gov"}
    BY <1>7, Zenon DEF Jail, Unjail, UnregisterVolunteerValidator, UpdateMaxValidators
  <2> QED
    BY <1>5, <2>1
<1>8. CASE \/ EndTransactions
           \/ \E mature \in SUBSET Unbonding, paid \in 0..unbonding :
                BlockValidatorUpdates(mature, paid)
  BY <1>5, <1>8 DEF EndTransactions, BlockValidatorUpdates
<1> QED
  BY <1>1, <1>2, <1>3, <1>4, <1>5, <1>6, <1>7, <1>8, Zenon DEF NextRestart, Next

\* For every set of validators, every parameter and every restart: neither
\* BeginBlock nor EndBlock nor an import panics or fails, but for the
\* mustGetValidator of a volunteer whose record is gone. Every other panic and
\* error of ApplyAndReturnValidatorSetUpdates and GetLastValidators is dead code.
THEOREM OnlyMissingRecordHalts == SpecRestart => []HaltsOnlyOnMissingRecord
<1>1. Init => HaltsOnlyOnMissingRecord
  BY DEF Init, HaltsOnlyOnMissingRecord
<1>2. /\ Inv /\ BlockInv /\ StakeInv /\ HaltsOnlyOnMissingRecord /\ [NextRestart]_vars
      => HaltsOnlyOnMissingRecord'
  BY HaltStep
<1> QED
  BY <1>1, <1>2, InitStake, StakeStep, Invariance, PTL DEF SpecRestart
=============================================================================
