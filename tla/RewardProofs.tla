---------------------------- MODULE RewardProofs ----------------------------
(***************************************************************************)
(* x/reward for every set of denominations, every rate and every amount:   *)
(* types, the split, the distribution account's own funds, conservation,   *)
(* what is paid on and when BeginBlocker fails.                            *)
(***************************************************************************)
EXTENDS Reward, FiniteSetTheorems, TLAPS

-----------------------------------------------------------------------------
(* The split of a reward fits into the reward, for every unit, every rate  *)
(* that ValidateBasic accepts and every amount.                            *)

USE UnitAssumption

\* Division with remainder.
LEMMA DivMod ==
  ASSUME NEW x \in Nat
  PROVE  /\ x \div Unit \in Nat
         /\ x % Unit \in Nat /\ x % Unit < Unit
         /\ x = (Unit * (x \div Unit)) + (x % Unit)
  OBVIOUS

\* Mul is at most half a unit in the last place above the product, and exact
\* when a factor is one.
LEMMA MulBound ==
  ASSUME NEW a \in Nat, NEW b \in Nat
  PROVE  /\ Mul(a, b) \in Nat
         /\ 2 * (Unit * Mul(a, b)) <= 2 * (a * b) + Unit
         /\ b = Unit => Mul(a, b) = a
<1> DEFINE q == (a * b) \div Unit
           r == (a * b) % Unit
<1>1. a * b \in Nat
  OBVIOUS
<1>2. q \in Nat /\ r \in Nat /\ r < Unit /\ a * b = Unit * q + r
  BY <1>1, DivMod
<1>3. Mul(a, b) = IF 2 * r < Unit \/ (2 * r = Unit /\ q % 2 = 0) THEN q ELSE q + 1
  BY DEF Mul
<1> HIDE DEF q, r
<1>4. CASE Mul(a, b) = q
  <2>1. 2 * (Unit * q) <= 2 * (a * b) + Unit
    BY <1>1, <1>2
  <2>2. ASSUME b = Unit PROVE q = a
    <3>1. Unit * (a - q) = r
      BY <1>2, <2>2
    <3>2. a - q \in Int
      BY <1>2
    <3> QED
      BY <1>2, <3>1, <3>2
  <2> QED
    BY <1>2, <1>4, <2>1, <2>2
<1>5. CASE Mul(a, b) = q + 1 /\ 2 * r >= Unit
  <2>1. Unit * (q + 1) = a * b - r + Unit
    BY <1>1, <1>2
  <2>2. 2 * (Unit * (q + 1)) <= 2 * (a * b) + Unit
    BY <1>1, <1>2, <1>5, <2>1
  <2>3. b # Unit
    <3> SUFFICES ASSUME b = Unit PROVE FALSE
      OBVIOUS
    <3>1. Unit * (a - q) = r /\ a - q \in Int
      BY <1>2
    <3>2. r = 0
      BY <1>2, <3>1
    <3> QED
      BY <1>2, <1>5, <3>2
  <2> QED
    BY <1>2, <1>5, <2>2, <2>3
<1> QED
  BY <1>2, <1>3, <1>4, <1>5

\* The parameters SetParams may store.
ValidParams(p) ==
  /\ p.fee \in Nat /\ p.community \in Nat /\ p.reserve \in Nat
  /\ ValidateBasic(p)

\* The two rates that BeginBlocker computes add up to at most one.
LEMMA RatesFit ==
  ASSUME NEW p, ValidParams(p)
  PROVE  /\ Mul(p.fee, TotalRate(p)) \in Nat
         /\ Mul(p.reserve, TotalRate(p)) \in Nat
         /\ Mul(p.fee, TotalRate(p)) + Mul(p.reserve, TotalRate(p)) <= Unit
<1> DEFINE f == p.fee
           r == p.reserve
           T == TotalRate(p)
           m == Mul(f, T)
           n == Mul(r, T)
<1>1. f \in Nat /\ r \in Nat /\ T \in Nat /\ f + r <= T /\ T <= Unit
  BY DEF ValidParams, ValidateBasic, TotalRate
<1>2. /\ m \in Nat /\ n \in Nat
      /\ 2 * (Unit * m) <= 2 * (f * T) + Unit
      /\ 2 * (Unit * n) <= 2 * (r * T) + Unit
      /\ T = Unit => m = f /\ n = r
  BY <1>1, MulBound, Zenon
<1> HIDE DEF f, r, T, m, n
<1>3. ASSUME T = Unit PROVE m + n <= Unit
  BY <1>1, <1>2, <1>3
<1>4. ASSUME T # Unit PROVE m + n <= Unit
  <2>1. T + 1 <= Unit
    BY <1>1, <1>4
  <2>2. f * T + r * T <= T * T
    <3>1. (f + r) * T <= T * T
      BY <1>1
    <3> QED
      BY <1>1, <3>1
  <2>3. T * T <= (Unit - 1) * (Unit - 1)
    BY <1>1, <2>1
  <2>4. Unit * m + Unit * n <= T * T + Unit
    <3>1. /\ Unit * m \in Nat /\ Unit * n \in Nat
          /\ f * T \in Nat /\ r * T \in Nat /\ T * T \in Nat
      BY <1>1, <1>2
    <3> QED
      BY <1>2, <2>2, <3>1
  <2>5. (Unit - 1) * (Unit - 1) + Unit <= Unit * Unit
    OBVIOUS
  <2>6. Unit * (m + n) <= Unit * Unit
    <3>1. Unit * (m + n) = Unit * m + Unit * n
      BY <1>2
    <3> QED
      BY <1>1, <1>2, <2>3, <2>4, <2>5, <3>1
  <2> QED
    BY <1>2, <2>6
<1> QED
  BY <1>2, <1>3, <1>4 DEF f, r, T, m, n

\* A truncated share is at most its exact value.
LEMMA ShareBound ==
  ASSUME NEW m \in Nat, NEW amount \in Nat
  PROVE  /\ (m * amount) \div Unit \in Nat
         /\ Unit * ((m * amount) \div Unit) <= m * amount
<1>1. m * amount \in Nat
  OBVIOUS
<1> QED
  BY <1>1, DivMod

\* For every unit, every rates ValidateBasic accepts and every reward, the
\* community share, which is the rest, is not negative: BeginBlocker never
\* calls NewCoin with a negative amount.
THEOREM CommunityShareNotNegative ==
  ASSUME NEW p, ValidParams(p), NEW amount \in Nat
  PROVE  /\ FeePoolReward(p, amount) \in Nat
         /\ ReserveReward(p, amount) \in Nat
         /\ CommunityPoolReward(p, amount) \in Nat
<1> DEFINE m == Mul(p.fee, TotalRate(p))
           n == Mul(p.reserve, TotalRate(p))
           s == (m * amount) \div Unit
           t == (n * amount) \div Unit
<1>1. m \in Nat /\ n \in Nat /\ m + n <= Unit
  BY RatesFit
<1> HIDE DEF m, n
<1>2. /\ s \in Nat /\ t \in Nat
      /\ Unit * s <= m * amount /\ Unit * t <= n * amount
  BY <1>1, ShareBound
<1> HIDE DEF s, t
<1>3. Unit * (s + t) <= Unit * amount
  <2>1. (m + n) * amount <= Unit * amount
    BY <1>1
  <2>2. Unit * s + Unit * t <= m * amount + n * amount
    <3>1. /\ Unit * s \in Nat /\ Unit * t \in Nat
          /\ m * amount \in Nat /\ n * amount \in Nat
      BY <1>1, <1>2
    <3> QED
      BY <1>2, <3>1
  <2>3. Unit * (s + t) = Unit * s + Unit * t /\ (m + n) * amount = m * amount + n * amount
    BY <1>1, <1>2
  <2> QED
    BY <1>1, <1>2, <2>1, <2>2, <2>3
<1>4. s + t <= amount
  BY <1>2, <1>3
<1>5. FeePoolReward(p, amount) = s /\ ReserveReward(p, amount) = t
  BY DEF FeePoolReward, ReserveReward, Share, s, t, m, n
<1> QED
  BY <1>2, <1>4, <1>5 DEF CommunityPoolReward

\* A rate of zero gives nothing.
LEMMA ZeroRate ==
  ASSUME NEW p, p.reserve = 0, ValidParams(p), NEW amount \in Nat
  PROVE  ReserveReward(p, amount) = 0
<1> DEFINE T == TotalRate(p)
<1>1. T \in Nat
  BY DEF ValidParams, TotalRate
<1> HIDE DEF T
<1>2. 0 * T = 0 /\ 0 \div Unit = 0 /\ 0 % Unit = 0 /\ 0 * amount = 0
  BY <1>1
<1>3. Mul(0, T) = 0
  BY <1>2 DEF Mul
<1> QED
  BY <1>2, <1>3 DEF ReserveReward, Share, T

HIDE UnitAssumption

-----------------------------------------------------------------------------
(* The module.                                                             *)

USE RewardAssumption

Amounts == [Denoms -> Nat]

\* The inductive invariant: with types and conservation, one block's transfers
\* are determined up to the reserve transfer.
Inv ==
  /\ TypeOK
  /\ Conserved
  /\ entered \in Amounts

\* TypeOK, one conjunct per variable.
LEMMA TypeParts ==
  TypeOK <=> /\ params \in Params /\ ValidateBasic(params)
             /\ pending \in Amounts /\ account \in Amounts /\ pool \in Amounts
             /\ feeCollector \in Amounts /\ communityPool \in Amounts
             /\ reserve \in Amounts /\ elsewhere \in Amounts
             /\ redirected \in BOOLEAN /\ halted \in BOOLEAN
  BY DEF TypeOK, Amounts

\* A block's part of a balance is at most the balance.
LEMMA BlockPart ==
  ASSUME NEW x \in Nat
  PROVE  x \div BlocksPerYear \in Nat /\ x \div BlocksPerYear <= x
<1> DEFINE q == x \div BlocksPerYear
<1>1. /\ q \in Nat
      /\ x % BlocksPerYear \in Nat
      /\ x = (BlocksPerYear * q) + (x % BlocksPerYear)
  OBVIOUS
<1>2. BlocksPerYear * q >= q
  <2> HIDE DEF q
  <2> QED
    BY <1>1
<1> QED
  BY <1>1, <1>2

\* The stored rates are rates ValidateBasic accepts.
LEMMA StoredParams ==
  ASSUME params \in Params, ValidateBasic(params)
  PROVE  ValidParams(params)
<1>1. params.fee \in Rates /\ params.community \in Rates /\ params.reserve \in Rates
  BY DEF Params
<1>2. \A r \in Rates : r \in Nat
  BY UnitAssumption
<1> QED
  BY <1>1, <1>2, Zenon DEF ValidParams

\* The three shares of every denomination are amounts and add up to the reward.
LEMMA SharesAddUp ==
  ASSUME TypeOK, NEW d \in Denoms
  PROVE  /\ feePoolRewards[d] \in Nat /\ reserveRewards[d] \in Nat
         /\ communityPoolRewards[d] \in Nat
         /\ feePoolRewards[d] + reserveRewards[d] + communityPoolRewards[d] = pending[d]
<1>1. ValidParams(params) /\ pending[d] \in Nat
  BY TypeParts, StoredParams DEF Amounts
<1>2. /\ FeePoolReward(params, pending[d]) \in Nat
      /\ ReserveReward(params, pending[d]) \in Nat
      /\ CommunityPoolReward(params, pending[d]) \in Nat
  BY <1>1, CommunityShareNotNegative
<1> QED
  BY <1>1, <1>2 DEF feePoolRewards, reserveRewards, communityPoolRewards, CommunityPoolReward

\* The balances that a BeginBlock without an error computes.
LEMMA BalancesAfter ==
  ASSUME TypeOK, NEW sorted, ~Fails(sorted), NEW d \in Denoms
  PROVE  /\ funded[d] = pool[d] + feePoolRewards[d]
         /\ perBlock(funded)[d] \in Nat /\ perBlock(funded)[d] <= funded[d]
         /\ withdrawn[d] = IF redirected THEN account[d] ELSE account[d] + pending[d]
         /\ afterCommunity[d] = withdrawn[d] - feePoolRewards[d] - communityPoolRewards[d]
         /\ afterCommunity[d] \in Nat
<1>1. /\ feePoolRewards[d] \in Nat /\ reserveRewards[d] \in Nat
      /\ communityPoolRewards[d] \in Nat
      /\ feePoolRewards[d] + reserveRewards[d] + communityPoolRewards[d] = pending[d]
  BY SharesAddUp
<1>2. /\ pending[d] \in Nat /\ account[d] \in Nat /\ pool[d] \in Nat
      /\ redirected \in BOOLEAN
  BY TypeParts DEF Amounts
<1>3. funded[d] = pool[d] + feePoolRewards[d] /\ funded[d] \in Nat
  BY <1>1, <1>2 DEF funded, Plus
<1>4. perBlock(funded)[d] = funded[d] \div BlocksPerYear
  BY DEF perBlock
<1>5. perBlock(funded)[d] \in Nat /\ perBlock(funded)[d] <= funded[d]
  BY <1>3, <1>4, BlockPart
<1>6. withdrawn[d] = IF redirected THEN account[d] ELSE account[d] + pending[d]
  BY DEF withdrawn, Plus
<1>7. withdrawn[d] \in Nat
  BY <1>2, <1>6
<1>8. /\ afterFee[d] = withdrawn[d] - feePoolRewards[d]
      /\ afterCommunity[d] = afterFee[d] - communityPoolRewards[d]
  BY DEF afterFee, afterCommunity, Minus
<1>9. /\ feePoolRewards[d] <= withdrawn[d]
      /\ communityPoolRewards[d] <= withdrawn[d] - feePoolRewards[d]
  <2>1. CASE Positive(pending) # {}
    BY <1>8, <2>1 DEF Fails, Covers
  <2>2. CASE Positive(pending) = {}
    <3>1. pending[d] = 0
      BY <1>2, <2>2 DEF Positive
    <3>2. feePoolRewards[d] = 0 /\ communityPoolRewards[d] = 0
      BY <1>1, <3>1
    <3> QED
      BY <1>7, <3>2
  <2> QED
    BY <2>1, <2>2
<1> QED
  BY <1>1, <1>3, <1>5, <1>6, <1>7, <1>8, <1>9

\* What one successful BeginBlock does to the balances of a denomination.
LEMMA PaidOut ==
  ASSUME Inv, NEW sorted, ~Fails(sorted), BeginBlocker(sorted),
         params.distributeAccount # "unset", NEW d \in Denoms
  PROVE  /\ pending'[d] \in Nat /\ account'[d] \in Nat /\ pool'[d] \in Nat
         /\ feeCollector'[d] \in Nat /\ communityPool'[d] \in Nat
         /\ reserve'[d] \in Nat /\ elsewhere'[d] \in Nat
         /\ entered[d] + InitialAccount =
              pending'[d] + account'[d] + pool'[d] + feeCollector'[d]
                + communityPool'[d] + reserve'[d] + elsewhere'[d]
         /\ ~redirected => account'[d] >= account[d]
<1> DEFINE fee == feePoolRewards[d]
           res == reserveRewards[d]
           com == communityPoolRewards[d]
           part == perBlock(funded)[d]
<1>1. /\ fee \in Nat /\ res \in Nat /\ com \in Nat /\ fee + res + com = pending[d]
  BY SharesAddUp DEF Inv
<1>2. /\ pending[d] \in Nat /\ account[d] \in Nat /\ pool[d] \in Nat
      /\ feeCollector[d] \in Nat /\ communityPool[d] \in Nat
      /\ reserve[d] \in Nat /\ elsewhere[d] \in Nat /\ redirected \in BOOLEAN
      /\ entered[d] \in Nat
  BY TypeParts DEF Amounts, Inv
<1>3. /\ funded[d] = pool[d] + fee /\ part \in Nat /\ part <= funded[d]
      /\ withdrawn[d] = IF redirected THEN account[d] ELSE account[d] + pending[d]
      /\ afterCommunity[d] = withdrawn[d] - fee - com
      /\ afterCommunity[d] \in Nat
  BY BalancesAfter DEF Inv
<1>4. entered[d] + InitialAccount =
        pending[d] + account[d] + pool[d] + feeCollector[d] + communityPool[d]
          + reserve[d] + elsewhere[d]
  BY DEF Inv, Conserved
<1>5. /\ pending' = Zero
      /\ pool' = Minus(funded, perBlock(funded))
      /\ feeCollector' = Plus(feeCollector, perBlock(funded))
      /\ communityPool' = Plus(communityPool, communityPoolRewards)
      /\ elsewhere' = IF redirected THEN Plus(elsewhere, pending) ELSE elsewhere
      /\ IF ReservePaid(sorted)
         THEN /\ account' = Minus(afterCommunity, reserveRewards)
              /\ reserve' = Plus(reserve, reserveRewards)
         ELSE account' = afterCommunity /\ reserve' = reserve
  BY DEF BeginBlocker
<1>6. /\ pending'[d] = 0
      /\ pool'[d] = funded[d] - part
      /\ feeCollector'[d] = feeCollector[d] + part
      /\ communityPool'[d] = communityPool[d] + com
  BY <1>5 DEF Zero, Minus, Plus
<1>7. elsewhere'[d] = IF redirected THEN elsewhere[d] + pending[d] ELSE elsewhere[d]
  BY <1>5 DEF Plus
<1>8. \/ /\ account'[d] = afterCommunity[d] - res /\ reserve'[d] = reserve[d] + res
         /\ res <= afterCommunity[d]
      \/ account'[d] = afterCommunity[d] /\ reserve'[d] = reserve[d]
  BY <1>5 DEF Plus, Minus, ReservePaid, Covers
<1> HIDE DEF fee, res, com, part
<1>9. PICK paid \in Nat : /\ paid <= res /\ paid <= afterCommunity[d]
                          /\ account'[d] = afterCommunity[d] - paid
                          /\ reserve'[d] = reserve[d] + paid
  <2>1. afterCommunity[d] \in Nat /\ reserve[d] \in Nat /\ res \in Nat
    BY <1>1, <1>2, <1>3
  <2>2. CASE account'[d] = afterCommunity[d] /\ reserve'[d] = reserve[d]
    <3> WITNESS 0 \in Nat
    <3> QED
      BY <2>1, <2>2
  <2>3. CASE /\ account'[d] = afterCommunity[d] - res /\ reserve'[d] = reserve[d] + res
             /\ res <= afterCommunity[d]
    <3> res \in Nat
      BY <2>1
    <3> WITNESS res \in Nat
    <3> QED
      BY <2>1, <2>3
  <2> QED
    BY <1>8, <2>2, <2>3
<1>10. /\ account'[d] \in Nat /\ reserve'[d] \in Nat
  BY <1>2, <1>3, <1>9
<1>11. /\ pending'[d] \in Nat /\ pool'[d] \in Nat /\ feeCollector'[d] \in Nat
       /\ communityPool'[d] \in Nat
  BY <1>1, <1>2, <1>3, <1>6
<1>12. elsewhere'[d] \in Nat
  BY <1>2, <1>7
<1>13. withdrawn[d] + elsewhere'[d] = account[d] + pending[d] + elsewhere[d]
  BY <1>2, <1>3, <1>7
<1>14. account'[d] + reserve'[d] = withdrawn[d] - fee - com + reserve[d]
  <2>1. withdrawn[d] \in Nat
    BY <1>2, <1>3
  <2> QED
    BY <2>1, <1>1, <1>2, <1>3, <1>9
<1>15. pool'[d] + feeCollector'[d] = pool[d] + fee + feeCollector[d]
  BY <1>1, <1>2, <1>3, <1>6
<1>16. entered[d] + InitialAccount =
         pending'[d] + account'[d] + pool'[d] + feeCollector'[d]
           + communityPool'[d] + reserve'[d] + elsewhere'[d]
  <2>1. withdrawn[d] \in Nat
    BY <1>2, <1>3
  <2> QED
    BY <2>1, <1>1, <1>2, <1>4, <1>6, <1>10, <1>11, <1>12, <1>13, <1>14, <1>15
<1>17. ~redirected => account'[d] >= account[d]
  BY <1>1, <1>2, <1>3, <1>9
<1> QED
  BY <1>10, <1>11, <1>12, <1>16, <1>17

\* Every action keeps the invariant.
LEMMA InvStep ==
  ASSUME Inv, [Next]_vars
  PROVE  Inv'
<1> USE DEF Amounts
<1>0. /\ params \in Params /\ ValidateBasic(params)
      /\ pending \in Amounts /\ account \in Amounts /\ pool \in Amounts
      /\ feeCollector \in Amounts /\ communityPool \in Amounts
      /\ reserve \in Amounts /\ elsewhere \in Amounts /\ entered \in Amounts
      /\ redirected \in BOOLEAN /\ halted \in BOOLEAN
  BY TypeParts DEF Inv
<1>t. (/\ params \in Params /\ ValidateBasic(params)
       /\ pending \in Amounts /\ account \in Amounts /\ pool \in Amounts
       /\ feeCollector \in Amounts /\ communityPool \in Amounts
       /\ reserve \in Amounts /\ elsewhere \in Amounts
       /\ redirected \in BOOLEAN /\ halted \in BOOLEAN)' => TypeOK'
  BY Zenon DEF TypeOK
<1>1. ASSUME NEW d \in Denoms, NEW n \in Rewards, Accrue(d, n)
      PROVE  Inv'
  <2>1. n \in Nat
    OBVIOUS
  <2>2. pending' \in Amounts /\ entered' \in Amounts
    BY <1>0, <1>1, <2>1 DEF Accrue
  <2>3. Conserved'
    BY <1>0, <1>1, <2>1 DEF Accrue, Conserved, Inv, balances
  <2> QED
    BY <1>0, <1>t, <1>1, <2>2, <2>3 DEF Accrue, Inv, balances
<1>2. ASSUME NEW d \in Denoms, NEW n \in Rewards, FundRewardPool(d, n)
      PROVE  Inv'
  <2>1. n \in Nat
    OBVIOUS
  <2>2. pool' \in Amounts /\ entered' \in Amounts
    BY <1>0, <1>2, <2>1 DEF FundRewardPool
  <2>3. Conserved'
    BY <1>0, <1>2, <2>1 DEF FundRewardPool, Conserved, Inv
  <2> QED
    BY <1>0, <1>t, <1>2, <2>2, <2>3 DEF FundRewardPool, Inv
<1>3. ASSUME NEW p \in Params, UpdateParams(p)
      PROVE  Inv'
  <2>1. Conserved'
    BY <1>3 DEF UpdateParams, Conserved, Inv, balances
  <2>2. params' \in Params /\ ValidateBasic(params)'
    BY <1>3 DEF UpdateParams, ValidateBasic, TotalRate
  <2> QED
    BY <1>0, <1>t, <1>3, <2>1, <2>2 DEF UpdateParams, Inv, balances
<1>4. ASSUME SetWithdrawAddress
      PROVE  Inv'
  <2>1. Conserved'
    BY <1>4 DEF SetWithdrawAddress, Conserved, Inv, balances
  <2> QED
    BY <1>0, <1>t, <1>4, <2>1 DEF SetWithdrawAddress, Inv, balances
<1>5. ASSUME NEW sorted \in BOOLEAN, BeginBlocker(sorted)
      PROVE  Inv'
  <2>0. UNCHANGED <<params, redirected, entered>>
    BY <1>5 DEF BeginBlocker
  <2>1. CASE params.distributeAccount = "unset"
    <3>1. UNCHANGED <<pending, balances, halted>>
      BY <1>5, <2>1 DEF BeginBlocker
    <3>2. Conserved'
      BY <2>0, <3>1 DEF Conserved, Inv, balances
    <3> QED
      BY <1>0, <1>t, <2>0, <3>1, <3>2 DEF Inv, balances
  <2>2. CASE params.distributeAccount # "unset" /\ Fails(sorted)
    <3>1. UNCHANGED <<pending, balances>> /\ halted' = TRUE
      BY <1>5, <2>2 DEF BeginBlocker
    <3>2. Conserved'
      BY <2>0, <3>1 DEF Conserved, Inv, balances
    <3> QED
      BY <1>0, <1>t, <2>0, <3>1, <3>2 DEF Inv, balances
  <2>3. CASE params.distributeAccount # "unset" /\ ~Fails(sorted)
    <3>1. \A d \in Denoms :
            /\ pending'[d] \in Nat /\ account'[d] \in Nat /\ pool'[d] \in Nat
            /\ feeCollector'[d] \in Nat /\ communityPool'[d] \in Nat
            /\ reserve'[d] \in Nat /\ elsewhere'[d] \in Nat
            /\ entered[d] + InitialAccount =
                 pending'[d] + account'[d] + pool'[d] + feeCollector'[d]
                   + communityPool'[d] + reserve'[d] + elsewhere'[d]
            /\ ~redirected => account'[d] >= account[d]
      BY <1>5, <2>3, PaidOut
    <3>2. /\ pending' = Zero
          /\ pool' = Minus(funded, perBlock(funded))
          /\ feeCollector' = Plus(feeCollector, perBlock(funded))
          /\ communityPool' = Plus(communityPool, communityPoolRewards)
          /\ elsewhere' = IF redirected THEN Plus(elsewhere, pending) ELSE elsewhere
          /\ \/ /\ account' = Minus(afterCommunity, reserveRewards)
                /\ reserve' = Plus(reserve, reserveRewards)
             \/ account' = Minus(afterFee, communityPoolRewards) /\ reserve' = reserve
          /\ halted' = halted
      BY <1>5, <2>3 DEF BeginBlocker, afterCommunity
    <3>3. /\ pending' = [d \in Denoms |-> pending'[d]]
          /\ account' = [d \in Denoms |-> account'[d]]
          /\ pool' = [d \in Denoms |-> pool'[d]]
          /\ feeCollector' = [d \in Denoms |-> feeCollector'[d]]
          /\ communityPool' = [d \in Denoms |-> communityPool'[d]]
          /\ reserve' = [d \in Denoms |-> reserve'[d]]
          /\ elsewhere' = [d \in Denoms |-> elsewhere'[d]]
      BY <1>0, <3>2 DEF Zero, Plus, Minus
    <3>4. /\ pending' \in Amounts /\ account' \in Amounts /\ pool' \in Amounts
          /\ feeCollector' \in Amounts /\ communityPool' \in Amounts
          /\ reserve' \in Amounts /\ elsewhere' \in Amounts
      BY <3>1, <3>3
    <3>5. Conserved'
      BY <2>0, <3>1 DEF Conserved
    <3> QED
      BY <1>0, <1>t, <2>0, <3>2, <3>4, <3>5 DEF Inv
  <2> QED
    BY <2>1, <2>2, <2>3
<1>6. CASE UNCHANGED vars
  <2>1. Conserved'
    BY <1>6 DEF vars, Conserved, Inv
  <2> QED
    BY <1>0, <1>t, <1>6, <2>1 DEF vars, Inv
<1> QED
  BY <1>1, <1>2, <1>3, <1>4, <1>5, <1>6 DEF Next

\* The invariant holds in every reachable state.
THEOREM Invariance == Spec => []Inv
<1>1. Init => Inv
  <2> SUFFICES ASSUME Init PROVE Inv
    OBVIOUS
  <2>1. TypeOK
    <3>1. params \in Params /\ ValidateBasic(params)
      BY DEF Init
    <3>2. Zero \in Amounts /\ account \in Amounts
      BY DEF Init, Zero, Amounts
    <3> QED
      BY <3>1, <3>2, TypeParts, Zenon DEF Init
  <2>2. Conserved
    BY DEF Init, Conserved, Zero
  <2> QED
    BY <2>1, <2>2 DEF Init, Inv, Amounts, Zero
<1>2. Inv /\ [Next]_vars => Inv'
  BY InvStep
<1> QED
  BY <1>1, <1>2, PTL DEF Spec

\* Balances stay natural numbers and the stored parameters are ones
\* ValidateBasic accepts, whatever BeginBlocker, the messages and x/distribution
\* do.
THEOREM TypeCorrect == Spec => []TypeOK
  BY Invariance, PTL DEF Inv

\* NewCoin never gets a negative community share in BeginBlocker.
THEOREM SharesAlwaysFit == Spec => []SharesFit
<1>1. Inv => SharesFit
  BY SharesAddUp DEF Inv, SharesFit
<1> QED
  BY <1>1, Invariance, PTL

\* BeginBlocker never pays from the distribution account's own funds, unless
\* its rewards are withdrawn to another account.
THEOREM OwnFundsStay == Spec => OwnFundsUntouched
<1>1. Inv /\ [Next]_vars =>
        [~redirected => \A d \in Denoms : account'[d] >= account[d]]_vars
  <2> SUFFICES ASSUME Inv, Next, ~redirected, NEW d \in Denoms
               PROVE  account'[d] >= account[d]
    OBVIOUS
  <2>0. account[d] \in Nat
    BY TypeParts DEF Inv, Amounts
  <2>1. CASE account' = account
    BY <2>0, <2>1
  <2>2. CASE account' # account
    <3>1. PICK sorted \in BOOLEAN : BeginBlocker(sorted)
      BY <2>2 DEF Next, Accrue, FundRewardPool, UpdateParams, SetWithdrawAddress, balances
    <3>2. ~Fails(sorted) /\ params.distributeAccount # "unset"
      BY <2>2, <3>1 DEF BeginBlocker, balances
    <3> QED
      BY <3>1, <3>2, PaidOut
  <2> QED
    BY <2>1, <2>2
<1> QED
  BY <1>1, Invariance, PTL DEF Spec, OwnFundsUntouched

\* The chain of transfers of BeginBlocker, with a reserve transfer whose error
\* is ignored, loses and creates no coin.
THEOREM CoinsConserved == Spec => []Conserved
  BY Invariance, PTL DEF Inv

-----------------------------------------------------------------------------
(* One denomination.                                                       *)

\* A set of fewer than two elements has at most one.
LEMMA AtMostOne ==
  ASSUME NEW S, IsFiniteSet(S), Cardinality(S) < 2, NEW x \in S, NEW y \in S
  PROVE  x = y
<1> SUFFICES ASSUME x # y PROVE FALSE
  OBVIOUS
<1>1. IsFiniteSet({x}) /\ Cardinality({x}) = 1
  BY FS_Singleton
<1>2. Cardinality({x} \cup {y}) = 2
  <2>1. y \notin {x}
    OBVIOUS
  <2>2. Cardinality({x} \cup {y}) = Cardinality({x}) + 1
    BY <1>1, <2>1, FS_AddElement, Zenon
  <2> QED
    BY <1>1, <2>2
<1>3. {x} \cup {y} \in SUBSET S
  OBVIOUS
<1>4. 2 <= Cardinality(S)
  BY <1>2, <1>3, FS_Subset
<1>5. Cardinality(S) \in Nat
  BY FS_CardinalityType
<1> QED
  BY <1>4, <1>5

\* Denominations with a positive amount are finitely many, and those with a share
\* of the reward have a reward.
LEMMA PositiveFinite ==
  ASSUME NEW f, NEW g
  PROVE  IsFiniteSet(Positive(f)) /\ IsFiniteSet(Positive(f) \cup Positive(g))
<1>1. Positive(f) \subseteq Denoms /\ Positive(f) \cup Positive(g) \subseteq Denoms
  BY DEF Positive
<1> QED
  BY <1>1, FS_Subset

\* When rewards arrive in the account, its balance covers each transfer in turn.
LEMMA TransfersCovered ==
  ASSUME TypeOK, ~redirected
  PROVE  /\ Covers(withdrawn, feePoolRewards) /\ Covers(afterFee, communityPoolRewards)
         /\ Covers(afterCommunity, reserveRewards)
         /\ \A d \in Denoms : afterCommunity[d] = account[d] + reserveRewards[d]
<1>1. ASSUME NEW d \in Denoms
      PROVE  /\ feePoolRewards[d] <= withdrawn[d]
             /\ communityPoolRewards[d] <= afterFee[d]
             /\ reserveRewards[d] <= afterCommunity[d]
             /\ afterCommunity[d] = account[d] + reserveRewards[d]
  <2> DEFINE fee == feePoolRewards[d]
             res == reserveRewards[d]
             com == communityPoolRewards[d]
  <2>1. fee \in Nat /\ res \in Nat /\ com \in Nat /\ fee + res + com = pending[d]
    BY SharesAddUp
  <2>2. account[d] \in Nat /\ pending[d] \in Nat
    BY TypeParts DEF Amounts
  <2>3. /\ withdrawn[d] = account[d] + pending[d]
        /\ afterFee[d] = withdrawn[d] - fee
        /\ afterCommunity[d] = afterFee[d] - com
    BY DEF withdrawn, afterFee, afterCommunity, Plus, Minus
  <2> HIDE DEF fee, res, com
  <2>4. fee <= withdrawn[d] /\ com <= afterFee[d] /\ res <= afterCommunity[d]
        /\ afterCommunity[d] = account[d] + res
    BY <2>1, <2>2, <2>3
  <2> QED
    BY <2>4 DEF fee, res, com
<1> QED
  BY <1>1 DEF Covers

\* The reserve transfer is skipped, in one denomination, only when there is
\* nothing to transfer.
LEMMA ReserveSkipped ==
  ASSUME TypeOK, ~redirected, Cardinality(Positive(pending)) < 2, NEW sorted,
         ~ReservePaid(sorted), NEW d \in Denoms
  PROVE  reserveRewards[d] = 0
<1>1. /\ reserveRewards[d] \in Nat /\ feePoolRewards[d] \in Nat /\ communityPoolRewards[d] \in Nat
      /\ feePoolRewards[d] + reserveRewards[d] + communityPoolRewards[d] = pending[d]
      /\ pending[d] \in Nat
  BY SharesAddUp, TypeParts DEF Amounts
<1>2. CASE d \notin Positive(pending)
  BY <1>1, <1>2 DEF Positive
<1>3. CASE d \in Positive(pending) /\ params.reserveAccount = "unset"
  <2>1. ValidParams(params) /\ params.reserve = 0
    <3>1. ValidParams(params) /\ ValidateBasic(params)
      BY TypeParts, StoredParams
    <3> QED
      BY <1>3, <3>1 DEF ValidParams, ValidateBasic
  <2> QED
    BY <1>1, <2>1, ZeroRate DEF reserveRewards
<1>4. CASE d \in Positive(pending) /\ params.reserveAccount # "unset"
  <2>1. ~IsValid(reserveRewards, sorted)
    BY <1>4, TransfersCovered DEF ReservePaid
  <2>2. PICK e \in Positive(pending) : ~(reserveRewards[e] > 0)
    BY <2>1 DEF IsValid
  <2>3. e = d
    BY <1>4, AtMostOne, PositiveFinite
  <2> QED
    BY <1>1, <2>2, <2>3
<1> QED
  BY <1>2, <1>3, <1>4

\* With rewards in one denomination the ignored error of the reserve transfer
\* loses nothing: BeginBlocker leaves in the distribution account what was there
\* before, for all rates, amounts and balances.
THEOREM RewardsPaidOn == Spec => AllPaidOn
<1>1. Inv /\ [Next]_vars =>
        [~redirected /\ Cardinality(Positive(pending)) < 2 => account' = account]_vars
  <2> SUFFICES ASSUME Inv, Next, ~redirected, Cardinality(Positive(pending)) < 2,
                      account' # account
               PROVE  FALSE
    OBVIOUS
  <2>1. PICK sorted \in BOOLEAN : BeginBlocker(sorted)
    BY DEF Next, Accrue, FundRewardPool, UpdateParams, SetWithdrawAddress, balances
  <2>2. /\ account' = IF ReservePaid(sorted) THEN Minus(afterCommunity, reserveRewards)
                                            ELSE afterCommunity
        /\ TypeOK
    BY <2>1 DEF BeginBlocker, balances, Inv
  <2>3. ASSUME NEW d \in Denoms PROVE account'[d] = account[d]
    <3>1. afterCommunity[d] = account[d] + reserveRewards[d]
      BY <2>2, TransfersCovered
    <3>2. account[d] \in Nat /\ reserveRewards[d] \in Nat
      BY <2>2, TypeParts, SharesAddUp DEF Amounts
    <3>3. CASE ReservePaid(sorted)
      BY <2>2, <3>1, <3>2, <3>3 DEF Minus
    <3>4. CASE ~ReservePaid(sorted)
      <4>1. reserveRewards[d] = 0
        BY <2>2, <3>4, ReserveSkipped
      <4> QED
        BY <2>2, <3>1, <3>2, <3>4, <4>1
    <3> QED
      BY <3>3, <3>4
  <2>4. account' = [d \in Denoms |-> account'[d]] /\ account = [d \in Denoms |-> account[d]]
    BY <2>2, TypeParts DEF Minus, afterCommunity, Amounts
  <2> QED
    BY <2>3, <2>4
<1> QED
  BY <1>1, Invariance, PTL DEF Spec, AllPaidOn

\* In one denomination and with addresses that parse, BeginBlocker stops the
\* chain only on a reward of which the fee pool's or the community pool's share
\* is zero: no transfer is short of coins, and one block's part of the pool is
\* valid.
THEOREM OnlyZeroShareHalts == Spec => HaltsOnlyOnZeroShare
<1> DEFINE One == halted' /\ ~redirected
                  /\ Cardinality(Positive(pending) \cup Positive(pool)) < 2
                  /\ params.reserveAccount # "malformed" /\ params.distributeAccount # "malformed"
           ZeroShare == \E d \in Denoms : /\ pending[d] > 0
                                          /\ feePoolRewards[d] = 0 \/ communityPoolRewards[d] = 0
<1>1. Inv /\ [Next]_vars => [One => ZeroShare]_vars
  <2> SUFFICES ASSUME Inv, Next, One, ~ZeroShare PROVE FALSE
    OBVIOUS
  <2>0. TypeOK
    BY DEF Inv
  <2>1. PICK sorted \in BOOLEAN : BeginBlocker(sorted) /\ Fails(sorted)
    BY DEF Next, Accrue, FundRewardPool, UpdateParams, SetWithdrawAddress, BeginBlocker
  <2>2. ASSUME NEW d \in Denoms
        PROVE  /\ feePoolRewards[d] \in Nat /\ communityPoolRewards[d] \in Nat
               /\ feePoolRewards[d] <= pending[d] /\ pending[d] \in Nat /\ pool[d] \in Nat
               /\ funded[d] = pool[d] + feePoolRewards[d]
               /\ perBlock(funded)[d] \in Nat /\ perBlock(funded)[d] <= funded[d]
    <3>1. /\ feePoolRewards[d] \in Nat /\ reserveRewards[d] \in Nat
          /\ communityPoolRewards[d] \in Nat
          /\ feePoolRewards[d] + reserveRewards[d] + communityPoolRewards[d] = pending[d]
      BY <2>0, SharesAddUp
    <3>2. pending[d] \in Nat /\ pool[d] \in Nat
      BY <2>0, TypeParts DEF Amounts
    <3>3. funded[d] = pool[d] + feePoolRewards[d] /\ perBlock(funded)[d] = funded[d] \div BlocksPerYear
      BY DEF funded, Plus, perBlock
    <3>4. perBlock(funded)[d] \in Nat /\ perBlock(funded)[d] <= funded[d]
      BY <3>1, <3>2, <3>3, BlockPart
    <3> QED
      BY <3>1, <3>2, <3>3, <3>4
  <2>3. \A d, e \in Positive(pending) \cup Positive(pool) : d = e
    BY AtMostOne, PositiveFinite
  <2>4. Cardinality(Positive(pending)) < 2
    <3>1. /\ Cardinality(Positive(pending)) <= Cardinality(Positive(pending) \cup Positive(pool))
          /\ Cardinality(Positive(pending)) \in Nat
          /\ Cardinality(Positive(pending) \cup Positive(pool)) \in Nat
      BY PositiveFinite, FS_Subset, FS_CardinalityType
    <3> QED
      BY <3>1
  <2>5. IsValid(feePoolRewards, sorted) /\ IsValid(communityPoolRewards, sorted)
    <3>2. ASSUME NEW d \in Positive(pending)
          PROVE  feePoolRewards[d] > 0 /\ communityPoolRewards[d] > 0
      <4>1. d \in Denoms /\ pending[d] > 0
        BY DEF Positive
      <4>2. feePoolRewards[d] # 0 /\ communityPoolRewards[d] # 0
        BY <4>1
      <4> QED
        BY <2>2, <4>1, <4>2
    <3> QED
      BY <2>4, <3>2 DEF IsValid
  <2>6. Covers(withdrawn, feePoolRewards) /\ Covers(afterFee, communityPoolRewards)
    BY <2>0, TransfersCovered
  <2>7. \A d \in Denoms : ~(communityPoolRewards[d] < 0)
    BY <2>2
  <2>8. Positive(perBlock(funded)) # {} /\ Positive(perBlock(funded)) # Positive(funded)
    BY <2>1, <2>5, <2>6, <2>7 DEF Fails
  <2>9. /\ Positive(perBlock(funded)) \subseteq Positive(funded)
        /\ Positive(funded) \subseteq Positive(pending) \cup Positive(pool)
    <3>1. ASSUME NEW d \in Denoms
          PROVE  /\ perBlock(funded)[d] > 0 => funded[d] > 0
                 /\ funded[d] > 0 => pending[d] > 0 \/ pool[d] > 0
      BY <2>2
    <3> QED
      BY <3>1 DEF Positive
  <2> QED
    BY <2>3, <2>8, <2>9
<1> QED
  BY <1>1, Invariance, PTL DEF Spec, HaltsOnlyOnZeroShare
=============================================================================
