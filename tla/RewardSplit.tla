---------------------------- MODULE RewardSplit -----------------------------
(***************************************************************************)
(* The arithmetic of x/reward: how the withdrawn rewards of one            *)
(* denomination are split. A decimal is a numerator over Unit.             *)
(***************************************************************************)
EXTENDS Integers

CONSTANT Unit  \* 10^18 in the SDK

ASSUME UnitAssumption == Unit \in Nat \ {0}

\* LegacyDec.Mul: the product rounded to the nearest decimal, half to even.
Mul(a, b) ==
  LET q == (a * b) \div Unit
      r == (a * b) % Unit
  IN IF 2 * r < Unit \/ (2 * r = Unit /\ q % 2 = 0) THEN q ELSE q + 1

TotalRate(p) == p.community + p.fee + p.reserve

\* Mutant: the sum of the rates is not bounded.
ValidateRatesOnly(p) ==
  /\ p.reserve > 0 => p.reserveAccount # "unset"
  /\ p.fee <= Unit /\ p.community <= Unit /\ p.reserve <= Unit

ValidateBasic(p) ==
  /\ p.reserve > 0 => p.reserveAccount # "unset"
  /\ p.community >= 0 /\ p.fee >= 0 /\ p.reserve >= 0
  /\ TotalRate(p) <= Unit

\* rate.Mul(total), then MulInt and TruncateInt.
Share(rate, p, amount) == (Mul(rate, TotalRate(p)) * amount) \div Unit

FeePoolReward(p, amount) == Share(p.fee, p, amount)
ReserveReward(p, amount) == Share(p.reserve, p, amount)

\* Mutant: the community pool gets its own rate.
CommunityPoolByRate(p, amount) == Share(p.community, p, amount)

\* Mutant: the reserve is not subtracted.
CommunityPoolAndReserve(p, amount) == amount - FeePoolReward(p, amount)

\* The rest, whatever CommunityPoolRate says.
CommunityPoolReward(p, amount) ==
  amount - FeePoolReward(p, amount) - ReserveReward(p, amount)
=============================================================================
