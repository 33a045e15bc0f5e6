----------------------------- MODULE PowerOrder -----------------------------
(***************************************************************************)
(* The order in which the staking keeper walks the validators' power       *)
(* index, and the set of validators one walk of the index bonds.           *)
(***************************************************************************)
EXTENDS Integers, FiniteSets

\* ValidatorsPowerStoreIterator yields the validators from the highest
\* consensus power to the lowest, the smaller operator address first among
\* equals. Operator addresses are naturals.
Precedes(power, u, v) ==
  power[u] > power[v] \/ (power[u] = power[v] /\ u < v)

\* The validators of the index that the iterator yields before v.
Ahead(index, power, v) == {u \in index : Precedes(power, u, v)}

\* What the loop of ApplyAndReturnValidatorSetUpdates bonds: the first
\* maxValidators validators of the index, and every volunteer after them,
\* as long as their power is not zero. ApplyLoop has the loop itself, and
\* LoopProofs the proof that it computes this closed form.
Selected(index, volunteers, power, max) ==
  {v \in index : /\ power[v] > 0
                 /\ \/ v \in volunteers
                    \/ Cardinality(Ahead(index, power, v)) < max}
=============================================================================
