---------------------------- MODULE ValidatorSet ----------------------------
(***************************************************************************)
(* The validator set of the chain: xpla's staking keeper (x/staking), the  *)
(* volunteer validators of x/volunteer, and the messages and events of the *)
(* Cosmos SDK that change the records both read.                           *)
(*                                                                         *)
(* A block is BeginBlock, transactions, the messages of passed governance  *)
(* proposals (gov's EndBlocker runs before staking's, app/modules.go), and *)
(* staking's EndBlocker. Every message is atomic: one that returns an      *)
(* error is rolled back and is no step here.                               *)
(*                                                                         *)
(* Stake is counted in tokens, one share being worth one token (slashing   *)
(* is not modelled). A delegator of a validator is its operator ("self")   *)
(* or somebody else ("other").                                             *)
(***************************************************************************)
EXTENDS PowerOrder, Functions

CONSTANTS
  Validators,       \* operator addresses
  Amounts,          \* token amounts a message may carry
  PowerReduction,   \* tokens per unit of consensus power
  MaxValidatorsSet, \* values governance may give the parameter MaxValidators
  Paths,            \* how a staking message reaches its handler: "top", as a
                    \* message of a transaction, or "nested" inside another
                    \* one, which the ante handler does not look into
  StakeBound,       \* bound: tokens delegated to one validator
  UnbondingBound    \* bound: tokens in unbonding delegations

ASSUME ValidatorSetAssumption ==
  /\ Validators \subseteq Nat /\ IsFiniteSet(Validators)
  /\ Amounts \subseteq Nat \ {0}
  /\ PowerReduction \in Nat \ {0}
  /\ MaxValidatorsSet \subseteq Nat \ {0} /\ MaxValidatorsSet # {}
  /\ Paths \subseteq {"top", "nested"}
  /\ StakeBound \in Nat /\ UnbondingBound \in Nat

VARIABLES
  phase,          \* "begin" | "deliver" | "gov" | "halted"
  maxValidators,  \* the parameter MaxValidators
  volunteers,     \* keys of x/volunteer's store
  status,         \* bond status of the record, "none" when there is none
  jailed,         \* the record's Jailed flag
  stake,          \* tokens by validator and delegator
  powerIndex,     \* validators in the power index
  last,           \* LastValidatorPower by validator, 0 when there is no entry
  lastTotalPower,
  bondedPool, notBondedPool,  \* balances of the two module accounts
  unbonding       \* tokens owed by unbonding delegations

records == <<status, jailed, powerIndex, stake>>
pools == <<bondedPool, notBondedPool, unbonding>>
valset == <<last, lastTotalPower>>
params == <<maxValidators, volunteers>>
vars == <<phase, maxValidators, volunteers, status, jailed, stake, powerIndex,
          last, lastTotalPower, bondedPool, notBondedPool, unbonding>>

Delegators == {"self", "other"}
Statuses == {"none", "unbonded", "unbonding", "bonded"}
MinSelfDelegation == 1

Tokens(v) == stake[v]["self"] + stake[v]["other"]
tokens == [v \in Validators |-> Tokens(v)]

\* PotentialConsensusPower of every validator.
power == [v \in Validators |-> Tokens(v) \div PowerReduction]

Exists(v) == status[v] # "none"

SumOver(S, f) == SumFunctionOnSet(f, S)
SumTokens(S) == SumOver(S, tokens)

\* Genesis: some validators with a self-delegation, not yet bonded. The first
\* EndBlock is the call of ApplyAndReturnValidatorSetUpdates that ends the
\* staking module's InitGenesis.
Init ==
  /\ phase = "gov"
  /\ maxValidators \in MaxValidatorsSet
  /\ volunteers = {}
  /\ powerIndex \in (SUBSET Validators) \ {{}}
  /\ status = [v \in Validators |-> IF v \in powerIndex THEN "unbonded" ELSE "none"]
  /\ jailed = [v \in Validators |-> FALSE]
  /\ \E amt \in [Validators -> Amounts] :
       stake = [v \in Validators |->
                  [d \in Delegators |->
                     IF v \in powerIndex /\ d = "self" THEN amt[v] ELSE 0]]
  /\ last = [v \in Validators |-> 0]
  /\ lastTotalPower = 0
  /\ bondedPool = 0 /\ notBondedPool = SumTokens(powerIndex) /\ unbonding = 0

-----------------------------------------------------------------------------
(* Bookkeeping of the SDK's staking keeper.                                *)

\* A new record with an operator's first delegation: SetValidator,
\* SetNewValidatorByPowerIndex and the self-delegation into the not bonded
\* pool.
NewRecord(v, amt) ==
  /\ ~Exists(v)
  /\ amt <= StakeBound
  /\ status' = [status EXCEPT ![v] = "unbonded"]
  /\ jailed' = [jailed EXCEPT ![v] = FALSE]
  /\ stake' = [stake EXCEPT ![v] = [self |-> amt, other |-> 0]]
  /\ powerIndex' = powerIndex \cup {v}
  /\ notBondedPool' = notBondedPool + amt
  /\ UNCHANGED <<bondedPool, unbonding>>

\* Unbond: the operator going below its minimum is jailed, and a record with
\* no stake left is removed at once when it is unbonded.
JailedByUnbond(v, d, amt) ==
  d = "self" /\ ~jailed[v] /\ stake[v]["self"] - amt < MinSelfDelegation

RemovedByUnbond(v, amt) == status[v] = "unbonded" /\ Tokens(v) = amt

Unbond(v, d, amt) ==
  /\ amt <= stake[v][d]
  /\ status' = [status EXCEPT ![v] = IF RemovedByUnbond(v, amt) THEN "none" ELSE @]
  /\ jailed' = [jailed EXCEPT ![v] = /\ @ \/ JailedByUnbond(v, d, amt)
                                     /\ ~RemovedByUnbond(v, amt)]
  /\ powerIndex' = IF JailedByUnbond(v, d, amt) \/ RemovedByUnbond(v, amt)
                   THEN powerIndex \ {v} ELSE powerIndex

\* Undelegate: Unbond, and the tokens wait in the not bonded pool.
Unstake(v, d, amt) ==
  /\ Unbond(v, d, amt)
  /\ stake' = [stake EXCEPT ![v][d] = @ - amt]
  /\ unbonding + amt <= UnbondingBound
  /\ unbonding' = unbonding + amt
  /\ \/ /\ status[v] = "bonded"
        /\ bondedPool' = bondedPool - amt
        /\ notBondedPool' = notBondedPool + amt
     \/ /\ status[v] # "bonded"
        /\ UNCHANGED <<bondedPool, notBondedPool>>

-----------------------------------------------------------------------------
(* Transactions and slashing, from BeginBlock to the last transaction.     *)

\* Mutant: the decorator is not in the chain.
CheckNothing(v, d) == Paths # {}

\* RejectDelegateVolunteerValidatorDecorator: only the operator may delegate
\* to, redelegate from or to, or undelegate from a volunteer. It inspects the
\* messages of the transaction itself.
CheckVolunteerValidator(v, d) ==
  \E path \in Paths : path = "top" /\ v \in volunteers => d = "self"

\* MsgCreateValidator.
CreateValidator(v, amt) ==
  /\ phase = "deliver"
  /\ NewRecord(v, amt)
  /\ UNCHANGED <<phase, params, valset>>

\* MsgDelegate: the tokens go to the pool of the validator's status.
Delegate(v, d, amt) ==
  /\ phase = "deliver"
  /\ CheckVolunteerValidator(v, d)
  /\ Exists(v)
  /\ Tokens(v) + amt <= StakeBound
  /\ stake' = [stake EXCEPT ![v][d] = @ + amt]
  /\ \/ /\ status[v] = "bonded"
        /\ bondedPool' = bondedPool + amt
        /\ UNCHANGED notBondedPool
     \/ /\ status[v] # "bonded"
        /\ notBondedPool' = notBondedPool + amt
        /\ UNCHANGED bondedPool
  /\ UNCHANGED <<phase, params, status, jailed, powerIndex, valset, unbonding>>

\* MsgUndelegate.
Undelegate(v, d, amt) ==
  /\ phase = "deliver"
  /\ CheckVolunteerValidator(v, d)
  /\ Exists(v)
  /\ Unstake(v, d, amt)
  /\ UNCHANGED <<phase, params, valset>>

\* MsgBeginRedelegate: Unbond from src, delegate to dst, and move the tokens
\* between the pools when the two statuses differ. A delegator is the operator
\* of at most one of the two.
BeginRedelegate(src, d, dst, e, amt) ==
  /\ phase = "deliver"
  /\ src # dst /\ ~(d = "self" /\ e = "self")
  /\ CheckVolunteerValidator(src, d) /\ CheckVolunteerValidator(dst, e)
  /\ Exists(src) /\ Exists(dst)
  /\ Tokens(dst) + amt <= StakeBound
  /\ Unbond(src, d, amt)
  /\ stake' = [stake EXCEPT ![src][d] = @ - amt, ![dst][e] = @ + amt]
  /\ LET from == IF status[src] = "bonded" THEN amt ELSE 0
         to == IF status[dst] = "bonded" THEN amt ELSE 0
     IN /\ bondedPool' = bondedPool - from + to
        /\ notBondedPool' = notBondedPool + from - to
  /\ UNCHANGED <<phase, params, valset, unbonding>>

\* The slashing and evidence modules jail a validator that signs or should.
Jail(v) ==
  /\ phase = "deliver"
  /\ status[v] \in {"bonded", "unbonding"} /\ ~jailed[v]
  /\ jailed' = [jailed EXCEPT ![v] = TRUE]
  /\ powerIndex' = powerIndex \ {v}
  /\ UNCHANGED <<phase, params, status, stake, valset, pools>>

\* MsgUnjail.
Unjail(v) ==
  /\ phase = "deliver"
  /\ Exists(v) /\ jailed[v]
  /\ stake[v]["self"] >= MinSelfDelegation
  /\ jailed' = [jailed EXCEPT ![v] = FALSE]
  /\ powerIndex' = powerIndex \cup {v}
  /\ UNCHANGED <<phase, params, status, stake, valset, pools>>

\* The transactions of the block are over; gov's EndBlocker starts.
EndTransactions ==
  /\ phase = "deliver"
  /\ phase' = "gov"
  /\ UNCHANGED <<params, records, valset, pools>>

-----------------------------------------------------------------------------
(* Messages of passed proposals, executed by gov's EndBlocker.             *)

\* MsgRegisterVolunteerValidator: refused when there is a record; stores the
\* entry and creates the validator.
RegisterVolunteerValidator(v, amt) ==
  /\ phase = "gov"
  /\ NewRecord(v, amt)
  /\ volunteers' = volunteers \cup {v}
  /\ UNCHANGED <<phase, maxValidators, valset>>

\* MsgUnregisterVolunteerValidator: undelegates all the validator's shares
\* from its operator, which fails unless they are all the operator's and not
\* zero, then deletes the entry. Without a record it succeeds and keeps the
\* entry.
UnregisterVolunteerValidator(v) ==
  /\ phase = "gov"
  /\ v \in volunteers
  /\ \/ /\ Exists(v)
        /\ stake[v]["self"] > 0
        /\ Unstake(v, "self", Tokens(v))
        /\ volunteers' = volunteers \ {v}
     \/ /\ ~Exists(v)
        /\ UNCHANGED <<volunteers, records, pools>>
  /\ UNCHANGED <<phase, maxValidators, valset>>

\* The staking module's MsgUpdateParams.
UpdateMaxValidators(m) ==
  /\ phase = "gov"
  /\ maxValidators' = m
  /\ UNCHANGED <<phase, volunteers, records, valset, pools>>

-----------------------------------------------------------------------------
(* The staking module's EndBlocker and BeginBlocker.                       *)

LastSet == {v \in Validators : last[v] > 0}
Unbonding == {v \in Validators : status[v] = "unbonding"}

\* Mutant: the SDK's loop, which knows no volunteers.
bondedSetNoVolunteers == Selected(powerIndex, {}, power, maxValidators)

\* Mutant: a seat for every volunteer is added to the cap of the loop.
bondedSetRaisedCap ==
  Selected(powerIndex, volunteers, power, maxValidators + Cardinality(volunteers))

bondedSet == Selected(powerIndex, volunteers, power, maxValidators)

\* Mutant: only validators that left the index are unbonded.
noLongerBondedIndexOnly == LastSet \ powerIndex

noLongerBonded == LastSet \ bondedSet

\* Mutant: validators that come back while unbonding are not counted.
amtOfUnbonded == SumTokens({v \in bondedSet : status[v] = "unbonded"})

amtFromNotBondedToBonded == SumTokens({v \in bondedSet : status[v] # "bonded"})
amtFromBondedToNotBonded == SumTokens(noLongerBonded)

\* The panics and errors of ApplyAndReturnValidatorSetUpdates: mustGetValidator
\* on a volunteer or on a validator of the index or of the last set, a jailed
\* validator in the power index, an unjailed volunteer the iterator never
\* yields, a bad state transition, a pool that is short.
ApplyFails ==
  \/ \E v \in volunteers \cup powerIndex \cup LastSet : ~Exists(v)
  \/ \E v \in powerIndex : jailed[v]
  \/ \E v \in volunteers : ~jailed[v] /\ v \notin powerIndex
  \/ \E v \in noLongerBonded : status[v] # "bonded"
  \/ amtFromNotBondedToBonded - amtFromBondedToNotBonded > notBondedPool
  \/ amtFromBondedToNotBonded - amtFromNotBondedToBonded > bondedPool

\* Statuses after ApplyAndReturnValidatorSetUpdates.
applied == [v \in Validators |-> IF v \in bondedSet THEN "bonded"
                                 ELSE IF v \in noLongerBonded THEN "unbonding"
                                 ELSE status[v]]

\* Mutant: the entries of validators that left are not deleted.
newLastKeepsLeft == [v \in Validators |-> IF v \in bondedSet THEN power[v] ELSE last[v]]

\* LastValidatorPower after ApplyAndReturnValidatorSetUpdates: written when the
\* power changed, deleted for the validators that left.
newLast == [v \in Validators |-> IF v \in bondedSet THEN power[v] ELSE 0]

\* BlockValidatorUpdates: the new bonded set and last powers, one transfer
\* between the pools, then the validators in mature finish unbonding (and a
\* record without stake is removed) and unbonding delegations worth paid are
\* paid out. How long unbonding takes is left open, but the parameter
\* UnbondingTime is positive: no validator matures in the block it leaves.
BlockValidatorUpdates(mature, paid) ==
  LET removed == {v \in mature : Tokens(v) = 0}
      net == amtFromNotBondedToBonded - amtFromBondedToNotBonded
  IN
  /\ phase = "gov"
  /\ ~ApplyFails
  /\ mature \subseteq Unbonding \ bondedSet
  /\ phase' = "begin"
  /\ last' = newLast
  /\ lastTotalPower' = IF last' # last THEN SumOver(bondedSet, power)
                       ELSE lastTotalPower
  /\ status' = [v \in Validators |-> IF v \in removed THEN "none"
                                     ELSE IF v \in mature THEN "unbonded"
                                     ELSE applied[v]]
  /\ jailed' = [v \in Validators |-> jailed[v] /\ v \notin removed]
  /\ powerIndex' = powerIndex \ removed
  /\ bondedPool' = bondedPool + net
  /\ notBondedPool' = notBondedPool - net - paid
  /\ unbonding' = unbonding - paid
  /\ UNCHANGED <<params, stake>>

\* A panic or an error in the EndBlocker stops every node at this height.
EndBlockFails ==
  /\ phase = "gov"
  /\ ApplyFails
  /\ phase' = "halted"
  /\ UNCHANGED <<params, records, valset, pools>>

\* Mutant: the SDK's bound, without the volunteers.
GetLastValidatorsFailsSDK ==
  \/ Cardinality(LastSet) > maxValidators
  \/ \E v \in LastSet : ~Exists(v)

\* GetLastValidators, which TrackHistoricalInfo calls in BeginBlock, panics on
\* more validators than the parameter and the volunteers make room for, and
\* fails on one without a record.
GetLastValidatorsFails ==
  \/ Cardinality(LastSet) > maxValidators + Cardinality(volunteers)
  \/ \E v \in LastSet : ~Exists(v)

\* The parameter HistoricalEntries is taken to be positive; with zero entries
\* GetLastValidators is not called.
BeginBlock ==
  /\ phase = "begin"
  /\ phase' = IF GetLastValidatorsFails THEN "halted" ELSE "deliver"
  /\ UNCHANGED <<params, records, valset, pools>>

Next ==
  \/ BeginBlock
  \/ \E v \in Validators, amt \in Amounts :
       \/ CreateValidator(v, amt)
       \/ RegisterVolunteerValidator(v, amt)
       \/ \E d \in Delegators : Delegate(v, d, amt) \/ Undelegate(v, d, amt)
       \/ \E dst \in Validators, d, e \in Delegators :
            BeginRedelegate(v, d, dst, e, amt)
  \/ \E v \in Validators : Jail(v) \/ Unjail(v) \/ UnregisterVolunteerValidator(v)
  \/ \E m \in MaxValidatorsSet : UpdateMaxValidators(m)
  \/ EndTransactions
  \/ \E mature \in SUBSET Unbonding, paid \in 0..unbonding :
       BlockValidatorUpdates(mature, paid)
  \/ EndBlockFails

Spec == Init /\ [][Next]_vars

-----------------------------------------------------------------------------
(* Properties.                                                             *)

TypeOK ==
  /\ phase \in {"begin", "deliver", "gov", "halted"}
  /\ maxValidators \in MaxValidatorsSet
  /\ volunteers \subseteq Validators
  /\ status \in [Validators -> Statuses]
  /\ jailed \in [Validators -> BOOLEAN]
  /\ stake \in [Validators -> [Delegators -> Nat]]
  /\ powerIndex \subseteq Validators
  /\ last \in [Validators -> Nat]
  /\ unbonding \in Nat

Bonded == {v \in Validators : status[v] = "bonded"}

\* The power index holds the records that are not jailed and nothing else,
\* through every order of jailing, unjailing, undelegating, registering and
\* removing: what the loop of ApplyAndReturnValidatorSetUpdates relies on when
\* it panics on a jailed validator.
IndexMatchesRecords ==
  powerIndex = {v \in Validators : Exists(v) /\ ~jailed[v]}

\* The entries of LastValidatorPower are the bonded validators, so that
\* bondedToUnbonding never meets a validator in another state.
LastIsBonded == LastSet = Bonded

\* The xpla change to the SDK's EndBlocker: when a block ends, every volunteer
\* with power that is not jailed is bonded, whatever its rank.
VolunteersSeated ==
  phase = "begin" =>
    \A v \in volunteers : ~jailed[v] /\ power[v] > 0 => status[v] = "bonded"

\* The other seats go by power: when a block ends, no validator outside the
\* bonded set ranks before a bonded one that is not a volunteer, and those are
\* at most maxValidators.
SeatsGoByPower ==
  phase = "begin" =>
    /\ Cardinality(Bonded \ volunteers) <= maxValidators
    /\ \A u \in Bonded \ volunteers, v \in powerIndex \ Bonded :
         ~Precedes(power, v, u)

LastPowerIsCurrent ==
  phase = "begin" => \A v \in Bonded : last[v] = power[v]

\* The sanity check of GetLastValidators: between two blocks the last set fits
\* into maxValidators and one more seat per volunteer, whatever governance did
\* to the parameter and to the volunteers in the block before.
LastValidatorsFit == phase = "begin" => ~GetLastValidatorsFails

\* When a block ends, the power of every bonded validator in LastValidatorPower
\* is its current power, although entries that did not change are not written;
\* and LastTotalPower, which is written only when there are updates, is at all
\* times the sum of the last powers.
LastPowersCurrent ==
  LastPowerIsCurrent /\ lastTotalPower = SumOver(Validators, last)

\* The bonded pool holds the tokens of the bonded validators, and the not
\* bonded pool the others' and those of unbonding delegations, although
\* EndBlock only transfers the difference between the two flows.
PoolsBackStake ==
  /\ bondedPool = SumTokens(Bonded)
  /\ notBondedPool = SumTokens(Validators \ Bonded) + unbonding

\* The panics and errors of BeginBlock and EndBlock cannot happen, the sanity
\* check of GetLastValidators ("more validators than maxValidators found")
\* included, but for a volunteer whose record is gone.
HaltsOnlyOnMissingRecord ==
  phase = "halted" => \E v \in volunteers : ~Exists(v)

\* "No other delegation is allowed to the volunteer validator"
\* (tests/e2e/integration_test.go), for messages the ante handler sees.
OnlyOperatorStakes ==
  \A v \in volunteers : stake[v]["other"] = 0

\* mustGetValidator's claim at its call for the volunteers: the record of a
\* volunteer is always found.
VolunteerRecordFound ==
  phase = "gov" => \A v \in volunteers : Exists(v)
=============================================================================
