------------------------------ MODULE Restart -------------------------------
(***************************************************************************)
(* The validator set over a restart of the chain: the state is exported    *)
(* between two blocks (app/export.go), at its height or prepared for       *)
(* height zero, and imported as the genesis of a new chain. The volunteers *)
(* are exported and imported as they are (x/volunteer/keeper/genesis.go).  *)
(* What the preparation does to rewards, heights and signing infos is left *)
(* out. An export that panics gives no genesis: the old chain goes on.     *)
(***************************************************************************)
EXTENDS ValidatorSet

\* Mutant: the power index is imported as it was.
ImportOldIndex(records0, jailed0, last0, total, bonded, notBonded) ==
  /\ status' = records0 /\ jailed' = jailed0
  /\ last' = last0 /\ lastTotalPower' = total
  /\ bondedPool' = bonded /\ notBondedPool' = notBonded
  /\ phase' = "begin"
  /\ UNCHANGED <<params, stake, unbonding, powerIndex>>

\* The InitGenesis of the SDK's staking module: the power index is built anew
\* from the records, the last powers are those exported (Exported is set, so
\* ApplyAndReturnValidatorSetUpdates is not called), and pools that do not hold
\* what the records say are a panic.
Import(records0, jailed0, last0, total, bonded, notBonded) ==
  /\ status' = records0 /\ jailed' = jailed0
  /\ powerIndex' = {v \in Validators : records0[v] # "none" /\ ~jailed0[v]}
  /\ last' = last0 /\ lastTotalPower' = total
  /\ bondedPool' = bonded /\ notBondedPool' = notBonded
  /\ LET backed == {v \in Validators : records0[v] = "bonded"} IN
     phase' = IF /\ bonded = SumTokens(backed)
                 /\ notBonded = SumTokens(Validators \ backed) + unbonding
              THEN "begin" ELSE "halted"
  /\ UNCHANGED <<params, stake, unbonding>>

\* Export at the height of the chain.
ExportAppState ==
  /\ phase = "begin"
  /\ Import(status, jailed, last, lastTotalPower, bondedPool, notBondedPool)

\* The validators that are not on the list are jailed, if there is a list. The
\* power index is not touched.
jailedExcept(allowed) ==
  [v \in Validators |-> jailed[v] \/ (allowed # {} /\ Exists(v) /\ v \notin allowed)]

\* The loop of ApplyAndReturnValidatorSetUpdates stops at the first validator
\* without power, and from maxValidators on it only looks at volunteers: a
\* jailed validator before that is a panic.
MeetsJailed(jailed0) ==
  \E v \in powerIndex :
    /\ jailed0[v]
    /\ Cardinality(Ahead(powerIndex, power, v)) < maxValidators
    /\ \A u \in Ahead(powerIndex, power, v) : power[u] > 0

\* prepForZeroHeightGenesis jails, then calls ApplyAndReturnValidatorSetUpdates.
ExportForZeroHeight(allowed) ==
  LET jailed0 == jailedExcept(allowed)
      chosen == Selected(powerIndex, {v \in volunteers : ~jailed0[v]}, power, maxValidators)
      left == LastSet \ chosen
      last0 == [v \in Validators |-> IF v \in chosen THEN power[v] ELSE 0]
      net == SumTokens({v \in chosen : status[v] # "bonded"}) - SumTokens(left)
  IN
  /\ phase = "begin"
  /\ \A v \in volunteers : Exists(v)
  /\ ~MeetsJailed(jailed0)
  /\ Import([v \in Validators |-> IF v \in chosen THEN "bonded"
                                  ELSE IF v \in left THEN "unbonding" ELSE status[v]],
            jailed0, last0,
            IF last0 # last THEN SumOver(chosen, power) ELSE lastTotalPower,
            bondedPool + net, notBondedPool - net)

NextRestart ==
  \/ Next
  \/ ExportAppState
  \/ \E allowed \in SUBSET Validators : ExportForZeroHeight(allowed)

SpecRestart == Init /\ [][NextRestart]_vars
=============================================================================
