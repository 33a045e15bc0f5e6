----------------------------- MODULE ApplyLoop ------------------------------
(***************************************************************************)
(* The two loops of ApplyAndReturnValidatorSetUpdates that choose the      *)
(* bonded set (x/staking/keeper/val_state_change.go), one iteration per    *)
(* step: the first drops jailed volunteers from the map that               *)
(* GetVolunteerValidators returned, the second walks the power index.      *)
(*                                                                         *)
(* The inputs are every power index, power and volunteer map that the      *)
(* stores can hold when EndBlock runs: the index lists the records that    *)
(* are not jailed, and every volunteer has a record.                       *)
(***************************************************************************)
EXTENDS PowerOrder

CONSTANTS
  Validators,     \* operator addresses
  Powers,         \* consensus powers a validator may have
  MaxValidators   \* values of the parameter MaxValidators

ASSUME LoopAssumption ==
  /\ Validators \subseteq Nat /\ IsFiniteSet(Validators)
  /\ Powers \subseteq Nat
  /\ MaxValidators \subseteq Nat \ {0}

VARIABLES
  power, jailed, volunteers, max,  \* the inputs
  pending,    \* volunteers the first loop has not looked at
  remaining,  \* the map volunteerValidators
  visited,    \* what the iterator has yielded
  count,      \* the loop's counter
  bonded,     \* validators that reached count++
  stage       \* "drop" | "walk" | "done"

loopVars == <<power, jailed, volunteers, max, pending, remaining, visited, count,
              bonded, stage>>

powerIndex == Validators \ jailed

LoopInit ==
  /\ power \in [Validators -> Powers]
  /\ jailed \in SUBSET Validators
  /\ volunteers \in SUBSET Validators
  /\ max \in MaxValidators
  /\ pending = volunteers
  /\ remaining = volunteers
  /\ visited = {}
  /\ count = 0
  /\ bonded = {}
  /\ stage = "drop"

\* Mutant: a jailed volunteer stays in the map.
DropNone ==
  /\ stage = "drop"
  /\ stage' = "walk"
  /\ UNCHANGED <<power, jailed, volunteers, max, pending, remaining, visited,
                 count, bonded>>

\* One pass of the range over the volunteer map, in Go's unspecified order.
DropJailed ==
  /\ stage = "drop"
  /\ \/ \E v \in pending :
          /\ pending' = pending \ {v}
          /\ remaining' = IF v \in jailed THEN remaining \ {v} ELSE remaining
          /\ stage' = stage
     \/ /\ pending = {}
        /\ stage' = "walk"
        /\ UNCHANGED <<pending, remaining>>
  /\ UNCHANGED <<power, jailed, volunteers, max, visited, count, bonded>>

\* iterator.Value(): the first validator of the index not yet visited.
IsCurrent(v) ==
  /\ v \in powerIndex \ visited
  /\ Ahead(powerIndex, power, v) \subseteq visited

Valid == powerIndex \ visited # {}

\* Mutant: the SDK's condition.
ContinuesSDK == Valid /\ count < max

\* The condition of the for statement.
Continues == (Valid /\ count < max) \/ remaining # {}

LoopExit ==
  /\ stage = "walk"
  /\ ~Continues
  /\ stage' = "done"
  /\ UNCHANGED <<power, jailed, volunteers, max, pending, remaining, visited,
                 count, bonded>>

\* Mutant: continue without iterator.Next().
VisitStuck(v) ==
  \/ /\ v \notin remaining /\ count >= max
     /\ UNCHANGED <<visited, remaining, count, bonded, stage>>
  \/ /\ v \in remaining \/ count < max
     /\ visited' = visited \cup {v}
     /\ remaining' = remaining \ {v}
     /\ IF power[v] = 0
        THEN stage' = "done" /\ UNCHANGED <<count, bonded>>
        ELSE stage' = stage /\ count' = count + 1 /\ bonded' = bonded \cup {v}

\* The loop body for the validator the iterator is at.
Visit(v) ==
  /\ visited' = visited \cup {v}
  /\ remaining' = remaining \ {v}
  /\ \/ /\ v \notin remaining /\ count >= max       \* continue
        /\ UNCHANGED <<count, bonded, stage>>
     \/ /\ v \in remaining \/ count < max
        /\ power[v] = 0                             \* break
        /\ stage' = "done"
        /\ UNCHANGED <<count, bonded>>
     \/ /\ v \in remaining \/ count < max
        /\ power[v] > 0
        /\ bonded' = bonded \cup {v}
        /\ count' = count + 1
        /\ stage' = stage

LoopBody ==
  /\ stage = "walk"
  /\ Continues
  /\ \E v \in Validators : IsCurrent(v) /\ Visit(v)
  /\ UNCHANGED <<power, jailed, volunteers, max, pending>>

LoopNext == DropJailed \/ LoopExit \/ LoopBody

LoopSpec == LoopInit /\ [][LoopNext]_loopVars /\ WF_loopVars(LoopNext)

-----------------------------------------------------------------------------
\* The loop, whichever way it ends (exhausted, full with no volunteer left,
\* or the zero-power break), has bonded exactly the validators the closed
\* form Selected names.
BondsSelected ==
  stage = "done" => bonded = Selected(powerIndex, volunteers, power, max)

\* The loop condition keeps the loop running past maxValidators, and would keep
\* it running past the end of the index, while a volunteer is left in the map;
\* Value() of an exhausted iterator panics. No input gets there.
NeverReadsPastEnd == stage = "walk" /\ Continues => Valid

\* EndBlock returns: the loop ends for every input.
Terminates == <>(stage = "done")
=============================================================================
