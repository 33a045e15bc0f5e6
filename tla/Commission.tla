----------------------------- MODULE Commission -----------------------------
(***************************************************************************)
(* The commission of volunteer validators. At every BeginBlock, after the  *)
(* distribution module has allocated the fees, x/volunteer withdraws the   *)
(* commission of each volunteer and gives it to the community pool. The    *)
(* commission goes to the withdraw address of the operator, but the        *)
(* community pool is funded from the account of the operator itself.       *)
(*                                                                         *)
(* The volunteers are ranged over as a Go map, in an order each node picks *)
(* for itself.                                                             *)
(***************************************************************************)
EXTENDS Integers, Sequences, FiniteSets, Functions

CONSTANTS
  Operators,     \* operator accounts of validators
  Elsewhere,     \* an account that belongs to no operator
  Unit,          \* parts of a coin in which commission accumulates
  Allocations,   \* commissions one block may allocate to one validator
  MaxAllocated   \* bound: commission allocated in all

Accounts == Operators \cup {Elsewhere}

ASSUME CommissionAssumption ==
  /\ IsFiniteSet(Operators) /\ Elsewhere \notin Operators
  /\ Unit \in Nat \ {0}
  /\ Allocations \subseteq Nat /\ MaxAllocated \in Nat

VARIABLES
  members,      \* keys of x/volunteer's store
  commission,   \* accumulated commission by operator, in parts of Unit
  withdrawTo,   \* withdraw address by operator
  balance,      \* coins by account
  communityPool,
  allocated,    \* history: commission allocated so far
  halted        \* a BeginBlocker returned an error

commissionVars ==
  <<members, commission, withdrawTo, balance, communityPool, allocated, halted>>

CommissionInit ==
  /\ members \in SUBSET Operators
  /\ commission = [v \in Operators |-> 0]
  /\ withdrawTo = [v \in Operators |-> v]
  /\ balance = [a \in Accounts |-> 1]
  /\ communityPool = 0 /\ allocated = 0
  /\ halted = FALSE

\* The distribution module's AllocateTokens.
AllocateTokens(to) == [v \in Operators |-> commission[v] + to[v]]

\* WithdrawValidatorCommission: an error when there is nothing; otherwise the
\* whole coins go to the withdraw address and the rest stays.
WithdrawValidatorCommission(st, v) ==
  LET coins == st.commission[v] \div Unit IN
  [[st EXCEPT !.commission = [st.commission EXCEPT ![v] = @ % Unit]]
      EXCEPT !.balance = [st.balance EXCEPT ![withdrawTo[v]] = @ + coins]]

\* FundCommunityPool from the account of the operator.
FundCommunityPool(st, v, coins) ==
  IF st.balance[v] < coins THEN [st EXCEPT !.failed = TRUE]
  ELSE [[st EXCEPT !.balance = [st.balance EXCEPT ![v] = @ - coins]]
           EXCEPT !.communityPool = st.communityPool + coins]

\* Mutant: what the withdraw address holds is what is given.
ProcessFromAll(st, v) ==
  IF st.failed \/ st.commission[v] = 0 THEN st
  ELSE LET paid == WithdrawValidatorCommission(st, v)
       IN FundCommunityPool(paid, v, paid.balance[v])

\* Mutant: the community pool is funded before the commission is withdrawn.
ProcessFundsFirst(st, v) ==
  IF st.failed \/ st.commission[v] = 0 THEN st
  ELSE WithdrawValidatorCommission(FundCommunityPool(st, v, st.commission[v] \div Unit), v)

\* One iteration of the loop.
Process(st, v) ==
  IF st.failed \/ st.commission[v] = 0 THEN st
  ELSE FundCommunityPool(WithdrawValidatorCommission(st, v), v, st.commission[v] \div Unit)

\* What the first k iterations leave, and the whole loop, in a given order of
\* the map.
VolunteerValidatorCommissionProcess(order, accumulated) ==
  LET after[k \in 0..Len(order)] ==
        IF k = 0 THEN [commission |-> accumulated, balance |-> balance,
                       communityPool |-> communityPool, failed |-> FALSE]
        ELSE Process(after[k - 1], order[k])
  IN after[Len(order)]

\* The commissions of a block, within the bound.
Allocated ==
  {to \in [Operators -> Allocations] :
     allocated + SumFunctionOnSet(to, Operators) <= MaxAllocated}

\* BeginBlock of distribution and, later in the block, of x/volunteer. An
\* error fails the block: nothing of it is kept and the chain stops.
CommissionBeginBlock(to, order) ==
  LET st == VolunteerValidatorCommissionProcess(order, AllocateTokens(to)) IN
  /\ ~st.failed
  /\ commission' = st.commission /\ balance' = st.balance
  /\ communityPool' = st.communityPool
  /\ allocated' = allocated + SumFunctionOnSet(to, Operators)
  /\ UNCHANGED <<members, withdrawTo, halted>>

CommissionFails(to, order) ==
  /\ VolunteerValidatorCommissionProcess(order, AllocateTokens(to)).failed
  /\ halted' = TRUE
  /\ UNCHANGED <<members, commission, withdrawTo, balance, communityPool, allocated>>

-----------------------------------------------------------------------------
(* Messages.                                                               *)

\* MsgSetWithdrawAddress of the operator.
SetWithdrawAddress(v, a) ==
  /\ withdrawTo' = [withdrawTo EXCEPT ![v] = a]
  /\ UNCHANGED <<members, commission, balance, communityPool, allocated, halted>>

\* MsgSend of one coin.
Send(a, b) ==
  /\ balance[a] > 0
  /\ balance' = [[balance EXCEPT ![a] = @ - 1] EXCEPT ![b] = @ + 1]
  /\ UNCHANGED <<members, commission, withdrawTo, communityPool, allocated, halted>>

\* A volunteer is registered as a new validator, without any commission.
Register(v) ==
  /\ v \notin members
  /\ members' = members \cup {v}
  /\ commission' = [commission EXCEPT ![v] = 0]
  /\ UNCHANGED <<withdrawTo, balance, communityPool, allocated, halted>>

\* An unregistered volunteer keeps what is left of its commission.
Unregister(v) ==
  /\ v \in members
  /\ members' = members \ {v}
  /\ UNCHANGED <<commission, withdrawTo, balance, communityPool, allocated, halted>>
=============================================================================
