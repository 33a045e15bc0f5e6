----------------------------- MODULE BeginBlock -----------------------------
(***************************************************************************)
(* The BeginBlockers of the chain that may fail or keep history: fees are  *)
(* allocated (distribution), the historical entry is written (staking),    *)
(* and the volunteers' commission is passed on (volunteer), in the order   *)
(* of app/modules.go. They are one step: when the last one fails the block *)
(* is not committed, and the entry of its height is not kept either.       *)
(***************************************************************************)
EXTENDS HistoricalInfo, Commission

allVars == <<vars, commissionVars>>

Orders == Bijection(1..Cardinality(members), members)

BlockInit == Init /\ CommissionInit

BeginBlock(to, order) ==
  \/ TrackHistoricalInfo /\ CommissionBeginBlock(to, order)
  \/ phase = "begin" /\ CommissionFails(to, order) /\ UNCHANGED vars

DeliverTx ==
  /\ phase = "deliver"
  /\ \/ \E v \in Operators, a \in Accounts : SetWithdrawAddress(v, a)
     \/ \E a, b \in Accounts : a # b /\ Send(a, b)
  /\ UNCHANGED vars

Proposal ==
  \/ \E n \in EntriesSet : UpdateHistoricalEntries(n) /\ UNCHANGED commissionVars
  \/ /\ phase = "gov"
     /\ \E v \in Operators : Register(v) \/ Unregister(v)
     /\ UNCHANGED vars

BlockNext ==
  /\ ~halted
  /\ \/ \E to \in Allocated, order \in Orders : BeginBlock(to, order)
     \/ DeliverTx \/ Proposal
     \/ (EndTransactions \/ EndBlock) /\ UNCHANGED commissionVars

BlockSpec == BlockInit /\ [][BlockNext]_allVars

-----------------------------------------------------------------------------
Coins(f, S) == SumFunctionOnSet(f, S)

\* A volunteer earns no commission: when the BeginBlockers are through, no
\* whole coin of a volunteer's commission is left, all of it is in the
\* community pool, and the accounts of the chain together hold what they held.
\* An operator whose withdraw address is its own account pays nothing of its
\* own, whatever the others' withdraw addresses are.
CommissionsPaidOn ==
  [][height' # height =>
       /\ \A v \in members : commission'[v] < Unit
       /\ Coins(balance', Accounts) = Coins(balance, Accounts)
       /\ (communityPool' - communityPool) * Unit
            = allocated' - allocated + Coins(commission, members)
                - Coins(commission', members)
                - (Coins(commission', Operators \ members)
                   - Coins(commission, Operators \ members))
       /\ \A v \in members : withdrawTo[v] = v => balance'[v] >= balance[v]]_allVars

\* The loop ranges over a map, so that every node has an order of its own.
\* Unless a volunteer withdraws to the operator account of another one, all
\* orders leave the same state or all of them fail; and none fails when every
\* volunteer withdraws to itself.
NodesAgree ==
  \A to \in Allocated :
    LET Left == {VolunteerValidatorCommissionProcess(order, AllocateTokens(to)) :
                   order \in Orders}
    IN
    /\ (\A v \in members : withdrawTo[v] \notin members \ {v}) =>
         \/ Cardinality(Left) = 1
         \/ \A st \in Left : st.failed
    /\ (\A v \in members : withdrawTo[v] = v) => \A st \in Left : ~st.failed
=============================================================================
