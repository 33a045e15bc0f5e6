----------------------------- MODULE BurnProofs -----------------------------
(***************************************************************************)
(* x/burn for any number of proposals and accounts, any MsgBurns, with or  *)
(* without expedited votes and cancellations.                              *)
(***************************************************************************)
EXTENDS Burn, SetLemmas

\* The MsgBurns of a proposal have a sum, and the last one is a part of it.
LEMMA TotalAmounts ==
  \A msgs \in MsgLists \cup {<<>>} :
    Total(msgs) \in Nat /\ (msgs # <<>> => msgs[Len(msgs)] \in 0..Total(msgs))
<1> SUFFICES ASSUME NEW msgs \in MsgLists \cup {<<>>}
             PROVE  /\ Total(msgs) \in Nat
                    /\ msgs # <<>> => msgs[Len(msgs)] \in 0..Total(msgs)
  OBVIOUS
<1>0. msgs \in Seq(Nat)
  <2>1. MsgLists \subseteq Seq(Nat)
    BY BurnAssumption, Zenon
  <2>2. <<>> \in Seq(Nat)
    OBVIOUS
  <2> QED
    BY <2>1, <2>2, Zenon
<1>1. DOMAIN msgs = 1..Len(msgs) /\ \A i \in DOMAIN msgs : msgs[i] \in Nat
  BY <1>0
<1>2. IsFiniteSet(DOMAIN msgs)
  BY <1>0, <1>1, FS_Interval
<1>3. Total(msgs) \in Nat
  BY <1>1, <1>2, SumNat DEF Total, SumFunction
<1>4. ASSUME msgs # <<>> PROVE msgs[Len(msgs)] \in 0..Total(msgs)
  <2>1. Len(msgs) \in DOMAIN msgs
    BY <1>0, <1>4
  <2>2. msgs[Len(msgs)] <= Total(msgs)
    BY <1>1, <1>2, <2>1, SumTerm DEF Total, SumFunction
  <2> QED
    BY <1>1, <1>3, <2>1, <2>2
<1> QED
  BY <1>3, <1>4

USE TotalAmounts

Records == [proposer : Accounts \cup {"none"}, msgs : MsgLists \cup {<<>>},
            expedited : BOOLEAN]
Statuses == {"none", "deposit", "voting", "passed", "failed", "rejected", "deleted"}

Types ==
  /\ status \in [Proposals -> Statuses]
  /\ proposal \in [Proposals -> Records]
  /\ refunded \in [Proposals -> Nat]
  /\ DOMAIN ongoing \subseteq Proposals

\* An entry of OngoingBurnProposals is at most what was taken for its proposal,
\* and nothing was returned for the proposal yet: a hook that returns coins
\* removes the entry.
EntryUnpaid(p) ==
  p \in DOMAIN ongoing =>
    ongoing[p] \in 0..Total(proposal[p].msgs) /\ refunded[p] = 0 /\ status[p] # "none"

\* The inductive invariant.
Inv ==
  /\ Types
  /\ \A p \in Proposals : EntryUnpaid(p)
  /\ \A p \in Proposals : status[p] = "none" => refunded[p] = 0
  /\ RefundedAtMostOnce

-----------------------------------------------------------------------------
\* The amounts of a stored proposal have a sum.
LEMMA TotalOfProposal ==
  ASSUME Types, NEW p \in Proposals
  PROVE  Total(proposal[p].msgs) \in Nat
  BY DEF Types, Records

\* The chain starts without proposals.
LEMMA InitInv == Init => Inv
<1> SUFFICES ASSUME Init PROVE Inv
  OBVIOUS
<1>1. Types
  BY DEF Init, Types, Records, Statuses
<1>2. \A p \in Proposals : proposal[p].msgs = <<>> /\ refunded[p] = 0
  BY DEF Init
<1>3. Total(<<>>) \in Nat
  OBVIOUS
<1>4. RefundedAtMostOnce
  BY <1>2, <1>3 DEF RefundedAtMostOnce
<1> QED
  BY <1>1, <1>2, <1>4 DEF Init, Inv, EntryUnpaid

\* A submission stores at most one entry, for a proposal without a past.
LEMMA SubmitProposalInv ==
  ASSUME Inv, NEW p \in Proposals, NEW a \in Accounts, NEW msgs \in MsgLists,
         NEW expedited \in BOOLEAN, SubmitProposal(p, a, msgs, expedited)
  PROVE  Inv'
<1>1. /\ status[p] = "none" /\ refunded[p] = 0
      /\ status' = [status EXCEPT ![p] = "deposit"]
      /\ refunded' = refunded
      /\ proposal' = [proposal EXCEPT ![p] = [proposer |-> a, msgs |-> msgs,
                                              expedited |-> expedited]]
      /\ ongoing' = IF msgs = <<>> THEN ongoing ELSE Stored(p, msgs[Len(msgs)])
  BY DEF Inv, SubmitProposal, AfterProposalSubmission
<1>2. Types'
  <2>1. DOMAIN ongoing' \subseteq Proposals
    BY <1>1 DEF Inv, Types, Stored
  <2>2. proposal' \in [Proposals -> Records]
    BY <1>1 DEF Inv, Types, Records
  <2> QED
    BY <1>1, <2>1, <2>2 DEF Inv, Types, Statuses
<1>3. /\ proposal'[p].msgs = msgs /\ status'[p] = "deposit"
      /\ \A q \in Proposals \ {p} : proposal'[q] = proposal[q] /\ status'[q] = status[q]
  BY <1>1 DEF Inv, Types
<1>4. p \notin DOMAIN ongoing
  BY <1>1 DEF Inv, EntryUnpaid
<1>5. ASSUME NEW q \in Proposals PROVE EntryUnpaid(q)'
  <2>1. CASE q # p
    BY <1>1, <1>3, <2>1 DEF Inv, EntryUnpaid, Stored
  <2>2. CASE q = p /\ msgs = <<>>
    BY <1>1, <1>4, <2>2 DEF EntryUnpaid
  <2>3. CASE q = p /\ msgs # <<>>
    <3>1. ongoing'[p] = msgs[Len(msgs)] /\ msgs[Len(msgs)] \in 0..Total(msgs)
      BY <1>1, <2>3 DEF Stored
    <3> QED
      BY <1>1, <1>3, <2>3, <3>1 DEF EntryUnpaid
  <2> QED
    BY <2>1, <2>2, <2>3
<1>6. RefundedAtMostOnce'
  <2> SUFFICES ASSUME NEW q \in Proposals
               PROVE  refunded'[q] <= Total(proposal'[q].msgs)
    BY DEF RefundedAtMostOnce
  <2>1. CASE q = p
    BY <1>1, <1>3, <2>1
  <2>2. CASE q # p
    BY <1>1, <1>3, <2>2 DEF Inv, RefundedAtMostOnce
  <2> QED
    BY <2>1, <2>2
<1>7. \A q \in Proposals : status'[q] = "none" => refunded'[q] = 0
  BY <1>1, <1>3 DEF Inv
<1> QED
  BY <1>2, <1>5, <1>6, <1>7 DEF Inv

\* A hook that returns coins for p removes the entry of p; a hook that does not
\* leaves all as it is.
HookReturns(p) ==
  \E amt \in 0..Total(proposal[p].msgs) :
    /\ p \in DOMAIN ongoing
    /\ refunded' = [refunded EXCEPT ![p] = @ + amt]
    /\ ongoing' = Removed(p)

\* The two hooks after a period return at most what was taken.
LEMMA HooksReturn ==
  ASSUME Inv, NEW p \in Proposals,
         AfterProposalFailedMinDeposit(p) \/ AfterProposalVotingPeriodEnded(p)
  PROVE  HookReturns(p) \/ UNCHANGED <<ongoing, refunded>>
<1>1. Total(proposal[p].msgs) \in Nat
  BY TotalOfProposal DEF Inv
<1>2. Total(proposal[p].msgs) \in 0..Total(proposal[p].msgs)
  BY <1>1
<1>3. p \in DOMAIN ongoing => ongoing[p] \in 0..Total(proposal[p].msgs)
  BY DEF Inv, EntryUnpaid
<1>4. CASE p \in DOMAIN ongoing /\ Refund(p, ongoing[p])
  BY <1>3, <1>4, Zenon DEF Refund, HookReturns
<1>5. CASE p \in DOMAIN ongoing /\ Refund(p, Total(proposal[p].msgs))
  BY <1>2, <1>5, Zenon DEF Refund, HookReturns
<1> QED
  BY <1>4, <1>5 DEF AfterProposalFailedMinDeposit, AfterProposalVotingPeriodEnded

\* The end of a period keeps the invariant: the messages of proposals stay, no
\* proposal comes back, and a hook returned at most once.
LEMMA PeriodInv ==
  ASSUME Inv, NEW p \in Proposals, Types',
         \A q \in Proposals : proposal'[q].msgs = proposal[q].msgs,
         \A q \in Proposals : status'[q] = "none" <=> status[q] = "none",
         status[p] # "none",
         \/ HookReturns(p)
         \/ UNCHANGED <<ongoing, refunded>>
         \/ UNCHANGED refunded /\ ongoing' = Removed(p)
  PROVE  Inv'
<1>1. CASE HookReturns(p)
  <2>1. PICK amt \in 0..Total(proposal[p].msgs) :
          /\ p \in DOMAIN ongoing
          /\ refunded' = [refunded EXCEPT ![p] = @ + amt]
          /\ ongoing' = Removed(p)
    BY <1>1, Zenon DEF HookReturns
  <2>2. Total(proposal[p].msgs) \in Nat
    BY TotalOfProposal DEF Inv
  <2>3. /\ refunded'[p] = amt
        /\ \A q \in Proposals \ {p} : refunded'[q] = refunded[q]
    BY <2>1, <2>2 DEF Inv, Types, EntryUnpaid
  <2>4. \A q \in Proposals : EntryUnpaid(q)'
    BY <2>1, <2>3, Zenon DEF Inv, EntryUnpaid, Removed
  <2>5. RefundedAtMostOnce'
    BY <2>2, <2>3 DEF Inv, RefundedAtMostOnce
  <2>6. \A q \in Proposals : status'[q] = "none" => refunded'[q] = 0
    BY <2>3 DEF Inv
  <2> QED
    BY <2>4, <2>5, <2>6 DEF Inv
<1>2. CASE UNCHANGED <<ongoing, refunded>>
  BY <1>2 DEF Inv, EntryUnpaid, RefundedAtMostOnce
<1>3. CASE UNCHANGED refunded /\ ongoing' = Removed(p)
  <2>1. \A q \in Proposals : EntryUnpaid(q)'
    BY <1>3 DEF Inv, EntryUnpaid, Removed
  <2> QED
    BY <1>3, <2>1 DEF Inv, RefundedAtMostOnce
<1> QED
  BY <1>1, <1>2, <1>3
\* What a step of one proposal does to all of them, submissions apart.
LEMMA StepOf ==
  ASSUME Inv, NEW p \in Proposals,
         \/ ActivateVotingPeriod(p) \/ DepositPeriodEnded(p) \/ Passes(p)
         \/ FailsOnExecution(p) \/ DoesNotPass(p) \/ CancelProposal(p)
  PROVE  /\ Types'
         /\ \A q \in Proposals : proposal'[q].msgs = proposal[q].msgs
         /\ \A q \in Proposals : status'[q] = "none" <=> status[q] = "none"
         /\ status[p] # "none"
         /\ \/ HookReturns(p)
            \/ UNCHANGED <<ongoing, refunded>>
            \/ UNCHANGED refunded /\ ongoing' = Removed(p)
<1>1. \/ HookReturns(p)
      \/ UNCHANGED <<ongoing, refunded>>
      \/ UNCHANGED refunded /\ ongoing' = Removed(p)
  <2>1. CASE ActivateVotingPeriod(p) \/ CancelProposal(p) \/ Passes(p)
    BY <2>1 DEF ActivateVotingPeriod, CancelProposal, Passes
  <2>2. CASE DepositPeriodEnded(p) \/ FailsOnExecution(p) \/ DoesNotPass(p)
    BY <2>2, HooksReturn DEF DepositPeriodEnded, FailsOnExecution, DoesNotPass
  <2> QED
    BY <2>1, <2>2
<1>2. /\ status[p] \in {"deposit", "voting"}
      /\ \/ status' = status
         \/ \E s \in Statuses \ {"none"} : status' = [status EXCEPT ![p] = s]
  BY Zenon DEF ActivateVotingPeriod, CancelProposal, Passes, DepositPeriodEnded,
         FailsOnExecution, DoesNotPass, Live, Statuses
<1>3. \/ proposal' = proposal
      \/ proposal' = [proposal EXCEPT ![p] = [proposer |-> @.proposer,
                                              msgs |-> @.msgs, expedited |-> FALSE]]
  BY DEF ActivateVotingPeriod, CancelProposal, Passes, DepositPeriodEnded,
         FailsOnExecution, DoesNotPass
<1>4. /\ status' \in [Proposals -> Statuses]
      /\ \A q \in Proposals : status'[q] = "none" <=> status[q] = "none"
  BY <1>2 DEF Inv, Types
<1>5. /\ proposal' \in [Proposals -> Records]
      /\ \A q \in Proposals : proposal'[q].msgs = proposal[q].msgs
  <2>1. CASE proposal' = proposal
    BY <2>1 DEF Inv, Types
  <2>2. CASE proposal' # proposal
    <3> DEFINE r == [proposer |-> proposal[p].proposer, msgs |-> proposal[p].msgs,
                     expedited |-> FALSE]
    <3>1. proposal' = [proposal EXCEPT ![p] = r]
      BY <1>3, <2>2
    <3>2. r \in Records /\ r.msgs = proposal[p].msgs
      BY DEF Inv, Types, Records
    <3> HIDE DEF r
    <3> QED
      BY <3>1, <3>2 DEF Inv, Types
  <2> QED
    BY <2>1, <2>2
<1>6. refunded' \in [Proposals -> Nat] /\ DOMAIN ongoing' \subseteq Proposals
  <2>1. CASE HookReturns(p)
    <3>1. PICK amt \in 0..Total(proposal[p].msgs) :
            refunded' = [refunded EXCEPT ![p] = @ + amt] /\ ongoing' = Removed(p)
      BY <2>1, Zenon DEF HookReturns
    <3> QED
      BY <3>1, TotalOfProposal DEF Inv, Types, Removed
  <2>2. CASE ~HookReturns(p)
    BY <1>1, <2>2 DEF Inv, Types, Removed
  <2> QED
    BY <2>1, <2>2
<1> QED
  BY <1>1, <1>2, <1>4, <1>5, <1>6 DEF Types

\* Every step keeps the invariant.
LEMMA NextInv == Inv /\ [Next]_vars => Inv'
<1> SUFFICES ASSUME Inv, [Next]_vars PROVE Inv'
  OBVIOUS
<1>1. ASSUME NEW p \in Proposals, NEW a \in Accounts, NEW msgs \in MsgLists,
             NEW expedited \in BOOLEAN, SubmitProposal(p, a, msgs, expedited)
      PROVE  Inv'
  BY <1>1, SubmitProposalInv
<1>2. ASSUME NEW p \in Proposals,
             \/ ActivateVotingPeriod(p) \/ DepositPeriodEnded(p) \/ Passes(p)
             \/ FailsOnExecution(p) \/ DoesNotPass(p) \/ CancelProposal(p)
      PROVE  Inv'
  BY <1>2, StepOf, PeriodInv
<1>3. CASE UNCHANGED vars
  BY <1>3 DEF vars, Inv, Types, EntryUnpaid, RefundedAtMostOnce
<1> QED
  BY <1>1, <1>2, <1>3 DEF Next

\* The hooks together never return more for a proposal than its submission
\* took, with two MsgBurns in a proposal, converted expedited votes and
\* cancellations in any order.
THEOREM RefundsFit == Spec => []RefundedAtMostOnce
<1>1. Inv => RefundedAtMostOnce
  BY DEF Inv
<1> QED
  BY <1>1, InitInv, NextInv, PTL DEF Spec

-----------------------------------------------------------------------------
\* Without expedited proposals, nothing was returned for a live or passed one.
LiveUnpaid ==
  /\ \A p \in Proposals : ~proposal[p].expedited
  /\ RefundOnlyAfterFailure

\* A step of a proposal that is not expedited keeps this: a hook that returns
\* coins runs with the change to a status of failure.
LEMMA LiveUnpaidStep ==
  ASSUME ~MayExpedite, Inv, LiveUnpaid, Next
  PROVE  LiveUnpaid'
<1>1. ASSUME NEW p \in Proposals, NEW a \in Accounts, NEW msgs \in MsgLists,
             NEW expedited \in BOOLEAN, SubmitProposal(p, a, msgs, expedited)
      PROVE  LiveUnpaid'
  <2>1. /\ ~expedited /\ status[p] = "none" /\ refunded' = refunded
        /\ status' = [status EXCEPT ![p] = "deposit"]
        /\ proposal' = [proposal EXCEPT ![p] = [proposer |-> a, msgs |-> msgs,
                                                expedited |-> expedited]]
    BY <1>1 DEF SubmitProposal
  <2>2. \A q \in Proposals : ~proposal'[q].expedited
    BY <2>1 DEF Inv, Types, LiveUnpaid
  <2>3. RefundOnlyAfterFailure'
    BY <2>1 DEF Inv, Types, LiveUnpaid, RefundOnlyAfterFailure
  <2> QED
    BY <2>2, <2>3 DEF LiveUnpaid
<1>2. ASSUME NEW p \in Proposals,
             ActivateVotingPeriod(p) \/ Passes(p) \/ CancelProposal(p)
      PROVE  LiveUnpaid'
  <2>1. /\ proposal' = proposal /\ refunded' = refunded
        /\ status[p] \in {"deposit", "voting"}
        /\ \E s \in Statuses : status' = [status EXCEPT ![p] = s]
    BY <1>2 DEF ActivateVotingPeriod, Passes, CancelProposal, Live, Statuses
  <2> QED
    BY <2>1 DEF Inv, Types, LiveUnpaid, RefundOnlyAfterFailure
<1>3. ASSUME NEW p \in Proposals,
             DepositPeriodEnded(p) \/ FailsOnExecution(p) \/ DoesNotPass(p)
      PROVE  LiveUnpaid'
  <2>1. /\ proposal' = proposal
        /\ \E s \in {"rejected", "failed", "deleted"} : status' = [status EXCEPT ![p] = s]
    BY <1>3 DEF DepositPeriodEnded, FailsOnExecution, DoesNotPass, LiveUnpaid
  <2>2. \A q \in Proposals \ {p} : refunded'[q] = refunded[q]
    <3>1. HookReturns(p) \/ UNCHANGED <<ongoing, refunded>>
      BY <1>3, HooksReturn DEF DepositPeriodEnded, FailsOnExecution, DoesNotPass
    <3> QED
      BY <3>1 DEF HookReturns, Inv, Types
  <2> QED
    BY <2>1, <2>2 DEF Inv, Types, LiveUnpaid, RefundOnlyAfterFailure
<1> QED
  BY <1>1, <1>2, <1>3 DEF Next

\* It is inductive, relative to Inv.
LEMMA LiveUnpaidInductive ==
  ASSUME ~MayExpedite
  PROVE  Inv /\ LiveUnpaid /\ [Next]_vars => LiveUnpaid'
<1>1. Inv /\ LiveUnpaid /\ Next => LiveUnpaid'
  BY LiveUnpaidStep
<1>2. LiveUnpaid /\ UNCHANGED vars => LiveUnpaid'
  BY DEF vars, LiveUnpaid, RefundOnlyAfterFailure
<1> QED
  BY <1>1, <1>2

\* "If proposal failed, return burn amount to proposer" is what the hooks do as
\* long as proposals cannot be expedited: nothing is returned for a proposal
\* that passed or can still pass.
THEOREM OnlyFailedRefunded ==
  ASSUME ~MayExpedite
  PROVE  Spec => []RefundOnlyAfterFailure
<1>1. Init => LiveUnpaid
  BY DEF Init, LiveUnpaid, RefundOnlyAfterFailure
<1>2. Inv /\ LiveUnpaid /\ [Next]_vars => LiveUnpaid'
  BY LiveUnpaidInductive
<1>3. LiveUnpaid => RefundOnlyAfterFailure
  BY DEF LiveUnpaid
<1> QED
  BY <1>1, <1>2, <1>3, InitInv, NextInv, PTL DEF Spec

-----------------------------------------------------------------------------
(* The module account.                                                     *)

Money == balance \in [Accounts -> Nat] /\ module \in Nat

\* The amount a hook may return for a proposal is a natural number.
LEMMA RefundMoney ==
  ASSUME Money, NEW p \in Proposals, NEW amt \in Nat, Refund(p, amt)
  PROVE  Money'
<1>1. /\ balance \in [Accounts -> Nat] /\ module \in Nat
      /\ balance' = [balance EXCEPT ![proposal[p].proposer] = @ + amt]
      /\ amt <= module /\ module' = module - amt
  BY DEF Money, Refund
<1>2. balance' \in [Accounts -> Nat]
  <2> DEFINE a == proposal[p].proposer
             b == balance[a] + amt
  <2>1. balance' = [balance EXCEPT ![a] = b] /\ (a \in Accounts => b \in Nat)
    BY <1>1
  <2> HIDE DEF a, b
  <2> QED
    BY <1>1, <2>1, Zenon
<1>3. module' \in Nat
  BY <1>1
<1> QED
  BY <1>2, <1>3 DEF Money

\* Every operation of the bank is guarded by the balance it takes from.
LEMMA MoneyStep == Inv /\ Money /\ [Next]_vars => Money'
<1> SUFFICES ASSUME Inv, Money, [Next]_vars PROVE Money'
  OBVIOUS
<1>1. ASSUME NEW p \in Proposals, NEW a \in Accounts, NEW msgs \in MsgLists,
             NEW expedited \in BOOLEAN, SubmitProposal(p, a, msgs, expedited)
      PROVE  Money'
  <2>1. Total(msgs) \in Nat
    OBVIOUS
  <2> QED
    BY <1>1, <2>1 DEF Money, SubmitProposal, AfterProposalSubmission
<1>2. ASSUME NEW p \in Proposals,
             DepositPeriodEnded(p) \/ FailsOnExecution(p) \/ DoesNotPass(p)
      PROVE  Money'
  <2>1. Total(proposal[p].msgs) \in Nat
    BY TotalOfProposal DEF Inv
  <2>2. p \in DOMAIN ongoing => ongoing[p] \in Nat
    BY <2>1 DEF Inv, EntryUnpaid
  <2>3. \/ p \in DOMAIN ongoing /\ Refund(p, ongoing[p])
        \/ Refund(p, Total(proposal[p].msgs))
        \/ UNCHANGED bank
    BY <1>2 DEF DepositPeriodEnded, FailsOnExecution, DoesNotPass,
                AfterProposalFailedMinDeposit, AfterProposalVotingPeriodEnded
  <2> QED
    BY <2>1, <2>2, <2>3, RefundMoney DEF Money, bank
<1>3. ASSUME NEW p \in Proposals, Passes(p)
      PROVE  Money'
  <2>1. Total(proposal[p].msgs) \in Nat
    BY TotalOfProposal DEF Inv
  <2> QED
    BY <1>3, <2>1 DEF Money, Passes, BurnSucceeds
<1>4. ASSUME NEW p \in Proposals, ActivateVotingPeriod(p) \/ CancelProposal(p)
      PROVE  Money'
  BY <1>4 DEF Money, ActivateVotingPeriod, CancelProposal, bank
<1>5. CASE UNCHANGED vars
  BY <1>5 DEF vars, Money
<1> QED
  BY <1>1, <1>2, <1>3, <1>4, <1>5 DEF Next

\* The proposals that can still pass and for which nothing was returned, and
\* what their submissions took.
Unpaid == {p \in Proposals : Live(p) /\ refunded[p] = 0}
Taken == [p \in Proposals |-> Total(proposal[p].msgs)]

\* The strengthening of EscrowCovered: a refund for a proposal that can still
\* pass does no harm until that proposal passes.
Covered ==
  (\A p \in Proposals : status[p] = "passed" => refunded[p] = 0)
    => SumFunctionOnSet(Taken, Unpaid) <= module

LEMMA TakenTypes ==
  ASSUME Inv
  PROVE  /\ \A p \in Proposals : Taken[p] \in Nat
         /\ IsFiniteSet(Proposals) /\ IsFiniteSet(Unpaid)
         /\ SumFunctionOnSet(Taken, Unpaid) \in Nat
<1>1. \A p \in Proposals : Taken[p] \in Nat
  BY TotalOfProposal DEF Inv, Taken
<1>2. IsFiniteSet(Proposals)
  BY BurnAssumption, Zenon
<1>3. IsFiniteSet(Unpaid)
  BY <1>2, FS_Subset DEF Unpaid
<1>4. \A p \in Unpaid : Taken[p] \in Nat
  BY <1>1 DEF Unpaid
<1> QED
  BY <1>1, <1>2, <1>3, <1>4, SumNat

\* A submission puts into the account what it adds to the sum.
LEMMA SubmitCovered ==
  ASSUME Inv, Inv', Money, Covered, NEW p \in Proposals, NEW a \in Accounts,
         NEW msgs \in MsgLists, NEW expedited \in BOOLEAN,
         SubmitProposal(p, a, msgs, expedited)
  PROVE  Covered'
<1> SUFFICES ASSUME \A q \in Proposals : status'[q] = "passed" => refunded'[q] = 0
             PROVE  SumFunctionOnSet(Taken', Unpaid') <= module'
  BY DEF Covered
<1>1. /\ status[p] = "none" /\ refunded[p] = 0 /\ refunded' = refunded
      /\ status' = [status EXCEPT ![p] = "deposit"]
      /\ proposal' = [proposal EXCEPT ![p] = [proposer |-> a, msgs |-> msgs,
                                              expedited |-> expedited]]
      /\ module' = module + Total(msgs)
  BY DEF Inv, SubmitProposal, AfterProposalSubmission
<1>2. \A q \in Proposals : status[q] = "passed" => refunded[q] = 0
  BY <1>1 DEF Inv, Types
<1>3. p \notin Unpaid /\ Unpaid' = Unpaid \cup {p}
  BY <1>1 DEF Unpaid, Live, Inv, Types
<1>4. Taken'[p] = Total(msgs) /\ \A q \in Unpaid : Taken'[q] = Taken[q]
  <2>1. proposal'[p].msgs = msgs
    BY <1>1 DEF Inv, Types
  <2>2. \A q \in Proposals \ {p} : proposal'[q] = proposal[q]
    BY <1>1 DEF Inv, Types
  <2> QED
    BY <1>3, <2>1, <2>2 DEF Taken, Unpaid
<1>5. Total(msgs) \in Nat
  OBVIOUS
<1>6. SumFunctionOnSet(Taken', Unpaid) = SumFunctionOnSet(Taken, Unpaid)
  BY <1>4, TakenTypes, SumSame
<1>7. SumFunctionOnSet(Taken', Unpaid') = Total(msgs) + SumFunctionOnSet(Taken', Unpaid)
  <2> DEFINE T == Taken'
  <2>1. IsFiniteSet(Unpaid) /\ (\A q \in Unpaid : T[q] \in Int) /\ T[p] \in Int
    BY <1>4, <1>5, TakenTypes DEF Unpaid
  <2> HIDE DEF T
  <2>2. SumFunctionOnSet(T, Unpaid \cup {p}) = T[p] + SumFunctionOnSet(T, Unpaid)
    BY <1>3, <2>1, SumInsert
  <2> QED
    BY <1>3, <1>4, <2>2 DEF T
<1> QED
  BY <1>1, <1>2, <1>5, <1>6, <1>7, TakenTypes DEF Covered, Money

\* A step that takes amt from the account for p, when p leaves the sum with at
\* least that.
LEMMA LeaveCovered ==
  ASSUME Inv, Money, Covered, NEW p \in Proposals, NEW amt \in Nat,
         Taken' = Taken, Unpaid' \in SUBSET Unpaid,
         module' = module - amt,
         amt = 0 \/ (p \in Unpaid /\ p \notin Unpaid' /\ amt <= Taken[p]),
         \A q \in Proposals : status[q] = "passed" => refunded[q] = 0
  PROVE  SumFunctionOnSet(Taken', Unpaid') <= module'
<1>1. SumFunctionOnSet(Taken, Unpaid) <= module
  BY DEF Covered
<1>2. \A q \in Unpaid : Taken[q] \in Nat
  BY TakenTypes DEF Unpaid
<1> DEFINE V == Unpaid'
           T == Taken
<1>3. V \in SUBSET Unpaid /\ T = Taken' /\ V = Unpaid'
  OBVIOUS
<1> HIDE DEF V, T
<1>4. CASE amt = 0
  <2>1. SumFunctionOnSet(T, V) <= SumFunctionOnSet(T, Unpaid)
    BY <1>2, <1>3, TakenTypes, SumPart DEF T
  <2>2. SumFunctionOnSet(T, V) \in Nat
    BY <1>2, <1>3, TakenTypes, SumPart DEF T
  <2> QED
    BY <1>1, <1>3, <1>4, <2>1, <2>2, TakenTypes DEF Money, T
<1>5. CASE p \in Unpaid /\ p \notin V /\ amt <= Taken[p]
  <2>1. SumFunctionOnSet(T, Unpaid) = T[p] + SumFunctionOnSet(T, Unpaid \ {p})
    BY <1>2, <1>5, TakenTypes, SumRemove DEF T
  <2>2. V \in SUBSET (Unpaid \ {p}) /\ IsFiniteSet(Unpaid \ {p})
    BY <1>3, <1>5, TakenTypes, FS_Subset
  <2>3. /\ SumFunctionOnSet(T, V) \in Nat
        /\ SumFunctionOnSet(T, Unpaid \ {p}) \in Nat
        /\ SumFunctionOnSet(T, V) <= SumFunctionOnSet(T, Unpaid \ {p})
    BY <1>2, <2>2, SumPart DEF T
  <2>4. T[p] \in Nat /\ amt <= T[p]
    BY <1>2, <1>5 DEF T
  <2> HIDE DEF Unpaid
  <2>5. T[p] + SumFunctionOnSet(T, Unpaid \ {p}) <= module
    BY <1>1, <2>1 DEF T
  <2> QED
    BY <1>3, <2>3, <2>4, <2>5 DEF Money
<1> QED
  BY <1>3, <1>4, <1>5

\* What the end of a period does to the account and to the sum.
LEMMA PeriodCovered ==
  ASSUME Inv, Inv', Money, Covered, NEW p \in Proposals,
         \/ ActivateVotingPeriod(p) \/ DepositPeriodEnded(p) \/ Passes(p)
         \/ FailsOnExecution(p) \/ DoesNotPass(p) \/ CancelProposal(p)
  PROVE  Covered'
<1> SUFFICES ASSUME \A q \in Proposals : status'[q] = "passed" => refunded'[q] = 0
             PROVE  SumFunctionOnSet(Taken', Unpaid') <= module'
  BY DEF Covered
<1>1. Taken' = Taken
  BY StepOf DEF Taken
<1>2. Total(proposal[p].msgs) \in Nat /\ Taken[p] = Total(proposal[p].msgs)
  BY TotalOfProposal DEF Inv, Taken
<1>3. Live(p)
  BY DEF ActivateVotingPeriod, CancelProposal, Passes, DepositPeriodEnded,
         FailsOnExecution, DoesNotPass, Live
<1>4. /\ \A q \in Proposals \ {p} : status'[q] = status[q]
      /\ Live(p)' \/ status'[p] \in {"passed", "failed", "rejected", "deleted"}
  <2>1. \/ status' = status
        \/ \E s \in {"voting", "passed", "failed", "rejected", "deleted"} :
             status' = [status EXCEPT ![p] = s]
    BY Zenon DEF ActivateVotingPeriod, CancelProposal, Passes, DepositPeriodEnded,
           FailsOnExecution, DoesNotPass
  <2> QED
    BY <1>3, <2>1 DEF Inv, Types, Live
<1>5. \A q \in Proposals \ {p} : refunded'[q] = refunded[q]
  <2>1. HookReturns(p) \/ UNCHANGED refunded
    BY StepOf
  <2> QED
    BY <2>1 DEF HookReturns, Inv, Types
<1>6. refunded[p] \in Nat /\ refunded'[p] \in Nat /\ refunded'[p] >= refunded[p]
  <2>1. HookReturns(p) \/ UNCHANGED refunded
    BY StepOf
  <2> QED
    BY <1>2, <2>1 DEF HookReturns, Inv, Types
<1>7. Unpaid' \in SUBSET Unpaid
  BY <1>3, <1>4, <1>5, <1>6 DEF Unpaid, Live
<1>8. \A q \in Proposals : status[q] = "passed" => refunded[q] = 0
  BY <1>3, <1>4, <1>5 DEF Live
<1>9. \E amt \in Nat :
        /\ module' = module - amt
        /\ amt = 0 \/ (p \in Unpaid /\ p \notin Unpaid' /\ amt <= Taken[p])
  <2>1. CASE UNCHANGED module
    <3>1. module' = module - 0
      BY <2>1 DEF Money
    <3> QED
      BY <3>1, Zenon
  <2>2. ASSUME NEW amt \in 0..Taken[p], p \in DOMAIN ongoing, Refund(p, amt)
        PROVE  <1>9
    <3>1. p \in Unpaid
      BY <1>3, <2>2 DEF Inv, EntryUnpaid, Unpaid
    <3>2. refunded'[p] = amt
      BY <1>2, <2>2 DEF Refund, Inv, Types, EntryUnpaid
    <3>3. amt = 0 \/ p \notin Unpaid'
      BY <3>2 DEF Unpaid
    <3> QED
      BY <1>2, <2>2, <3>1, <3>3 DEF Refund
  <2>3. CASE DepositPeriodEnded(p) \/ FailsOnExecution(p) \/ DoesNotPass(p)
    <3>1. Taken[p] \in 0..Taken[p]
      BY <1>2
    <3>2. p \in DOMAIN ongoing => ongoing[p] \in 0..Taken[p]
      BY <1>2, SMTT(30) DEF Inv, EntryUnpaid
    <3>3. \/ p \in DOMAIN ongoing /\ Refund(p, ongoing[p])
          \/ p \in DOMAIN ongoing /\ Refund(p, Taken[p])
          \/ UNCHANGED module
      BY <1>2, <2>3 DEF DepositPeriodEnded, FailsOnExecution, DoesNotPass, bank,
                  AfterProposalFailedMinDeposit, AfterProposalVotingPeriodEnded
    <3> QED
      BY <2>1, <2>2, <3>1, <3>2, <3>3, Zenon
  <2>4. CASE Passes(p)
    <3>1. status'[p] = "passed" /\ refunded' = refunded /\ module' = module - Taken[p]
      BY <1>2, <2>4, SMTT(30) DEF Passes, Inv, Types
    <3>2. p \in Unpaid /\ p \notin Unpaid'
      BY <1>3, <3>1, SMTT(30) DEF Unpaid, Live
    <3> QED
      BY <1>2, <3>1, <3>2, SMTT(30)
  <2>5. CASE ActivateVotingPeriod(p) \/ CancelProposal(p)
    BY <2>1, <2>5 DEF ActivateVotingPeriod, CancelProposal, bank
  <2> QED
    BY <2>3, <2>4, <2>5
<1> QED
  BY <1>1, <1>7, <1>8, <1>9, LeaveCovered, Zenon

\* Every step keeps the account covered.
LEMMA CoveredStep == Inv /\ Inv' /\ Money /\ Covered /\ [Next]_vars => Covered'
<1> SUFFICES ASSUME Inv, Inv', Money, Covered, [Next]_vars PROVE Covered'
  OBVIOUS
<1>1. CASE UNCHANGED vars
  BY <1>1 DEF vars, Covered, Taken, Unpaid, Live
<1>2. CASE Next
  BY <1>2, SubmitCovered, PeriodCovered, Zenon DEF Next
<1> QED
  BY <1>1, <1>2

\* While nothing was returned for a proposal that did not fail, the module
\* account covers all MsgBurns of every proposal that can still pass, for every
\* number of MsgBurns and with expedited votes and cancellations.
THEOREM LiveBurnsCovered == Spec => []EscrowCovered
<1>1. Init => Money /\ Covered
  <2> SUFFICES ASSUME Init PROVE Money /\ Covered
    OBVIOUS
  <2>1. Money
    BY BurnAssumption, Zenon DEF Init, Money
  <2>2. Unpaid = {}
    BY DEF Init, Unpaid, Live
  <2>3. SumFunctionOnSet(Taken, {}) = 0 /\ module = 0
    BY SumEmpty DEF Init
  <2> QED
    BY <2>1, <2>2, <2>3 DEF Covered
<1>2. Inv /\ Money /\ Covered => EscrowCovered
  <2> SUFFICES ASSUME Inv, Money, Covered, RefundOnlyAfterFailure
               PROVE  module >= SumFunction([p \in {q \in Proposals : Live(q)} |->
                                                Total(proposal[p].msgs)])
    BY DEF EscrowCovered
  <2>1. \A p \in Proposals : status[p] = "passed" \/ Live(p) => refunded[p] = 0
    BY DEF RefundOnlyAfterFailure, Live, Inv, Types
  <2> DEFINE L == {q \in Proposals : Live(q)}
             g == [p \in L |-> Total(proposal[p].msgs)]
  <2>2. L = Unpaid
    BY <2>1 DEF Unpaid
  <2>3. SumFunction(g) = SumFunctionOnSet(g, L)
    BY DEF SumFunction
  <2>4. \A p \in L : g[p] = Taken[p]
    BY DEF Taken
  <2> HIDE DEF g, L
  <2>5. SumFunctionOnSet(g, L) = SumFunctionOnSet(Taken, L)
    BY <2>2, <2>4, TakenTypes, SumSame
  <2>6. SumFunctionOnSet(Taken, Unpaid) <= module
    BY <2>1 DEF Covered
  <2> QED
    BY <2>2, <2>3, <2>5, <2>6, TakenTypes, Zenon DEF Money, L, g
<1> QED
  BY <1>1, <1>2, InitInv, NextInv, MoneyStep, CoveredStep, PTL DEF Spec

-----------------------------------------------------------------------------
(* One MsgBurn in a proposal, no expedited votes, no cancellations: the    *)
(* entries are the escrow.                                                 *)

OneBurnEach ==
  ~MayExpedite /\ ~MayCancel /\ \A msgs \in MsgLists : Len(msgs) <= 1

Held(p) == IF p \in DOMAIN ongoing THEN ongoing[p] ELSE 0

\* The strengthening of EscrowBacked: an entry is all that was taken for its
\* proposal, and a live proposal without an entry has no MsgBurn.
Backed ==
  /\ \A p \in Proposals : Live(p) => Held(p) = Total(proposal[p].msgs)
  /\ EscrowBacked

\* A list of at most one MsgBurn is its own sum.
LEMMA TotalOfOne ==
  ASSUME NEW msgs \in MsgLists, Len(msgs) <= 1
  PROVE  Total(msgs) = IF msgs = <<>> THEN 0 ELSE msgs[Len(msgs)]
<1>1. msgs \in Seq(Nat)
  BY BurnAssumption, Zenon
<1>2. CASE msgs = <<>>
  <2>1. DOMAIN msgs = {}
    BY <1>2
  <2> QED
    BY <1>2, <2>1, SumEmpty DEF Total, SumFunction
<1>3. CASE msgs # <<>>
  <2>1. Len(msgs) = 1 /\ DOMAIN msgs = 1..Len(msgs)
    <3>1. Len(msgs) \in Nat /\ DOMAIN msgs = 1..Len(msgs)
      BY <1>1
    <3>2. Len(msgs) # 0
      BY <1>1, <1>3
    <3> QED
      BY <3>1, <3>2
  <2>2. 1..1 = {1}
    OBVIOUS
  <2>3. DOMAIN msgs = {1} /\ msgs[1] \in Nat
    BY <1>1, <2>1, <2>2
  <2>4. SumFunctionOnSet(msgs, {1}) = msgs[1]
    BY <2>3, SumOne
  <2> QED
    BY <1>3, <2>1, <2>3, <2>4 DEF Total, SumFunction
<1> QED
  BY <1>2, <1>3

LEMMA EntriesTypes ==
  ASSUME Inv
  PROVE  /\ IsFiniteSet(DOMAIN ongoing) /\ DOMAIN ongoing \subseteq Proposals
         /\ \A p \in DOMAIN ongoing : ongoing[p] \in Nat
         /\ \A p \in Proposals : Held(p) \in Nat
<1>1. DOMAIN ongoing \subseteq Proposals
  BY DEF Inv, Types
<1>2. IsFiniteSet(DOMAIN ongoing)
  BY <1>1, TakenTypes, FS_Subset
<1>3. \A p \in DOMAIN ongoing : ongoing[p] \in Nat
  BY <1>1, TotalOfProposal DEF Inv, EntryUnpaid
<1>4. \A p \in Proposals : Held(p) \in Nat
  BY <1>3 DEF Held
<1> QED
  BY <1>1, <1>2, <1>3, <1>4

\* The account holds every entry: no hook and no MsgBurn lacks the coins.
LEMMA EntryHeld ==
  ASSUME Inv, Backed, NEW p \in Proposals
  PROVE  Held(p) <= module
<1>1. module = SumFunctionOnSet(ongoing, DOMAIN ongoing)
  BY DEF Backed, EscrowBacked, SumFunction
<1>2. CASE p \in DOMAIN ongoing
  BY <1>1, <1>2, EntriesTypes, SumTerm DEF Held
<1>3. CASE p \notin DOMAIN ongoing
  BY <1>1, <1>3, EntriesTypes, SumNat, SMTT(30) DEF Held
<1> QED
  BY <1>2, <1>3

\* What settles the escrow of p: its entry goes, and what it held is burned if
\* the proposal passed and returned to the proposer if not.
Settles(p) ==
  /\ Live(p) /\ proposal' = proposal
  /\ DOMAIN ongoing' = DOMAIN ongoing \ {p}
  /\ \A q \in DOMAIN ongoing \ {p} : ongoing'[q] = ongoing[q]
  /\ module' = module - Held(p)
  /\ \/ /\ status' = [status EXCEPT ![p] = "passed"]
        /\ supply' = supply - Held(p) /\ UNCHANGED balance
     \/ /\ \E s \in {"failed", "rejected", "deleted"} : status' = [status EXCEPT ![p] = s]
        /\ balance' = [balance EXCEPT ![proposal[p].proposer] = @ + Held(p)]
        /\ UNCHANGED supply

\* The hooks after a period, with the coins there and the entry complete.
LEMMA HooksSettle ==
  ASSUME Inv, Money, Backed, NEW p \in Proposals, Live(p),
         AfterProposalFailedMinDeposit(p) \/ AfterProposalVotingPeriodEnded(p)
  PROVE  /\ DOMAIN ongoing' = DOMAIN ongoing \ {p}
         /\ \A q \in DOMAIN ongoing \ {p} : ongoing'[q] = ongoing[q]
         /\ module' = module - Held(p)
         /\ balance' = [balance EXCEPT ![proposal[p].proposer] = @ + Held(p)]
         /\ supply' = supply
<1>1. Held(p) = Total(proposal[p].msgs) /\ Held(p) \in Nat /\ Held(p) <= module
  BY EntriesTypes, EntryHeld DEF Backed
<1>2. module \in Nat /\ balance \in [Accounts -> Nat]
  BY DEF Money
<1>3. CASE p \in DOMAIN ongoing
  <2>1. ongoing[p] = Held(p)
    BY <1>3 DEF Held
  <2>2. Refund(p, Held(p))
    BY <1>1, <1>2, <1>3, <2>1 DEF AfterProposalFailedMinDeposit, AfterProposalVotingPeriodEnded
  <2> QED
    BY <2>2 DEF Refund, Removed
<1>4. CASE p \notin DOMAIN ongoing
  <2>1. Held(p) = 0
    BY <1>4 DEF Held
  <2>2. UNCHANGED <<ongoing, balance, module, supply>>
    BY <1>4 DEF AfterProposalFailedMinDeposit, AfterProposalVotingPeriodEnded, bank
  <2>3. DOMAIN ongoing \ {p} = DOMAIN ongoing
    BY <1>4, Zenon
  <2>4. balance = [balance EXCEPT ![proposal[p].proposer] = @ + 0]
    <3> DEFINE a == proposal[p].proposer
    <3> HIDE DEF a
    <3>1. a \in Accounts => balance[a] + 0 = balance[a]
      BY <1>2
    <3>2. balance = [balance EXCEPT ![a] = @ + 0]
      BY <1>2, <3>1
    <3> QED
      BY <3>2 DEF a
  <2> QED
    BY <1>2, <2>1, <2>2, <2>3, <2>4
<1> QED
  BY <1>3, <1>4

\* A step of a proposal is the start of its vote, or settles it.
LEMMA StepSettles ==
  ASSUME OneBurnEach, Inv, Money, LiveUnpaid, Backed, NEW p \in Proposals,
         \/ DepositPeriodEnded(p) \/ Passes(p)
         \/ FailsOnExecution(p) \/ DoesNotPass(p) \/ CancelProposal(p)
  PROVE  Settles(p)
<1>1. CASE DepositPeriodEnded(p) \/ FailsOnExecution(p) \/ DoesNotPass(p)
  <2>1. /\ Live(p) /\ proposal' = proposal
        /\ AfterProposalFailedMinDeposit(p) \/ AfterProposalVotingPeriodEnded(p)
        /\ \E s \in {"failed", "rejected", "deleted"} : status' = [status EXCEPT ![p] = s]
    BY <1>1, SMTT(30) DEF DepositPeriodEnded, FailsOnExecution, DoesNotPass, LiveUnpaid, Live
  <2> QED
    BY <2>1, HooksSettle, Zenon DEF Settles
<1>2. CASE Passes(p)
  <2>1. Live(p) /\ Held(p) = Total(proposal[p].msgs)
    BY <1>2 DEF Passes, Live, Backed
  <2>2. /\ DOMAIN ongoing' = DOMAIN ongoing \ {p}
        /\ \A q \in DOMAIN ongoing \ {p} : ongoing'[q] = ongoing[q]
    BY <1>2, SMTT(30) DEF Passes, Removed
  <2>3. /\ module' = module - Held(p) /\ supply' = supply - Held(p)
        /\ status' = [status EXCEPT ![p] = "passed"]
        /\ proposal' = proposal /\ balance' = balance
    BY <1>2, <2>1 DEF Passes
  <2> QED
    BY <2>1, <2>2, <2>3 DEF Settles
<1>3. ~CancelProposal(p)
  BY SMTT(30) DEF CancelProposal, OneBurnEach
<1> QED
  BY <1>1, <1>2, <1>3

\* A submission stores what it takes.
LEMMA SubmitBacked ==
  ASSUME OneBurnEach, Inv, Inv', Backed, NEW p \in Proposals, NEW a \in Accounts,
         NEW msgs \in MsgLists, NEW expedited \in BOOLEAN,
         SubmitProposal(p, a, msgs, expedited)
  PROVE  /\ Backed'
         /\ p \notin DOMAIN ongoing /\ Held(p)' = Total(msgs)
         /\ \A q \in Proposals \ {p} : Held(q)' = Held(q)
<1>1. /\ status[p] = "none"
      /\ status' = [status EXCEPT ![p] = "deposit"]
      /\ proposal' = [proposal EXCEPT ![p] = [proposer |-> a, msgs |-> msgs,
                                              expedited |-> expedited]]
      /\ ongoing' = IF msgs = <<>> THEN ongoing ELSE Stored(p, msgs[Len(msgs)])
      /\ module' = module + Total(msgs)
  BY DEF SubmitProposal, AfterProposalSubmission
<1>2. p \notin DOMAIN ongoing
  BY <1>1 DEF Inv, EntryUnpaid
<1>3. /\ proposal'[p].msgs = msgs /\ status'[p] = "deposit"
      /\ \A q \in Proposals \ {p} : proposal'[q] = proposal[q] /\ status'[q] = status[q]
  BY <1>1 DEF Inv, Types
<1>4. Total(msgs) \in Nat /\ Total(msgs) = IF msgs = <<>> THEN 0 ELSE msgs[Len(msgs)]
  BY TotalOfOne DEF OneBurnEach
<1>5. Held(p)' = Total(msgs)
  BY <1>1, <1>2, <1>4 DEF Held, Stored
<1>6. \A q \in Proposals \ {p} : Held(q)' = Held(q)
  BY <1>1 DEF Held, Stored
<1>7. \A q \in Proposals : Live(q)' => Held(q)' = Total(proposal'[q].msgs)
  BY <1>3, <1>5, <1>6 DEF Backed, Live
<1>8. \A q \in DOMAIN ongoing' : Live(q)'
  BY <1>1, <1>3, EntriesTypes DEF Stored, Backed, EscrowBacked, Live
<1>9. module' = SumFunction(ongoing')
  <2>1. module = SumFunctionOnSet(ongoing, DOMAIN ongoing)
    BY DEF Backed, EscrowBacked, SumFunction
  <2>2. SumFunctionOnSet(ongoing, DOMAIN ongoing) \in Int
    BY EntriesTypes, SumInt
  <2>3. CASE msgs = <<>>
    BY <1>1, <1>4, <2>1, <2>2, <2>3 DEF SumFunction
  <2>4. CASE msgs # <<>>
    <3> DEFINE D == DOMAIN ongoing
               f == ongoing'
    <3>1. /\ DOMAIN f = D \cup {p} /\ f[p] = Total(msgs)
          /\ \A q \in D : f[q] = ongoing[q]
      BY <1>1, <1>2, <1>4, <2>4 DEF Stored
    <3> HIDE DEF f
    <3>2. SumFunctionOnSet(f, D) = SumFunctionOnSet(ongoing, D)
      BY <3>1, EntriesTypes, SumSame
    <3>3. SumFunctionOnSet(f, D \cup {p}) = f[p] + SumFunctionOnSet(f, D)
      BY <1>2, <1>4, <3>1, EntriesTypes, SumInsert, SMTT(30)
    <3>4. module' = Total(msgs) + SumFunctionOnSet(ongoing, D)
      BY <1>1, <1>4, <2>1, <2>2
    <3>5. module' = SumFunctionOnSet(f, DOMAIN f)
      BY <3>1, <3>2, <3>3, <3>4, SMTT(30)
    <3> QED
      BY <3>5 DEF SumFunction, f
  <2> QED
    BY <2>3, <2>4
<1> QED
  BY <1>2, <1>5, <1>6, <1>7, <1>8, <1>9, SMTT(30) DEF Backed, EscrowBacked

\* What settles one escrow leaves the others backed.
LEMMA SettlesBacked ==
  ASSUME Inv, Money, Backed, NEW p \in Proposals, Settles(p)
  PROVE  /\ Backed'
         /\ Held(p)' = 0
         /\ \A q \in Proposals \ {p} : Held(q)' = Held(q)
<1>1. /\ proposal' = proposal /\ ~Live(p)'
      /\ \A q \in Proposals \ {p} : status'[q] = status[q]
  BY DEF Settles, Live, Inv, Types
<1>2. /\ DOMAIN ongoing' = DOMAIN ongoing \ {p}
      /\ \A q \in DOMAIN ongoing \ {p} : ongoing'[q] = ongoing[q]
      /\ module' = module - Held(p)
  BY DEF Settles
<1>3. Held(p)' = 0 /\ \A q \in Proposals \ {p} : Held(q)' = Held(q)
  BY <1>2 DEF Held
<1>4. \A q \in Proposals : Live(q)' => Held(q)' = Total(proposal'[q].msgs)
  BY <1>1, <1>3 DEF Backed, Live
<1>5. \A q \in DOMAIN ongoing' : Live(q)'
  BY <1>1, <1>2, EntriesTypes DEF Backed, EscrowBacked, Live
<1>6. module' = SumFunction(ongoing')
  <2> DEFINE D == DOMAIN ongoing
             E == D \ {p}
             f == ongoing'
  <2>1. module = SumFunctionOnSet(ongoing, D)
    BY DEF Backed, EscrowBacked, SumFunction
  <2>2. DOMAIN f = E /\ \A q \in E : f[q] = ongoing[q]
    BY <1>2
  <2>3. IsFiniteSet(E) /\ \A q \in E : ongoing[q] \in Nat
    BY EntriesTypes, FS_Subset
  <2> HIDE DEF f, E
  <2>4. SumFunctionOnSet(f, E) = SumFunctionOnSet(ongoing, E)
    BY <2>2, <2>3, SumSame
  <2>5. SumFunctionOnSet(ongoing, E) \in Nat
    BY <2>3, SumNat
  <2>6. module = Held(p) + SumFunctionOnSet(ongoing, E)
    <3>1. CASE p \in D
      BY <2>1, <3>1, EntriesTypes, SumRemove DEF Held, E
    <3>2. CASE p \notin D
      <4>1. E = D /\ Held(p) = 0
        BY <3>2, Zenon DEF E, Held
      <4> QED
        BY <2>1, <2>5, <4>1
    <3> QED
      BY <3>1, <3>2
  <2>7. Held(p) \in Nat
    BY EntriesTypes
  <2>8. module' = SumFunctionOnSet(f, E)
    BY <1>2, <2>4, <2>5, <2>6, <2>7
  <2> QED
    BY <2>2, <2>8 DEF SumFunction, f
<1> QED
  BY <1>3, <1>4, <1>5, <1>6, SMTT(30) DEF Backed, EscrowBacked

\* Every step keeps the entries backed.
LEMMA BackedStep ==
  ASSUME OneBurnEach
  PROVE  Inv /\ Inv' /\ Money /\ LiveUnpaid /\ Backed /\ [Next]_vars => Backed'
<1> SUFFICES ASSUME Inv, Inv', Money, LiveUnpaid, Backed, [Next]_vars PROVE Backed'
  OBVIOUS
<1>1. ASSUME NEW p \in Proposals, NEW a \in Accounts, NEW msgs \in MsgLists,
             NEW expedited \in BOOLEAN, SubmitProposal(p, a, msgs, expedited)
      PROVE  Backed'
  BY <1>1, SubmitBacked
<1>2. ASSUME NEW p \in Proposals,
             \/ DepositPeriodEnded(p) \/ Passes(p)
             \/ FailsOnExecution(p) \/ DoesNotPass(p) \/ CancelProposal(p)
      PROVE  Backed'
  BY <1>2, StepSettles, SettlesBacked
<1>3. ASSUME NEW p \in Proposals, ActivateVotingPeriod(p)
      PROVE  Backed'
  <2>1. /\ UNCHANGED <<proposal, ongoing, module>>
        /\ \A q \in Proposals : Live(q)' <=> Live(q)
    BY <1>3, SMTT(30) DEF ActivateVotingPeriod, bank, Live, Inv, Types
  <2> QED
    BY <2>1, EntriesTypes DEF Backed, EscrowBacked, Held
<1>4. CASE UNCHANGED vars
  BY <1>4 DEF vars, Backed, EscrowBacked, Held, Live
<1> QED
  BY <1>1, <1>2, <1>3, <1>4 DEF Next

\* All that holds initially.
LEMMA InitBacked == Init => Money /\ LiveUnpaid /\ Backed
<1> SUFFICES ASSUME Init PROVE Money /\ LiveUnpaid /\ Backed
  OBVIOUS
<1>1. Money
  BY BurnAssumption, Zenon DEF Init, Money
<1>2. LiveUnpaid
  BY DEF Init, LiveUnpaid, RefundOnlyAfterFailure
<1>3. DOMAIN ongoing = {} /\ module = 0 /\ \A p \in Proposals : ~Live(p)
  BY DEF Init, Live
<1> QED
  BY <1>1, <1>2, <1>3, SumEmpty DEF Backed, EscrowBacked, SumFunction

\* With one MsgBurn in a proposal, and without expedited votes and
\* cancellations, every entry belongs to a live proposal and the module account
\* holds exactly what the entries say, for any number of proposals.
THEOREM EntriesBacked ==
  ASSUME OneBurnEach
  PROVE  Spec => []EscrowBacked
<1>1. Backed => EscrowBacked
  BY DEF Backed
<1>2. ~MayExpedite
  BY DEF OneBurnEach
<1>3. Inv /\ LiveUnpaid /\ [Next]_vars => LiveUnpaid'
  BY <1>2, LiveUnpaidInductive
<1>4. Inv /\ Inv' /\ Money /\ LiveUnpaid /\ Backed /\ [Next]_vars => Backed'
  BY BackedStep
<1> QED
  BY <1>1, <1>3, <1>4, InitInv, InitBacked, NextInv, MoneyStep, PTL DEF Spec

-----------------------------------------------------------------------------
(* The refinement of BurnEscrow: the state functions Escrow substitutes,   *)
(* what a step of Burn does to them, and the theorem.                      *)

Phase(p) == CASE status[p] = "none" -> "new"
              [] Live(p) -> "held"
              [] status[p] = "passed" -> "burned"
              [] OTHER -> "returned"
phases == [p \in Proposals |-> Phase(p)]
holdings == [p \in Proposals |-> Held(p)]
proposers == [p \in Proposals |-> proposal[p].proposer]

\* A submission takes the amount from the proposer and holds it.
LEMMA SubmitRefines ==
  ASSUME OneBurnEach, Inv, Inv', Money, Backed, NEW p \in Proposals,
         NEW a \in Accounts, NEW msgs \in MsgLists, NEW expedited \in BOOLEAN,
         SubmitProposal(p, a, msgs, expedited)
  PROVE  Escrow!Next
<1>1. /\ status[p] = "none"
      /\ status' = [status EXCEPT ![p] = "deposit"]
      /\ proposal' = [proposal EXCEPT ![p] = [proposer |-> a, msgs |-> msgs,
                                              expedited |-> expedited]]
      /\ Total(msgs) <= balance[a]
      /\ balance' = [balance EXCEPT ![a] = @ - Total(msgs)]
      /\ supply' = supply
  BY DEF SubmitProposal, AfterProposalSubmission
<1>2. Held(p)' = Total(msgs) /\ \A q \in Proposals \ {p} : Held(q)' = Held(q)
  BY SubmitBacked
<1>3. Total(msgs) \in 0..balance[a]
  BY <1>1 DEF Money
<1>4. phases[p] = "new"
  BY <1>1 DEF phases, Phase, Live
<1>5. phases' = [phases EXCEPT ![p] = "held"]
  <2>1. Phase(p)' = "held"
    BY <1>1 DEF Phase, Live, Inv, Types
  <2>2. \A q \in Proposals \ {p} : Phase(q)' = Phase(q)
    BY <1>1 DEF Phase, Live, Inv, Types
  <2> QED
    BY <2>1, <2>2, Zenon DEF phases
<1>6. holdings' = [holdings EXCEPT ![p] = Total(msgs)]
  BY <1>2, Zenon DEF holdings
<1>7. proposers' = [proposers EXCEPT ![p] = a]
  BY <1>1, Zenon DEF proposers, Inv, Types
<1>8. Escrow!Submit(p, a, Total(msgs))
  BY <1>1, <1>4, <1>5, <1>6, <1>7 DEF Escrow!Submit, phases, Phase, holdings, Held, proposers
<1> QED
  BY <1>3, <1>8 DEF Escrow!Next

\* What settles a proposal burns or returns what it held.
LEMMA SettlesRefines ==
  ASSUME Inv, Money, Backed, NEW p \in Proposals, Settles(p)
  PROVE  Escrow!Next
<1>1. Held(p)' = 0 /\ \A q \in Proposals \ {p} : Held(q)' = Held(q)
  BY SettlesBacked
<1>2. phases[p] = "held"
  BY DEF Settles, phases, Phase, Live
<1>3. holdings' = [holdings EXCEPT ![p] = 0] /\ holdings[p] = Held(p)
  BY <1>1, Zenon DEF holdings
<1>4. proposers' = proposers /\ proposers[p] = proposal[p].proposer
  BY DEF Settles, proposers
<1>5. CASE /\ status' = [status EXCEPT ![p] = "passed"]
           /\ supply' = supply - Held(p) /\ UNCHANGED balance
  <2>1. phases' = [phases EXCEPT ![p] = "burned"]
    BY <1>5, Zenon DEF phases, Phase, Live, Inv, Types
  <2>2. Escrow!Burn(p)
    BY <1>2, <1>3, <1>4, <1>5, <2>1 DEF Escrow!Burn, phases, Phase, holdings, Held, proposers
  <2> QED
    BY <2>2 DEF Escrow!Next
<1>6. CASE /\ \E s \in {"failed", "rejected", "deleted"} : status' = [status EXCEPT ![p] = s]
           /\ balance' = [balance EXCEPT ![proposal[p].proposer] = @ + Held(p)]
           /\ UNCHANGED supply
  <2>1. phases' = [phases EXCEPT ![p] = "returned"]
    BY <1>6, Zenon DEF phases, Phase, Live, Inv, Types
  <2>2. Escrow!Return(p)
    BY <1>2, <1>3, <1>4, <1>6, <2>1 DEF Escrow!Return, phases, Phase, holdings, Held, proposers
  <2> QED
    BY <2>2 DEF Escrow!Next
<1> QED
  BY <1>5, <1>6 DEF Settles

\* The start of a vote changes nothing the abstract escrow sees.
LEMMA ActivateRefines ==
  ASSUME Inv, NEW p \in Proposals, ActivateVotingPeriod(p)
  PROVE  UNCHANGED Escrow!vars
<1>1. /\ status[p] = "deposit" /\ status' = [status EXCEPT ![p] = "voting"]
      /\ UNCHANGED <<proposal, ongoing, balance, supply>>
  BY DEF ActivateVotingPeriod, bank
<1>2. phases' = phases
  BY <1>1 DEF phases, Phase, Live, Inv, Types
<1>3. holdings' = holdings /\ proposers' = proposers
  BY <1>1 DEF holdings, Held, proposers
<1> QED
  BY <1>1, <1>2, <1>3 DEF Escrow!vars, phases, Phase, holdings, Held, proposers

LEMMA StepRefines ==
  ASSUME OneBurnEach
  PROVE  Inv /\ Inv' /\ Money /\ LiveUnpaid /\ Backed /\ [Next]_vars
           => [Escrow!Next]_(Escrow!vars)
<1> SUFFICES ASSUME Inv, Inv', Money, LiveUnpaid, Backed, [Next]_vars
             PROVE  Escrow!Next \/ UNCHANGED Escrow!vars
  OBVIOUS
<1>1. ASSUME NEW p \in Proposals, NEW a \in Accounts, NEW msgs \in MsgLists,
             NEW expedited \in BOOLEAN, SubmitProposal(p, a, msgs, expedited)
      PROVE  Escrow!Next
  BY <1>1, SubmitRefines
<1>2. ASSUME NEW p \in Proposals,
             \/ DepositPeriodEnded(p) \/ Passes(p)
             \/ FailsOnExecution(p) \/ DoesNotPass(p) \/ CancelProposal(p)
      PROVE  Escrow!Next
  BY <1>2, StepSettles, SettlesRefines
<1>3. ASSUME NEW p \in Proposals, ActivateVotingPeriod(p)
      PROVE  UNCHANGED Escrow!vars
  BY <1>3, ActivateRefines
<1>4. CASE UNCHANGED vars
  BY <1>4 DEF vars, Escrow!vars, Live
<1> QED
  BY <1>1, <1>2, <1>3, <1>4, Zenon DEF Next

LEMMA InitRefines == Init => Escrow!Init
<1> SUFFICES ASSUME Init PROVE Escrow!Init
  OBVIOUS
<1>1. phases = [p \in Proposals |-> "new"]
  BY DEF Init, phases, Phase, Live
<1>2. holdings = [p \in Proposals |-> 0]
  BY DEF Init, holdings, Held
<1> QED
  BY <1>1, <1>2 DEF Escrow!Init, phases, Phase, holdings, Held

\* With one MsgBurn in a proposal, and without expedited votes and
\* cancellations, the hooks and MsgBurn on one shared module account implement
\* one escrow per proposal, for any number of proposals and accounts.
THEOREM EscrowRefinement ==
  ASSUME OneBurnEach
  PROVE  Spec => ImplementsEscrow
<1>1. ~MayExpedite
  BY DEF OneBurnEach
<1>2. Inv /\ LiveUnpaid /\ [Next]_vars => LiveUnpaid'
  BY <1>1, LiveUnpaidInductive
<1>3. Inv /\ Inv' /\ Money /\ LiveUnpaid /\ Backed /\ [Next]_vars => Backed'
  BY BackedStep
<1>4. Inv /\ Inv' /\ Money /\ LiveUnpaid /\ Backed /\ [Next]_vars
        => [Escrow!Next]_(Escrow!vars)
  BY StepRefines
<1> QED
  BY <1>2, <1>3, <1>4, InitInv, InitBacked, InitRefines, NextInv, MoneyStep, PTL
     DEF Spec, ImplementsEscrow, Escrow!Spec
=============================================================================
