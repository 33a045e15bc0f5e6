-------------------------------- MODULE Burn --------------------------------
(***************************************************************************)
(* x/burn: proposals that carry MsgBurn. The hooks the module registers    *)
(* with x/gov take the amounts into the burn module account when a         *)
(* proposal is submitted and give them back when it fails; MsgBurn,        *)
(* executed when the proposal passes, destroys them.                       *)
(*                                                                         *)
(* The life of a proposal is x/gov's: it calls AfterProposalSubmission     *)
(* inside the transaction, deletes a proposal whose deposit period ends    *)
(* before it calls AfterProposalFailedMinDeposit, executes the messages of *)
(* a passed proposal all or none before it calls                           *)
(* AfterProposalVotingPeriodEnded, calls that hook too when an expedited   *)
(* vote fails and becomes a regular one, and calls no hook when the        *)
(* proposer cancels. The hooks of the EndBlocker run in a cache context    *)
(* that is dropped when they return an error.                              *)
(*                                                                         *)
(* Amounts are of one denomination; 0 stands for an empty list of coins.   *)
(***************************************************************************)
EXTENDS Integers, Sequences, FiniteSets, Functions

CONSTANTS
  Proposals,
  Accounts,       \* proposers
  MsgLists,       \* amounts of the MsgBurns of a proposal, in order
  MayExpedite,    \* may proposals be expedited
  MayCancel,      \* may proposers cancel
  InitialBalance

ASSUME BurnAssumption ==
  /\ MayExpedite \in BOOLEAN /\ MayCancel \in BOOLEAN
  /\ InitialBalance \in Nat
  /\ IsFiniteSet(Proposals)
  /\ MsgLists \subseteq Seq(Nat)

VARIABLES
  status,     \* of the proposal; "none" before it, "deleted" after it is gone
  proposal,   \* proposer, amounts of the MsgBurns, expedited
  ongoing,    \* OngoingBurnProposals: amount by proposal id
  balance,    \* balances of the accounts
  module,     \* balance of the burn module account
  supply,
  refunded    \* history: what the hooks returned for each proposal

bank == <<balance, module, supply>>
vars == <<status, proposal, ongoing, balance, module, supply, refunded>>

Total(msgs) == SumFunction(msgs)
Live(p) == status[p] \in {"deposit", "voting"}

Init ==
  /\ status = [p \in Proposals |-> "none"]
  /\ proposal = [p \in Proposals |-> [proposer |-> "none", msgs |-> <<>>,
                                      expedited |-> FALSE]]
  /\ ongoing = <<>>
  /\ balance = [a \in Accounts |-> InitialBalance]
  /\ module = 0
  /\ supply = InitialBalance * Cardinality(Accounts)
  /\ refunded = [p \in Proposals |-> 0]

-----------------------------------------------------------------------------
(* The hooks. ongoing is a function whose domain is the stored keys.       *)

Stored(p, amt) == [q \in DOMAIN ongoing \cup {p} |-> IF q = p THEN amt ELSE ongoing[q]]
Removed(p) == [q \in DOMAIN ongoing \ {p} |-> ongoing[q]]

\* Mutant: the entry is stored, but no coins are sent.
SubmissionNoEscrow(p, a, msgs) ==
  /\ ongoing' = IF msgs = <<>> THEN ongoing ELSE Stored(p, msgs[Len(msgs)])
  /\ UNCHANGED bank

\* Mutant: the coins are sent once, after the loop, for the last MsgBurn.
SubmissionSendsLast(p, a, msgs) ==
  LET amt == IF msgs = <<>> THEN 0 ELSE msgs[Len(msgs)]
  IN /\ amt <= balance[a]
     /\ ongoing' = IF msgs = <<>> THEN ongoing ELSE Stored(p, amt)
     /\ balance' = [balance EXCEPT ![a] = @ - amt]
     /\ module' = module + amt
     /\ UNCHANGED supply

\* Every MsgBurn overwrites the entry, and its amount goes to the module
\* account; when the proposer cannot pay, the transaction fails.
AfterProposalSubmission(p, a, msgs) ==
  /\ Total(msgs) <= balance[a]
  /\ ongoing' = IF msgs = <<>> THEN ongoing ELSE Stored(p, msgs[Len(msgs)])
  /\ balance' = [balance EXCEPT ![a] = @ - Total(msgs)]
  /\ module' = module + Total(msgs)
  /\ UNCHANGED supply

\* SendCoinsFromModuleToAccount to the proposer, and the removal of the entry.
Refund(p, amt) ==
  /\ amt <= module
  /\ balance' = [balance EXCEPT ![proposal[p].proposer] = @ + amt]
  /\ module' = module - amt
  /\ refunded' = [refunded EXCEPT ![p] = @ + amt]
  /\ ongoing' = Removed(p)
  /\ UNCHANGED supply

\* Mutant: the amount is burned instead of returned.
FailedMinDepositBurns(p) ==
  \/ /\ p \in DOMAIN ongoing /\ ongoing[p] <= module
     /\ module' = module - ongoing[p] /\ supply' = supply - ongoing[p]
     /\ ongoing' = Removed(p)
     /\ UNCHANGED <<balance, refunded>>
  \/ /\ p \in DOMAIN ongoing => ongoing[p] > module
     /\ UNCHANGED <<ongoing, bank, refunded>>

\* Returns the amount of the entry. Without an entry, or with an error, there
\* is no change.
AfterProposalFailedMinDeposit(p) ==
  \/ p \in DOMAIN ongoing /\ Refund(p, ongoing[p])
  \/ /\ p \in DOMAIN ongoing => ongoing[p] > module
     /\ UNCHANGED <<ongoing, bank, refunded>>

\* Mutant: the entry is not removed.
VotingPeriodEndedKeepsEntry(p) ==
  LET amt == Total(proposal[p].msgs)
  IN IF p \in DOMAIN ongoing /\ amt <= module
     THEN /\ balance' = [balance EXCEPT ![proposal[p].proposer] = @ + amt]
          /\ module' = module - amt
          /\ refunded' = [refunded EXCEPT ![p] = @ + amt]
          /\ UNCHANGED <<ongoing, supply>>
     ELSE UNCHANGED <<ongoing, bank, refunded>>

\* After a vote that did not pass: returns the amounts of the proposal's
\* messages.
AfterProposalVotingPeriodEnded(p) ==
  \/ p \in DOMAIN ongoing /\ Refund(p, Total(proposal[p].msgs))
  \/ /\ p \in DOMAIN ongoing => Total(proposal[p].msgs) > module
     /\ UNCHANGED <<ongoing, bank, refunded>>

\* MsgBurn for each of the messages: the amounts must be positive, and the
\* module account must hold them.
BurnSucceeds(msgs) ==
  /\ \A i \in DOMAIN msgs : msgs[i] > 0
  /\ Total(msgs) <= module

-----------------------------------------------------------------------------
(* The life of a proposal.                                                 *)

\* MsgSubmitProposal.
SubmitProposal(p, a, msgs, expedited) ==
  /\ status[p] = "none"
  /\ expedited => MayExpedite
  /\ AfterProposalSubmission(p, a, msgs)
  /\ status' = [status EXCEPT ![p] = "deposit"]
  /\ proposal' = [proposal EXCEPT ![p] = [proposer |-> a, msgs |-> msgs,
                                          expedited |-> expedited]]
  /\ UNCHANGED refunded

\* A deposit reaches the minimum.
ActivateVotingPeriod(p) ==
  /\ status[p] = "deposit"
  /\ status' = [status EXCEPT ![p] = "voting"]
  /\ UNCHANGED <<proposal, ongoing, bank, refunded>>

\* Mutant: a proposal that has an entry stays in its deposit period.
DepositPeriodEndedWithoutEntry(p) ==
  /\ status[p] = "deposit" /\ p \notin DOMAIN ongoing
  /\ status' = [status EXCEPT ![p] = "deleted"]
  /\ UNCHANGED <<proposal, ongoing, bank, refunded>>

\* EndBlocker: the deposit period ends without the minimum.
DepositPeriodEnded(p) ==
  /\ status[p] = "deposit"
  /\ AfterProposalFailedMinDeposit(p)
  /\ status' = [status EXCEPT ![p] = "deleted"]
  /\ UNCHANGED proposal

\* EndBlocker: the vote passes and every message of the proposal succeeds. The
\* hook removes the entry.
Passes(p) ==
  /\ status[p] = "voting"
  /\ BurnSucceeds(proposal[p].msgs)
  /\ module' = module - Total(proposal[p].msgs)
  /\ supply' = supply - Total(proposal[p].msgs)
  /\ status' = [status EXCEPT ![p] = "passed"]
  /\ ongoing' = Removed(p)
  /\ UNCHANGED <<proposal, balance, refunded>>

\* EndBlocker: the vote passes, but a message fails (a MsgBurn or any other).
FailsOnExecution(p) ==
  /\ status[p] = "voting"
  /\ AfterProposalVotingPeriodEnded(p)
  /\ status' = [status EXCEPT ![p] = "failed"]
  /\ UNCHANGED proposal

\* EndBlocker: the vote does not pass; an expedited proposal stays in its
\* voting period as a regular one.
DoesNotPass(p) ==
  /\ status[p] = "voting"
  /\ AfterProposalVotingPeriodEnded(p)
  /\ \/ /\ proposal[p].expedited
        /\ proposal' = [proposal EXCEPT ![p] = [proposer |-> @.proposer,
                             msgs |-> @.msgs, expedited |-> FALSE]]
        /\ UNCHANGED status
     \/ /\ ~proposal[p].expedited
        /\ status' = [status EXCEPT ![p] = "rejected"]
        /\ UNCHANGED proposal

\* MsgCancelProposal.
CancelProposal(p) ==
  /\ MayCancel
  /\ Live(p)
  /\ status' = [status EXCEPT ![p] = "deleted"]
  /\ UNCHANGED <<proposal, ongoing, bank, refunded>>

\* What gov's EndBlocker does once the period of the proposal is over.
PeriodEnded(p) ==
  DepositPeriodEnded(p) \/ Passes(p) \/ FailsOnExecution(p) \/ DoesNotPass(p)

Next ==
  \E p \in Proposals :
    \/ \E a \in Accounts, msgs \in MsgLists, expedited \in BOOLEAN :
         SubmitProposal(p, a, msgs, expedited)
    \/ ActivateVotingPeriod(p)
    \/ DepositPeriodEnded(p)
    \/ Passes(p)
    \/ FailsOnExecution(p)
    \/ DoesNotPass(p)
    \/ CancelProposal(p)

\* Periods end by block time and the EndBlocker handles every proposal whose
\* period is over, whatever transactions arrive.
Spec == Init /\ [][Next]_vars /\ \A p \in Proposals : WF_vars(PeriodEnded(p))

-----------------------------------------------------------------------------
\* A proposer never gets back more than was taken at submission, although two
\* hooks and a converted expedited vote may each try to refund.
RefundedAtMostOnce ==
  \A p \in Proposals : refunded[p] <= Total(proposal[p].msgs)

\* GetAllOngoingBurnProposals "retrieves all ongoing burn proposal": an entry
\* belongs to a proposal that is still in its deposit or voting period, and the
\* module account holds what the entries say it holds, no more and no less.
EscrowBacked ==
  /\ \A p \in DOMAIN ongoing : Live(p)
  /\ module = SumFunction(ongoing)

\* "If proposal failed, return burn amount to proposer"
\* (AfterProposalVotingPeriodEnded): nothing is returned for a proposal that
\* can still pass, or that passed.
RefundOnlyAfterFailure ==
  \A p \in Proposals :
    refunded[p] > 0 => status[p] \in {"rejected", "failed", "deleted"}

\* As long as nothing was returned for a proposal that did not fail, the module
\* account covers, for every proposal that can still pass, all of its MsgBurns
\* together, whatever surplus cancelled proposals and the single entry of a
\* proposal with two MsgBurns leave behind.
EscrowCovered ==
  RefundOnlyAfterFailure =>
    module >= SumFunction([p \in {q \in Proposals : Live(q)} |->
                             Total(proposal[p].msgs)])

\* Every escrow is settled in the end.
EscrowSettles ==
  \A p \in Proposals : p \in DOMAIN ongoing ~> p \notin DOMAIN ongoing

\* The shared module account behaves like one escrow per proposal.
Escrow == INSTANCE BurnEscrow WITH
  held <- [p \in Proposals |-> IF p \in DOMAIN ongoing THEN ongoing[p] ELSE 0],
  escrow <- [p \in Proposals |-> CASE status[p] = "none" -> "new"
                                   [] Live(p) -> "held"
                                   [] status[p] = "passed" -> "burned"
                                   [] OTHER -> "returned"],
  proposer <- [p \in Proposals |-> proposal[p].proposer]

\* The hooks and MsgBurn implement BurnEscrow.
ImplementsEscrow == Escrow!Spec
=============================================================================
