-------------------------------- MODULE Ante --------------------------------
(***************************************************************************)
(* The ante handler (ante/) in the life of a transaction: CheckTx on the   *)
(* check state before it enters the mempool, execution in a block on the   *)
(* state of the chain, and the recheck of what is left in the mempool      *)
(* after a block. A block may hold any transaction: its proposer need not  *)
(* have checked it.                                                        *)
(*                                                                         *)
(* The decorators of the SDK, wasmd, IBC and cosmos/evm are kept to what   *)
(* they decide and change here: the fee, the signature and the sequence.   *)
(* The volunteer decorator is in ValidatorSet. The fee is of the EVM's     *)
(* denomination and paid by the signer; the EVM's refund of unused gas is  *)
(* left out. Simulation changes no state. The mempool is CometBFT's: the   *)
(* queue of the EVM mempool for nonces ahead of time is not modelled.      *)
(***************************************************************************)
EXTENDS Integers, Sequences, FiniteSets, Functions

CONSTANTS
  Accounts,
  Txs,           \* transactions somebody may send
  GasOf(_),      \* gas of a signature, negative when it is refused
  BypassMinFeeMsgTypes,
  maxBypassMinFeeMsgGasUsage,
  Prices,        \* values of the parameter MinGasPrice, in parts of Unit
  Unit,          \* the decimal one
  InitialBalance,
  MaxExecuted,   \* bound: transactions executed
  MaxBlock       \* bound: transactions in a block

ASSUME AnteAssumption ==
  /\ \A tx \in Txs : /\ tx.signer \in Accounts
                     /\ tx.sequence \in Nat /\ tx.fee \in Nat /\ tx.gas \in Nat
  /\ maxBypassMinFeeMsgGasUsage \in Nat
  /\ Prices \subseteq Nat /\ Unit \in Nat \ {0}
  /\ InitialBalance \in Nat /\ MaxExecuted \in Nat /\ MaxBlock \in Nat

VARIABLES
  chain,     \* state of the chain: sequences, balances, collected fees, MinGasPrice
  check,     \* the copy CheckTx works on
  pool,      \* the mempool
  recheck,   \* transactions of the mempool that wait for their recheck
  block,     \* transactions of the block that is being executed
  executed   \* history: transactions whose messages were run, in order

vars == <<chain, check, pool, recheck, block, executed>>

Init ==
  /\ \E price \in Prices :
       chain = [sequence |-> [a \in Accounts |-> 0],
                balance |-> [a \in Accounts |-> InitialBalance],
                fees |-> 0, minGasPrice |-> price]
  /\ check = chain
  /\ pool = {} /\ recheck = {} /\ block = {} /\ executed = <<>>

-----------------------------------------------------------------------------
(* The minimum fee.                                                        *)

bypassMinFeeMsgs(msgs) == \A i \in DOMAIN msgs : msgs[i] \in BypassMinFeeMsgTypes

\* ceil(minGasPrice * gas).
RequiredFee(price, gas) == (price * gas + Unit - 1) \div Unit

Bypasses(tx) ==
  bypassMinFeeMsgs(tx.msgs) /\ tx.gas <= Len(tx.msgs) * maxBypassMinFeeMsgGasUsage

\* IsAnyGTE is false when nothing is required: a transaction without gas does
\* not pass.
PaysMinimum(price, tx) ==
  RequiredFee(price, tx.gas) > 0 /\ tx.fee >= RequiredFee(price, tx.gas)

MinGasPrice(st, tx, checkTx) ==
  \/ st.minGasPrice = 0 \/ ~checkTx \/ Bypasses(tx)
  \/ PaysMinimum(st.minGasPrice, tx)

-----------------------------------------------------------------------------
(* The two handlers.                                                       *)

\* DeductFeeDecorator (noOpTxFeeChecker asks for no more than the fee given),
\* SigVerificationDecorator: the payer has the fee, the sequence is the next.
CanPay(st, tx) == tx.fee <= st.balance[tx.signer]
NextInLine(st, tx) == tx.sequence = st.sequence[tx.signer]

\* RejectMessagesDecorator and AuthzLimiterDecorator.
RejectMessages(tx) == \A i \in DOMAIN tx.msgs : tx.msgs[i] \notin {"eth", "exec-eth"}

newCosmosAnteHandler(st, tx, checkTx) ==
  /\ RejectMessages(tx)
  /\ MinGasPrice(st, tx, checkTx)
  /\ CanPay(st, tx)
  /\ GasOf(tx.sig) >= 0 /\ GasOf(tx.sig) <= tx.gas
  /\ NextInLine(st, tx)

\* EVMMonoDecorator: only messages of the EVM, the global minimum fee always.
newEthAnteHandler(st, tx) ==
  /\ \A i \in DOMAIN tx.msgs : tx.msgs[i] = "eth"
  /\ st.minGasPrice = 0 \/ tx.fee >= RequiredFee(st.minGasPrice, tx.gas)
  /\ CanPay(st, tx)
  /\ NextInLine(st, tx)

\* NewAnteHandler: the first extension option picks the handler.
Accepts(st, tx, checkTx) ==
  \/ tx.extension = "ethereum" /\ newEthAnteHandler(st, tx)
  \/ tx.extension \in {"none", "dynamic"} /\ newCosmosAnteHandler(st, tx, checkTx)

Paid(st, tx) ==
  [sequence |-> st.sequence, balance |-> [st.balance EXCEPT ![tx.signer] = @ - tx.fee],
   fees |-> st.fees + tx.fee, minGasPrice |-> st.minGasPrice]

\* Mutant: the sequence is not incremented.
ChargedOnly(st, tx) == Paid(st, tx)

\* The fee is deducted and IncrementSequenceDecorator counts.
Charged(st, tx) == [Paid(st, tx) EXCEPT !.sequence[tx.signer] = @ + 1]

\* Mutant: a decorator after DeductFee fails, and the fee stays deducted.
AnteHandleKeepsFee(st, tx, checkTx) ==
  CASE Accepts(st, tx, checkTx) -> Charged(st, tx)
    [] ~Accepts(st, tx, checkTx) /\ CanPay(st, tx) -> Paid(st, tx)
    [] OTHER -> st

\* What the handler leaves: an error, and a panic that Recover turns into one,
\* drops all its changes.
AnteHandle(st, tx, checkTx) ==
  IF Accepts(st, tx, checkTx) THEN Charged(st, tx) ELSE st

-----------------------------------------------------------------------------
(* The life of a transaction.                                              *)

CheckTx(tx) ==
  /\ recheck = {}
  /\ tx \notin pool
  /\ check' = AnteHandle(check, tx, TRUE)
  /\ pool' = IF Accepts(check, tx, TRUE) THEN pool \cup {tx} ELSE pool
  /\ UNCHANGED <<chain, recheck, block, executed>>

\* Execution in a block. What the messages do, and whether they fail, does not
\* touch what the ante handler wrote.
DeliverTx(tx) ==
  /\ recheck = {}
  /\ Len(executed) < MaxExecuted /\ Cardinality(block) < MaxBlock
  /\ chain' = AnteHandle(chain, tx, FALSE)
  /\ executed' = IF Accepts(chain, tx, FALSE) THEN Append(executed, tx) ELSE executed
  /\ block' = block \cup {tx}
  /\ UNCHANGED <<check, pool, recheck>>

\* MsgUpdateParams of the fee market, by governance.
UpdateParams(price) ==
  /\ recheck = {}
  /\ chain' = [chain EXCEPT !.minGasPrice = price]
  /\ UNCHANGED <<check, pool, recheck, block, executed>>

\* The check state starts again from the chain's, and the mempool forgets the
\* transactions of the block.
Commit ==
  /\ recheck = {}
  /\ check' = chain
  /\ recheck' = pool \ block
  /\ pool' = {} /\ block' = {}
  /\ UNCHANGED <<chain, executed>>

\* Mutant: a recheck is not taken for a check.
RecheckTxAsDeliver(tx) ==
  /\ tx \in recheck
  /\ recheck' = recheck \ {tx}
  /\ check' = AnteHandle(check, tx, FALSE)
  /\ pool' = IF Accepts(check, tx, FALSE) THEN pool \cup {tx} ELSE pool
  /\ UNCHANGED <<chain, block, executed>>

RecheckTx(tx) ==
  /\ tx \in recheck
  /\ recheck' = recheck \ {tx}
  /\ check' = AnteHandle(check, tx, TRUE)
  /\ pool' = IF Accepts(check, tx, TRUE) THEN pool \cup {tx} ELSE pool
  /\ UNCHANGED <<chain, block, executed>>

Next ==
  \/ \E tx \in Txs : CheckTx(tx) \/ DeliverTx(tx) \/ RecheckTx(tx)
  \/ \E price \in Prices : UpdateParams(price)
  \/ Commit

Spec == Init /\ [][Next]_vars

-----------------------------------------------------------------------------
(* Properties.                                                             *)

States == [sequence : [Accounts -> Nat], balance : [Accounts -> Nat],
           fees : Nat, minGasPrice : Prices]

\* Every state has its type: no handler lets a fee through that the signer
\* cannot pay, on the chain's state or on the check state.
TypeOK ==
  /\ chain \in States /\ check \in States
  /\ pool \subseteq Txs /\ recheck \subseteq Txs /\ block \subseteq Txs
  /\ executed \in Seq(Txs)

\* No transaction is executed twice and none out of order, whichever blocks it
\* is put into and whichever of the two handlers it goes to: an account's
\* transactions, Cosmos and Ethereum together, are executed by rising sequence.
ExecutedInOrder ==
  \A i, j \in DOMAIN executed :
    i < j /\ executed[i].signer = executed[j].signer =>
      executed[i].sequence < executed[j].sequence

Fees(S) == SumFunctionOnSet([i \in DOMAIN executed |-> executed[i].fee], S)
Of(a) == {i \in DOMAIN executed : executed[i].signer = a}

\* The fees the chain has collected are those of the transactions whose
\* messages it ran, and they came from the signers: a transaction the handler
\* refuses pays nothing, although the fee is deducted before its signature is
\* looked at.
FeesOfExecuted ==
  /\ chain.fees = Fees(DOMAIN executed)
  /\ \A a \in Accounts : chain.balance[a] + Fees(Of(a)) = InitialBalance

IsCosmos(tx) == tx.extension # "ethereum"

\* What the node keeps in its mempool pays the minimum fee of its check state,
\* also after governance has raised the price: the recheck drops the others.
PoolPaysMinimum ==
  \A tx \in pool : IsCosmos(tx) /\ check.minGasPrice > 0 /\ ~Bypasses(tx) =>
    PaysMinimum(check.minGasPrice, tx)

=============================================================================
