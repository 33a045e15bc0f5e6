------------------------------ MODULE AnteProofs ------------------------------
(* What holds of the ante handler for all accounts, transactions, prices   *)
(* and any cost of signatures.                                             *)
EXTENDS Ante, SetLemmas

\* An executed transaction lies behind its account's sequence.
Behind == \A i \in DOMAIN executed :
            executed[i].sequence < chain.sequence[executed[i].signer]

Inv ==
  /\ TypeOK /\ Behind
  /\ ExecutedInOrder /\ PoolPaysMinimum

\* What an accepted transaction leaves: the fee moves from the signer to the
\* collected fees, and the signer's sequence counts.
LEMMA ChargedIs ==
  ASSUME NEW st \in States, NEW tx \in Txs, NEW checkTx, Accepts(st, tx, checkTx)
  PROVE  /\ Charged(st, tx) =
              [sequence |-> [st.sequence EXCEPT ![tx.signer] = @ + 1],
               balance |-> [st.balance EXCEPT ![tx.signer] = @ - tx.fee],
               fees |-> st.fees + tx.fee, minGasPrice |-> st.minGasPrice]
         /\ tx.signer \in Accounts /\ tx.fee \in Nat
         /\ tx.fee <= st.balance[tx.signer] /\ tx.sequence = st.sequence[tx.signer]
         /\ st.sequence \in [Accounts -> Nat] /\ st.balance \in [Accounts -> Nat]
         /\ st.fees \in Nat /\ st.minGasPrice \in Prices
<1>1. tx.signer \in Accounts /\ tx.fee \in Nat
  BY AnteAssumption
<1>2. tx.fee <= st.balance[tx.signer] /\ tx.sequence = st.sequence[tx.signer]
  BY DEF Accepts, newEthAnteHandler, newCosmosAnteHandler, CanPay, NextInLine
<1>3. /\ st.sequence \in [Accounts -> Nat] /\ st.balance \in [Accounts -> Nat]
      /\ st.fees \in Nat /\ st.minGasPrice \in Prices
      /\ st = [sequence |-> st.sequence, balance |-> st.balance,
               fees |-> st.fees, minGasPrice |-> st.minGasPrice]
  BY DEF States
<1> DEFINE seq == [st.sequence EXCEPT ![tx.signer] = @ + 1]
           bal == [st.balance EXCEPT ![tx.signer] = @ - tx.fee]
<1>4. Paid(st, tx) = [sequence |-> st.sequence, balance |-> bal,
                      fees |-> st.fees + tx.fee, minGasPrice |-> st.minGasPrice]
  BY DEF Paid
<1>5. \A p : p = [sequence |-> st.sequence, balance |-> bal,
                  fees |-> st.fees + tx.fee, minGasPrice |-> st.minGasPrice] =>
        [p EXCEPT !.sequence[tx.signer] = @ + 1] =
          [sequence |-> seq, balance |-> bal,
           fees |-> st.fees + tx.fee, minGasPrice |-> st.minGasPrice]
  <2> HIDE DEF bal
  <2> QED
    BY <1>1, <1>3
<1>6. Charged(st, tx) = [sequence |-> seq, balance |-> bal,
                         fees |-> st.fees + tx.fee, minGasPrice |-> st.minGasPrice]
  BY <1>4, <1>5 DEF Charged
<1> QED
  BY <1>1, <1>2, <1>3, <1>6

\* A state of the right type with the account's sequence, and no other, one
\* higher, and the same price.
LEMMA ChargedFacts ==
  ASSUME NEW st \in States, NEW tx \in Txs, NEW checkTx, Accepts(st, tx, checkTx)
  PROVE  /\ Charged(st, tx) \in States
         /\ Charged(st, tx).minGasPrice = st.minGasPrice
         /\ tx.sequence = st.sequence[tx.signer]
         /\ Charged(st, tx).sequence[tx.signer] = st.sequence[tx.signer] + 1
         /\ \A a \in Accounts : st.sequence[a] <= Charged(st, tx).sequence[a]
<1> DEFINE seq == [st.sequence EXCEPT ![tx.signer] = @ + 1]
           bal == [st.balance EXCEPT ![tx.signer] = @ - tx.fee]
<1>1. tx.signer \in Accounts /\ tx.fee \in Nat
  BY ChargedIs
<1>2. tx.fee <= st.balance[tx.signer] /\ tx.sequence = st.sequence[tx.signer]
  BY ChargedIs
<1>3. /\ st.sequence \in [Accounts -> Nat] /\ st.balance \in [Accounts -> Nat]
      /\ st.fees \in Nat /\ st.minGasPrice \in Prices
  BY ChargedIs
<1>4. seq \in [Accounts -> Nat] /\ bal \in [Accounts -> Nat] /\ st.fees + tx.fee \in Nat
  BY <1>1, <1>2, <1>3
<1>5. Charged(st, tx) = [sequence |-> seq, balance |-> bal,
                         fees |-> st.fees + tx.fee, minGasPrice |-> st.minGasPrice]
  BY ChargedIs
<1>6. Charged(st, tx) \in States
  BY <1>3, <1>4, <1>5 DEF States
<1>7. seq[tx.signer] = st.sequence[tx.signer] + 1 /\ \A a \in Accounts : st.sequence[a] <= seq[a]
  BY <1>1, <1>3
<1> HIDE DEF seq, bal
<1>8. Charged(st, tx).sequence = seq /\ Charged(st, tx).minGasPrice = st.minGasPrice
  BY <1>5
<1> QED
  BY <1>2, <1>6, <1>7, <1>8

\* The handler keeps the type of the state and its price.
LEMMA AnteHandleType ==
  ASSUME NEW st \in States, NEW tx \in Txs, NEW checkTx
  PROVE  /\ AnteHandle(st, tx, checkTx) \in States
         /\ AnteHandle(st, tx, checkTx).minGasPrice = st.minGasPrice
  BY ChargedFacts DEF AnteHandle

\* A Cosmos transaction that passes a check pays the minimum fee.
LEMMA CheckedPays ==
  ASSUME NEW st \in States, NEW tx \in Txs, Accepts(st, tx, TRUE),
         IsCosmos(tx), st.minGasPrice > 0, ~Bypasses(tx)
  PROVE  PaysMinimum(st.minGasPrice, tx)
<1>1. newCosmosAnteHandler(st, tx, TRUE)
  BY Zenon DEF Accepts, IsCosmos
<1>2. MinGasPrice(st, tx, TRUE)
  BY <1>1, Zenon DEF newCosmosAnteHandler
<1>3. st.minGasPrice # 0
  BY AnteAssumption DEF States
<1> QED
  BY <1>2, <1>3 DEF MinGasPrice

\* The initial states.
LEMMA InitInv == Init => Inv
<1> SUFFICES ASSUME Init PROVE Inv
  OBVIOUS
<1>1. chain \in States /\ check = chain
  BY AnteAssumption DEF Init, States
<1>2. executed = <<>> /\ pool = {} /\ recheck = {} /\ block = {} /\ DOMAIN executed = {}
  BY DEF Init
<1> QED
  BY <1>1, <1>2 DEF Inv, TypeOK, Behind, ExecutedInOrder, PoolPaysMinimum

\* CheckTx and RecheckTx put a transaction into the mempool only when the check
\* state accepts it, and neither changes the price of that state.
LEMMA CheckInv ==
  ASSUME Inv, NEW tx \in Txs, check' = AnteHandle(check, tx, TRUE),
         pool' = IF Accepts(check, tx, TRUE) THEN pool \cup {tx} ELSE pool,
         recheck' \subseteq recheck, UNCHANGED <<chain, block, executed>>
  PROVE  Inv'
<1>1. check' \in States /\ check'.minGasPrice = check.minGasPrice
  BY AnteHandleType, Zenon DEF Inv, TypeOK
<1>2. TypeOK'
  BY <1>1, Zenon DEF Inv, TypeOK
<1>3. PoolPaysMinimum'
  <2> SUFFICES ASSUME NEW t \in pool', IsCosmos(t), check.minGasPrice > 0, ~Bypasses(t)
               PROVE  PaysMinimum(check.minGasPrice, t)
    BY <1>1, Zenon DEF PoolPaysMinimum
  <2>1. CASE t \in pool
    BY <2>1 DEF Inv, PoolPaysMinimum
  <2>2. CASE t \notin pool
    <3>1. t = tx /\ Accepts(check, tx, TRUE)
      BY <2>2, Zenon
    <3> QED
      BY <3>1, CheckedPays, Zenon DEF Inv, TypeOK
  <2> QED
    BY <2>1, <2>2
<1>4. Behind' /\ ExecutedInOrder'
  BY DEF Inv, Behind, ExecutedInOrder
<1> QED
  BY <1>2, <1>3, <1>4 DEF Inv

\* A transaction in a block: what is executed joins the history at its end,
\* with the sequence the account had, above all earlier ones.
LEMMA DeliverInv ==
  ASSUME Inv, NEW tx \in Txs, DeliverTx(tx)
  PROVE  Inv'
<1>1. chain' \in States
  BY AnteHandleType, Zenon DEF Inv, TypeOK, DeliverTx
<1>2. PoolPaysMinimum'
  BY DEF Inv, PoolPaysMinimum, DeliverTx
<1>3. CASE ~Accepts(chain, tx, FALSE)
  <2>1. executed' = executed /\ chain' = chain
    BY <1>3 DEF DeliverTx, AnteHandle
  <2>2. TypeOK'
    BY <1>1, <2>1, Zenon DEF Inv, TypeOK, DeliverTx
  <2>3. Behind' /\ ExecutedInOrder'
    BY <2>1 DEF Inv, Behind, ExecutedInOrder
  <2> QED
    BY <1>2, <2>2, <2>3 DEF Inv
<1>4. CASE Accepts(chain, tx, FALSE)
  <2> DEFINE n == Len(executed) + 1
  <2>1. /\ executed \in Seq(Txs) /\ chain \in States
        /\ executed' = Append(executed, tx) /\ chain' = Charged(chain, tx)
    BY <1>4 DEF Inv, TypeOK, DeliverTx, AnteHandle
  <2>2. /\ executed' \in Seq(Txs) /\ DOMAIN executed = 1 .. Len(executed)
        /\ DOMAIN executed' = 1 .. n /\ n \in Nat /\ executed'[n] = tx
        /\ \A i \in DOMAIN executed : /\ executed'[i] = executed[i]
                                      /\ executed[i] \in Txs
    BY <2>1
  <2> HIDE DEF n
  <2>3. /\ tx.sequence = chain.sequence[tx.signer]
        /\ chain'.sequence[tx.signer] = chain.sequence[tx.signer] + 1
        /\ \A a \in Accounts : chain.sequence[a] <= chain'.sequence[a]
    BY <1>4, <2>1, ChargedFacts, Zenon
  <2>4. \A i \in DOMAIN executed' : i \in DOMAIN executed \/ i = n
    BY <2>2 DEF n
  <2>5. \A i \in DOMAIN executed : i < n
    BY <2>2 DEF n
  <2>6. /\ \A t \in Txs : t.signer \in Accounts /\ t.sequence \in Nat
        /\ \A a \in Accounts : chain.sequence[a] \in Nat /\ chain'.sequence[a] \in Nat
    BY <1>1, <2>1, AnteAssumption DEF States
  <2>7. TypeOK'
    BY <1>1, <2>2, Zenon DEF Inv, TypeOK, DeliverTx
  <2>8. Behind'
    <3> SUFFICES ASSUME NEW i \in DOMAIN executed'
                 PROVE  executed'[i].sequence < chain'.sequence[executed'[i].signer]
      BY DEF Behind
    <3>1. CASE i = n
      BY <3>1, <2>2, <2>3, <2>6
    <3>2. CASE i \in DOMAIN executed
      <4>1. executed[i].sequence < chain.sequence[executed[i].signer]
        BY <3>2 DEF Inv, Behind
      <4>2. executed[i] \in Txs /\ executed'[i] = executed[i]
        BY <3>2, <2>2
      <4> DEFINE a == executed[i].signer
      <4>3. a \in Accounts /\ executed[i].sequence \in Nat
        BY <4>2, <2>6
      <4>4. chain.sequence[a] <= chain'.sequence[a]
        BY <4>3, <2>3
      <4>5. chain.sequence[a] \in Nat /\ chain'.sequence[a] \in Nat
        BY <4>3, <2>6
      <4> QED
        BY <4>1, <4>2, <4>3, <4>4, <4>5
    <3> QED
      BY <3>1, <3>2, <2>4
  <2>9. ExecutedInOrder'
    <3> SUFFICES ASSUME NEW i \in DOMAIN executed', NEW j \in DOMAIN executed', i < j,
                        executed'[i].signer = executed'[j].signer
                 PROVE  executed'[i].sequence < executed'[j].sequence
      BY DEF ExecutedInOrder
    <3>1. i \in DOMAIN executed
      BY <2>2 DEF n
    <3>2. CASE j = n
      BY <3>1, <3>2, <2>2, <2>3 DEF Inv, Behind
    <3>3. CASE j \in DOMAIN executed
      BY <3>1, <3>3, <2>2 DEF Inv, ExecutedInOrder
    <3> QED
      BY <3>2, <3>3, <2>4
  <2> QED
    BY <1>2, <2>7, <2>8, <2>9 DEF Inv
<1> QED
  BY <1>3, <1>4, Zenon

\* Every step keeps the invariant.
LEMMA NextInv == Inv /\ [Next]_vars => Inv'
<1> SUFFICES ASSUME Inv, [Next]_vars PROVE Inv'
  OBVIOUS
<1>1. ASSUME NEW tx \in Txs, CheckTx(tx) PROVE Inv'
  BY <1>1, CheckInv, Zenon DEF CheckTx
<1>2. ASSUME NEW tx \in Txs, DeliverTx(tx) PROVE Inv'
  BY <1>2, DeliverInv
<1>3. ASSUME NEW tx \in Txs, RecheckTx(tx) PROVE Inv'
  BY <1>3, CheckInv, Zenon DEF RecheckTx
<1>4. ASSUME NEW price \in Prices, UpdateParams(price) PROVE Inv'
  <2>1. chain' \in States /\ chain'.sequence = chain.sequence
    BY <1>4, Zenon DEF Inv, TypeOK, States, UpdateParams
  <2>2. TypeOK'
    BY <1>4, <2>1 DEF Inv, TypeOK, UpdateParams
  <2>3. Behind' /\ ExecutedInOrder' /\ PoolPaysMinimum'
    BY <1>4, <2>1 DEF Inv, Behind, ExecutedInOrder, PoolPaysMinimum, UpdateParams
  <2> QED
    BY <2>2, <2>3 DEF Inv
<1>5. ASSUME Commit PROVE Inv'
  <2>1. TypeOK'
    BY <1>5 DEF Inv, TypeOK, Commit
  <2>2. Behind' /\ ExecutedInOrder' /\ PoolPaysMinimum'
    BY <1>5 DEF Inv, Behind, ExecutedInOrder, PoolPaysMinimum, Commit
  <2> QED
    BY <2>1, <2>2 DEF Inv
<1>6. CASE UNCHANGED vars
  BY <1>6 DEF Inv, TypeOK, Behind, ExecutedInOrder, PoolPaysMinimum, vars
<1> QED
  BY <1>1, <1>2, <1>3, <1>4, <1>5, <1>6 DEF Next

\* The invariant holds in every behaviour.
LEMMA Invariance == Spec => []Inv
  BY InitInv, NextInv, PTL DEF Spec

\* Type correctness: no account ever pays a fee it does not have, neither on the
\* chain's state nor on the check state.
THEOREM TypeCorrect == Spec => []TypeOK
<1>1. Inv => TypeOK
  BY DEF Inv
<1> QED
  BY <1>1, Invariance, PTL

\* An account's transactions are executed by rising sequence, each at most once,
\* whatever blocks hold and whichever handler each one goes to.
THEOREM InOrder == Spec => []ExecutedInOrder
<1>1. Inv => ExecutedInOrder
  BY DEF Inv
<1> QED
  BY <1>1, Invariance, PTL

\* The mempool pays the minimum fee of the check state, at every moment of a
\* recheck too.
THEOREM PoolPays == Spec => []PoolPaysMinimum
<1>1. Inv => PoolPaysMinimum
  BY DEF Inv
<1> QED
  BY <1>1, Invariance, PTL

-----------------------------------------------------------------------------
(* The fees.                                                               *)

\* The sum of the fees at the places S of a history.
FeeSum(e, S) == SumFunctionOnSet([i \in DOMAIN e |-> e[i].fee], S)

\* Another transaction adds its fee to the sums its place is in.
LEMMA FeesAppend ==
  ASSUME NEW e \in Seq(Txs), NEW tx \in Txs, NEW S \in SUBSET DOMAIN e
  PROVE  /\ FeeSum(Append(e, tx), S) = FeeSum(e, S)
         /\ FeeSum(Append(e, tx), S \cup {Len(e) + 1}) = FeeSum(e, S) + tx.fee
         /\ FeeSum(e, S) \in Nat
<1> DEFINE n == Len(e) + 1
           D == DOMAIN e
           d == Append(e, tx)
           f == [i \in D |-> e[i].fee]
           g == [i \in DOMAIN d |-> d[i].fee]
<1>1. /\ D = 1 .. Len(e) /\ Len(e) \in Nat /\ DOMAIN d = D \cup {n} /\ n \notin D
      /\ d[n] = tx /\ \A i \in D : d[i] = e[i] /\ e[i] \in Txs
  OBVIOUS
<1>2. \A x \in Txs : x.fee \in Nat
  BY AnteAssumption
<1> HIDE DEF d
<1>3. /\ g[n] = tx.fee /\ \A i \in S : g[i] = f[i] /\ f[i] \in Nat
  BY <1>1, <1>2
<1>4. IsFiniteSet(S) /\ n \notin S
  <2>1. IsFiniteSet(D)
    BY <1>1, FS_Interval
  <2> QED
    BY <1>1, <2>1, FS_Subset
<1> HIDE DEF f, g, n
<1>5. SumFunctionOnSet(g, S) = SumFunctionOnSet(f, S)
  BY <1>3, <1>4, SumSame
<1>6. SumFunctionOnSet(g, S \cup {n}) = g[n] + SumFunctionOnSet(g, S)
  BY <1>2, <1>3, <1>4, SumInsert
<1>7. SumFunctionOnSet(f, S) \in Nat
  BY <1>3, <1>4, SumNat
<1>8. SumFunctionOnSet(g, S \cup {n}) = SumFunctionOnSet(f, S) + tx.fee
  BY <1>2, <1>3, <1>5, <1>6, <1>7
<1> QED
  BY <1>5, <1>7, <1>8, Zenon DEF FeeSum, f, g, n, d

\* An executed transaction pays its fee into the collected fees.
LEMMA DeliverFees ==
  ASSUME TypeOK, FeesOfExecuted, NEW tx \in Txs, DeliverTx(tx)
  PROVE  FeesOfExecuted'
<1>1. CASE ~Accepts(chain, tx, FALSE)
  <2>1. executed' = executed /\ chain' = chain
    BY <1>1 DEF DeliverTx, AnteHandle
  <2> QED
    BY <2>1 DEF FeesOfExecuted, Fees, Of
<1>2. CASE Accepts(chain, tx, FALSE)
  <2> DEFINE n == Len(executed) + 1
             D == DOMAIN executed
             s == tx.signer
  <2>1. /\ executed \in Seq(Txs) /\ chain \in States
        /\ executed' = Append(executed, tx) /\ chain' = Charged(chain, tx)
    BY <1>2 DEF TypeOK, DeliverTx, AnteHandle
  <2>2. /\ DOMAIN executed' = D \cup {n} /\ n \notin D /\ executed'[n] = tx
        /\ \A i \in D : executed'[i] = executed[i]
    BY <2>1
  <2>3. /\ s \in Accounts /\ tx.fee \in Nat
        /\ chain.balance \in [Accounts -> Nat] /\ chain.fees \in Nat
        /\ tx.fee <= chain.balance[s]
    BY <1>2, <2>1, ChargedIs, Zenon
  <2>4. /\ chain'.fees = chain.fees + tx.fee
        /\ chain'.balance = [chain.balance EXCEPT ![s] = @ - tx.fee]
    <3>1. chain' = [sequence |-> [chain.sequence EXCEPT ![s] = @ + 1],
                    balance |-> [chain.balance EXCEPT ![s] = @ - tx.fee],
                    fees |-> chain.fees + tx.fee, minGasPrice |-> chain.minGasPrice]
      BY <1>2, <2>1, ChargedIs, Zenon
    <3> QED
      BY <3>1
  <2>5. Of(s)' = Of(s) \cup {n} /\ \A a \in Accounts \ {s} : Of(a)' = Of(a)
    BY <2>2 DEF Of
  <2>6. \A a \in Accounts : Of(a) \in SUBSET D
    BY DEF Of
  <2>7. chain'.fees = FeeSum(executed', DOMAIN executed')
    <3>1. chain.fees = FeeSum(executed, D)
      BY DEF FeesOfExecuted, Fees, FeeSum
    <3>2. FeeSum(Append(executed, tx), D \cup {n}) = FeeSum(executed, D) + tx.fee
      BY <2>1, FeesAppend
    <3> QED
      BY <2>1, <2>2, <2>4, <3>1, <3>2
  <2>8. ASSUME NEW a \in Accounts
        PROVE  chain'.balance[a] + FeeSum(executed', Of(a)') = InitialBalance
    <3>1. chain.balance[a] + FeeSum(executed, Of(a)) = InitialBalance
      BY DEF FeesOfExecuted, Fees, FeeSum
    <3> DEFINE S == Of(a)
    <3>2. S \in SUBSET D
      BY <2>6
    <3> HIDE DEF S
    <3>3. /\ FeeSum(Append(executed, tx), S) = FeeSum(executed, S)
          /\ FeeSum(Append(executed, tx), S \cup {n}) = FeeSum(executed, S) + tx.fee
          /\ FeeSum(executed, S) \in Nat
      BY <2>1, <3>2, FeesAppend
    <3>4. CASE a = s
      <4>1. FeeSum(executed', Of(a)') = FeeSum(executed, S) + tx.fee
        BY <2>1, <2>5, <3>3, <3>4, Zenon DEF S
      <4>2. chain'.balance[a] = chain.balance[a] - tx.fee /\ chain.balance[a] \in Nat
        BY <2>3, <2>4, <3>4
      <4> QED
        BY <2>3, <3>1, <3>3, <4>1, <4>2 DEF S
    <3>5. CASE a # s
      <4>1. FeeSum(executed', Of(a)') = FeeSum(executed, S)
        BY <2>1, <2>5, <3>3, <3>5 DEF S
      <4>2. chain'.balance[a] = chain.balance[a]
        BY <2>3, <2>4, <3>5
      <4> QED
        BY <3>1, <4>1, <4>2 DEF S
    <3> QED
      BY <3>4, <3>5
  <2> QED
    BY <2>7, <2>8 DEF FeesOfExecuted, Fees, FeeSum
<1> QED
  BY <1>1, <1>2, Zenon

LEMMA FeesStep == TypeOK /\ FeesOfExecuted /\ [Next]_vars => FeesOfExecuted'
<1> SUFFICES ASSUME TypeOK, FeesOfExecuted, [Next]_vars PROVE FeesOfExecuted'
  OBVIOUS
<1>1. ASSUME UNCHANGED <<chain.fees, chain.balance, executed>> PROVE FeesOfExecuted'
  BY <1>1 DEF FeesOfExecuted, Fees, Of
<1>2. ASSUME NEW tx \in Txs, CheckTx(tx) \/ RecheckTx(tx) PROVE FeesOfExecuted'
  BY <1>1, <1>2, Zenon DEF CheckTx, RecheckTx
<1>3. ASSUME NEW price \in Prices, UpdateParams(price) PROVE FeesOfExecuted'
  <2>1. chain'.fees = chain.fees /\ chain'.balance = chain.balance
    BY <1>3, Zenon DEF TypeOK, States, UpdateParams
  <2> QED
    BY <1>1, <1>3, <2>1 DEF UpdateParams
<1>4. ASSUME Commit \/ UNCHANGED vars PROVE FeesOfExecuted'
  BY <1>1, <1>4 DEF Commit, vars
<1> QED
  BY <1>2, <1>3, <1>4, DeliverFees DEF Next

\* The collected fees are those of the transactions whose messages were run, and
\* every account has paid its own and nothing else: for all transactions,
\* blocks, checks and changes of the price.
THEOREM FeesPaidByExecuted == Spec => []FeesOfExecuted
<1>1. Init => FeesOfExecuted
  <2> SUFFICES ASSUME Init PROVE FeesOfExecuted
    OBVIOUS
  <2>1. /\ chain.fees = 0 /\ \A a \in Accounts : chain.balance[a] = InitialBalance
        /\ DOMAIN executed = {}
    BY DEF Init
  <2>2. \A a \in Accounts : Of(a) = {}
    BY <2>1 DEF Of
  <2>3. Fees({}) = 0 /\ InitialBalance \in Nat
    BY SumEmpty, AnteAssumption DEF Fees
  <2>4. \A a \in Accounts : chain.balance[a] + Fees(Of(a)) = InitialBalance
    <3> SUFFICES ASSUME NEW a \in Accounts
                 PROVE  chain.balance[a] + Fees(Of(a)) = InitialBalance
      OBVIOUS
    <3>1. Fees(Of(a)) = 0
      BY <2>2, <2>3, Zenon
    <3> QED
      BY <2>1, <2>3, <3>1
  <2> QED
    BY <2>1, <2>3, <2>4 DEF FeesOfExecuted
<1>2. Inv => TypeOK
  BY DEF Inv
<1> QED
  BY <1>1, <1>2, FeesStep, Invariance, PTL DEF Spec
=============================================================================
