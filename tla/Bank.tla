-------------------------------- MODULE Bank --------------------------------
(***************************************************************************)
(* xpla's bank keeper (x/bank) and the precompiles that move coins through *)
(* it (precompile/bank, precompile/wasm): one interface over three kinds   *)
(* of ledger. ParseDenom decides from the denomination whether a coin is a *)
(* native one, a token of an ERC20 contract or a token of a CW20 contract. *)
(*                                                                         *)
(* A transaction works on a copy of the ledgers and is committed or        *)
(* dropped as a whole. An error of a message drops it. An error of the     *)
(* precompile undoes the call (RunNativeAction), and the contract that     *)
(* called may go on. Inside SendCoins the transfers of the single coins    *)
(* are steps of their own, because each can fail after others are done.    *)
(*                                                                         *)
(* A list of coins is a function from denominations to amounts: a list     *)
(* that repeats a denomination is refused by IsValid and by NewCoins. In   *)
(* which order the coins of one kind are sent is left open. Contracts are  *)
(* external; they do not mint. Vesting locks are not modelled.             *)
(***************************************************************************)
EXTENDS Integers, Sequences, FiniteSets, Functions

CONSTANTS
  Accounts,
  Denoms,       \* denomination strings, as records: the name itself, the
                \* prefix it starts with, the number of parts between the
                \* colons, and the second part
  CoinLists,    \* coin lists the inputs carry
  Deployed,     \* contract tokens whose contract exists
  Malformed,    \* CW20 addresses that are no bech32 addresses
  Blocked,      \* addresses that may not receive (module accounts, precompiles)
  Contracts,    \* accounts of wasm contracts
  SliceAddresses, \* x/auth's store: accounts by the last 20 bytes of their
                \* address, when it is longer
  SendEnabled,  \* denominations whose transfers are enabled
  Holdings,     \* initial balances, by existing token and account
  MaxSends,     \* bound: sends in one transaction
  MaxTxs        \* bound: committed transactions

ASSUME BankAssumption ==
  /\ IsFiniteSet(Accounts) /\ Accounts # {}
  /\ Blocked \subseteq Accounts /\ Contracts \subseteq Accounts
  /\ \A d \in Denoms : d.parts \in Nat /\ d.prefix \in {"xerc20", "xcw20", "other"}
  /\ \A d, e \in Denoms : d.name = e.name => d = e
  /\ \A coins \in CoinLists : /\ IsFiniteSet(DOMAIN coins) /\ DOMAIN coins \subseteq Denoms
                              /\ coins \in [DOMAIN coins -> Int]
  /\ SendEnabled \subseteq Denoms
  /\ MaxSends \in Nat /\ MaxTxs \in Nat

VARIABLES
  ledger,    \* committed balances, by token and account
  work,      \* balances as the running transaction sees them
  snapshot,  \* work when the call started
  tx,        \* "none", or the kind of transaction: "msg" or "evm"
  call,      \* the send that is running: caller, from, to, coins
  todo,      \* denominations it has not sent yet
  sent,      \* completed sends of the transaction; for the precompile these
             \* are the Send events in the EVM's log
  txs        \* number of committed transactions

vars == <<ledger, work, snapshot, tx, call, todo, sent, txs>>

\* A token is identified by the kind of its ledger and its key there.
NativeToken(d) == <<"Cosmos", d.name>>

ParseDenom(d) ==
  CASE d.parts = 2 /\ d.prefix = "xerc20" -> <<"Erc20", d.address>>
    [] d.parts = 2 /\ d.prefix = "xcw20" -> <<"Cw20", d.address>>
    [] OTHER -> NativeToken(d)

TokenType(d) == ParseDenom(d)[1]

\* The bank store has a place for every denomination, also for those that name
\* contracts.
Tokens == {ParseDenom(d) : d \in Denoms} \cup {NativeToken(d) : d \in Denoms}

\* Genesis gives nobody native coins under the name of a contract.
ASSUME HoldingsAssumption ==
  /\ \A t \in Deployed : t[1] # "Cosmos"
  /\ \A t \in DOMAIN Holdings :
       /\ Holdings[t] \in [Accounts -> Nat]
       /\ t \in Deployed \/ \A d \in Denoms : NativeToken(d) = t => ParseDenom(d) = t

Holding(t, a) == IF t \in DOMAIN Holdings THEN Holdings[t][a] ELSE 0

NoCall == [caller |-> "none", from |-> "none", to |-> "none", coins |-> [d \in {} |-> 0]]

Init ==
  /\ ledger = [t \in Tokens |-> [a \in Accounts |-> Holding(t, a)]]
  /\ work = ledger /\ snapshot = ledger
  /\ tx = "none" /\ call = NoCall /\ todo = {} /\ sent = <<>> /\ txs = 0

-----------------------------------------------------------------------------
(* Views of the keeper on balances b. NoAnswer is a panic.                 *)

NoAnswer == -1

\* Erc20ViewKeeper.GetBalance panics when the contract does not answer,
\* Cw20ViewKeeper.GetBalance returns zero, and panics on a malformed address.
Erc20Balance(b, a, t) == IF t \in Deployed THEN b[t][a] ELSE NoAnswer
Cw20Balance(b, a, t) ==
  IF t[2] \in Malformed THEN NoAnswer ELSE IF t \in Deployed THEN b[t][a] ELSE 0

\* Mutant: CW20 denominations are looked up in the bank store.
GetBalanceNoCw20(b, a, d) ==
  IF TokenType(d) = "Erc20" THEN Erc20Balance(b, a, ParseDenom(d)) ELSE b[NativeToken(d)][a]

GetBalance(b, a, d) ==
  CASE TokenType(d) = "Erc20" -> Erc20Balance(b, a, ParseDenom(d))
    [] TokenType(d) = "Cw20" -> Cw20Balance(b, a, ParseDenom(d))
    [] OTHER -> b[NativeToken(d)][a]

\* totalSupply and token_info of a contract, the bank's own supply.
InitialSupply(t) == SumFunction([a \in Accounts |-> Holding(t, a)])

Erc20Supply(t) == IF t \in Deployed THEN InitialSupply(t) ELSE 0
Cw20Supply(t) ==
  IF t[2] \in Malformed THEN NoAnswer ELSE IF t \in Deployed THEN InitialSupply(t) ELSE 0

GetSupply(d) ==
  CASE TokenType(d) = "Erc20" -> Erc20Supply(ParseDenom(d))
    [] TokenType(d) = "Cw20" -> Cw20Supply(ParseDenom(d))
    [] OTHER -> InitialSupply(NativeToken(d))

-----------------------------------------------------------------------------
(* The start of a send.                                                    *)

Moved(b, t, from, to, n) ==
  LET paid == [b EXCEPT ![t][from] = @ - n] IN [paid EXCEPT ![t][to] = @ + n]

Open == tx # "none" /\ call = NoCall

BeginTx(kind) ==
  /\ tx = "none" /\ txs < MaxTxs
  /\ tx' = kind
  /\ work' = ledger
  /\ UNCHANGED <<ledger, snapshot, call, todo, sent, txs>>

\* SendCoins is entered. The copy is what an error of the precompile restores.
StartSend(c) ==
  /\ Open
  /\ Len(sent) < MaxSends
  /\ call' = c
  /\ todo' = DOMAIN c.coins
  /\ snapshot' = work
  /\ UNCHANGED <<ledger, work, tx, sent, txs>>

\* IsValid and IsAllPositive: an empty list is not positive.
Valid(coins) == DOMAIN coins # {} /\ \A d \in DOMAIN coins : coins[d] > 0

\* Mutant: nothing is asked of the parameters.
IsSendEnabledAny(coins) == coins \in CoinLists

\* Only the native coins are looked up in the parameters.
IsSendEnabledCoins(coins) ==
  \A d \in DOMAIN coins : TokenType(d) = "Cosmos" => d \in SendEnabled

\* MsgSend; its signer is from.
Send(from, to, coins) ==
  /\ tx = "msg"
  /\ Valid(coins)
  /\ IsSendEnabledCoins(coins)
  /\ to \notin Blocked
  /\ StartSend([caller |-> from, from |-> from, to |-> to, coins |-> coins])

\* Mutant: any caller.
ValidateSignerAny(from, caller) == {from, caller} \subseteq Accounts

ValidateSigner(from, caller) == from = caller

\* NewCoins drops the zero amounts; the ABI has no negative ones.
GetCoins(coins) == [d \in {e \in DOMAIN coins : coins[e] # 0} |-> coins[d]]

\* send of the precompile. Neither the blocked addresses nor the send-enabled
\* parameters are consulted.
PrecompileSend(caller, from, to, coins) ==
  /\ tx = "evm"
  /\ ValidateSigner(from, caller)
  /\ \A d \in DOMAIN coins : coins[d] >= 0
  /\ StartSend([caller |-> caller, from |-> from, to |-> to, coins |-> GetCoins(coins)])

\* The lookup of x/auth: an address that is the end of a longer one stands for
\* that account.
getSliceAddress(address) ==
  IF address \in DOMAIN SliceAddresses THEN SliceAddresses[address] ELSE address

\* The wasm keeper (external) sends the funds to the contract before it runs it,
\* by the SendCoins of xpla's keeper and only where transfers are enabled. What
\* the contract then does is left out, but for its failure.
FundContract(caller, sender, contract, funds) ==
  /\ tx = "evm"
  /\ ValidateSigner(sender, caller)
  /\ \A d \in DOMAIN funds : funds[d] >= 0
  /\ contract \in Contracts
  /\ IsSendEnabledCoins(GetCoins(funds))
  /\ StartSend([caller |-> caller, from |-> sender, to |-> contract, coins |-> GetCoins(funds)])

\* instantiateContract and instantiateContract2 of the wasm precompile. They
\* differ in the address of the contract.
instantiateContract(caller, sender, funds) ==
  \E contract \in Contracts : FundContract(caller, sender, contract, funds)

\* executeContract of the wasm precompile. The caller is the calling contract,
\* or the signer of the transaction in a delegate call.
executeContract(caller, sender, contractAddress, funds) ==
  FundContract(caller, sender, getSliceAddress(contractAddress), funds)

-----------------------------------------------------------------------------
(* SendCoins: ERC20 coins, then CW20 coins, then the native ones.          *)

Left(kind) == {d \in todo : TokenType(d) = kind}

\* The transfer of a contract: it exists and the sender has the amount.
CanTransfer(t, d) == t \in Deployed /\ work[t][call.from] >= call.coins[d]

Transfer(d) ==
  /\ work' = Moved(work, ParseDenom(d), call.from, call.to, call.coins[d])
  /\ todo' = todo \ {d}
  /\ UNCHANGED <<ledger, snapshot, tx, call, sent, txs>>

SendErc20(d) ==
  /\ d \in Left("Erc20")
  /\ CanTransfer(ParseDenom(d), d)
  /\ Transfer(d)

SendCw20(d) ==
  /\ d \in Left("Cw20") /\ Left("Erc20") = {}
  /\ ParseDenom(d)[2] \notin Malformed
  /\ CanTransfer(ParseDenom(d), d)
  /\ Transfer(d)

\* BaseKeeper.SendCoins, all native coins at once.
SendCosmos ==
  LET coins == Left("Cosmos") IN
  /\ coins # {} /\ todo = coins
  /\ \A d \in coins : work[NativeToken(d)][call.from] >= call.coins[d]
  /\ work' = [t \in Tokens |-> LET ds == {d \in coins : NativeToken(d) = t} IN
                IF ds = {} THEN work[t]
                ELSE LET d == CHOOSE e \in ds : TRUE IN
                     Moved(work, t, call.from, call.to, call.coins[d])[t]]
  /\ todo' = {}
  /\ UNCHANGED <<ledger, snapshot, tx, call, sent, txs>>

\* The transaction is dropped.
Drop ==
  /\ tx' = "none" /\ call' = NoCall /\ todo' = {} /\ sent' = <<>>
  /\ work' = ledger
  /\ UNCHANGED <<ledger, snapshot, txs>>

\* Mutant: the error of the CW20 transfers is not returned.
SendFailsUnseen ==
  /\ todo # {}
  /\ \/ tx = "msg" /\ Left("Cw20") = {} /\ Drop
     \/ tx = "evm" /\ Left("Cw20") = {} /\ call' = NoCall /\ todo' = {} /\ work' = snapshot
        /\ UNCHANGED <<ledger, snapshot, tx, sent, txs>>
     \/ Left("Erc20") = {} /\ Left("Cw20") # {} /\ todo' = Left("Cosmos")
        /\ UNCHANGED <<ledger, work, snapshot, tx, call, sent, txs>>

\* Any of the transfers returns an error: the balance is short, the contract
\* is missing, reverts or answers false (after whatever it did), or gas runs
\* out. The first error is returned at once. A call that has moved all its
\* coins can fail too: the wasm contract that got them, or the event.
SendFails ==
  /\ call # NoCall
  /\ \/ tx = "msg" /\ Drop
     \/ tx = "evm" /\ call' = NoCall /\ todo' = {} /\ work' = snapshot
        /\ UNCHANGED <<ledger, snapshot, tx, sent, txs>>

\* SendCoins returns nil; the precompile emits its event.
SendReturns ==
  /\ call # NoCall /\ todo = {}
  /\ sent' = Append(sent, call)
  /\ call' = NoCall
  /\ UNCHANGED <<ledger, work, snapshot, tx, todo, txs>>

-----------------------------------------------------------------------------
(* MsgMultiSend: InputOutputCoins is BaseKeeper's and knows native coins   *)
(* only. The input is the sum of the outputs (ValidateInputOutputs).       *)

\* Mutant: the input is taken through ParseDenom, the outputs are native.
MultiSendMixed(from, tos, d, n) ==
  LET out(a) == n * Cardinality({i \in DOMAIN tos : tos[i] = a})
  IN
  /\ tx = "msg" /\ Open /\ Len(sent) + Len(tos) <= MaxSends
  /\ n > 0 /\ IsSendEnabledCoins([e \in {d} |-> n])
  /\ \A i \in DOMAIN tos : tos[i] \notin Blocked
  /\ work[ParseDenom(d)][from] >= n * Len(tos)
  /\ work' = [work EXCEPT ![ParseDenom(d)][from] = @ - n * Len(tos),
                          ![NativeToken(d)] = [a \in Accounts |-> @[a] + out(a)]]
  /\ sent' = sent \o [i \in DOMAIN tos |-> [caller |-> from, from |-> from, to |-> tos[i],
                                            coins |-> [e \in {d} |-> n]]]
  /\ UNCHANGED <<ledger, snapshot, tx, call, todo, txs>>

\* Every output gets n of one denomination.
MultiSend(from, tos, d, n) ==
  LET t == NativeToken(d)
      out(a) == n * Cardinality({i \in DOMAIN tos : tos[i] = a})
  IN
  /\ tx = "msg" /\ Open /\ Len(sent) + Len(tos) <= MaxSends
  /\ tos # <<>>
  /\ n > 0
  /\ IsSendEnabledCoins([e \in {d} |-> n])
  /\ \A i \in DOMAIN tos : tos[i] \notin Blocked
  /\ work[t][from] >= n * Len(tos)
  /\ work' = [work EXCEPT ![t] = [a \in Accounts |->
                @[a] + out(a) - IF a = from THEN n * Len(tos) ELSE 0]]
  /\ sent' = sent \o [i \in DOMAIN tos |-> [caller |-> from, from |-> from, to |-> tos[i],
                                            coins |-> [e \in {d} |-> n]]]
  /\ UNCHANGED <<ledger, snapshot, tx, call, todo, txs>>

-----------------------------------------------------------------------------
(* The end of a transaction.                                               *)

CommitTx ==
  /\ Open
  /\ ledger' = work
  /\ tx' = "none" /\ sent' = <<>> /\ txs' = txs + 1
  /\ UNCHANGED <<work, snapshot, call, todo>>

\* A later message fails, or the contract reverts.
AbortTx == Open /\ Drop

Next ==
  \/ \E kind \in {"msg", "evm"} : BeginTx(kind)
  \/ \E from, to \in Accounts, coins \in CoinLists :
       \/ Send(from, to, coins)
       \/ \E caller \in Accounts : PrecompileSend(caller, from, to, coins)
  \/ \E caller, from \in Accounts, coins \in CoinLists :
       \/ instantiateContract(caller, from, coins)
       \/ \E address \in Accounts \cup DOMAIN SliceAddresses :
            executeContract(caller, from, address, coins)
  \/ \E d \in Denoms : SendErc20(d) \/ SendCw20(d)
  \/ SendCosmos
  \/ SendFails
  \/ SendReturns
  \/ \E from, a, b \in Accounts, coins \in CoinLists : \E d \in DOMAIN coins :
       MultiSend(from, <<a>>, d, coins[d]) \/ MultiSend(from, <<a, b>>, d, coins[d])
  \/ CommitTx
  \/ AbortTx

Spec == Init /\ [][Next]_vars

-----------------------------------------------------------------------------
(* Properties.                                                             *)

Balances == [Tokens -> [Accounts -> Nat]]

\* Every state has its type; above all a running send carries positive amounts
\* only, and no send by message or precompile makes a balance negative,
\* whatever the list of coins it was given.
TypeOK ==
  /\ ledger \in Balances /\ work \in Balances /\ snapshot \in Balances
  /\ tx \in {"none", "msg", "evm"}
  /\ \/ call = NoCall /\ todo = {}
     \/ /\ call.caller \in Accounts /\ call.from \in Accounts /\ call.to \in Accounts
        /\ \A d \in DOMAIN call.coins : d \in Denoms /\ call.coins[d] \in Nat \ {0}
        /\ todo \subseteq DOMAIN call.coins

\* What the send c carries of token t, under any of its denominations.
Amount(c, t) == SumFunctionOnSet(c.coins, {d \in DOMAIN c.coins : ParseDenom(d) = t})

\* What a gets, less what it pays, when the send c moves n.
Net(c, n, a) == (IF c.to = a THEN n ELSE 0) - (IF c.from = a THEN n ELSE 0)

\* What the sends of the sequence s add to the balance of a in token t.
Received(s, t, a) == SumFunction([i \in DOMAIN s |-> Net(s[i], Amount(s[i], t), a)])

\* All or nothing, over the three ledgers: whenever no send is running, the
\* transaction has changed the balances by exactly the sends that returned
\* success, so the precompile's Send events account for every coin. A send
\* that failed halfway, with coins of one kind already moved, leaves nothing.
SendsExplainBalances ==
  Open => \A t \in Tokens, a \in Accounts : work[t][a] = ledger[t][a] + Received(sent, t, a)

\* The two views of the router agree with each other and with SendCoins: in
\* every committed state, what GetBalance reports of a denomination over all
\* accounts is what GetSupply reports of it, unless a query panics.
SupplyIsSumOfBalances ==
  tx = "none" => \A d \in Denoms :
    \/ \E a \in Accounts : GetBalance(ledger, a, d) = NoAnswer
    \/ GetSupply(d) = SumFunction([a \in Accounts |-> GetBalance(ledger, a, d)])

\* No account ever holds native coins under a denomination that names a
\* contract: GetBalance would not show them and SendCoins not send them.
\* MultiSend, which does not call ParseDenom, must not create them.
NoShadowCoins ==
  \A d \in Denoms, a \in Accounts :
    TokenType(d) # "Cosmos" => work[NativeToken(d)][a] = 0 /\ ledger[NativeToken(d)][a] = 0

\* A transaction of messages never credits a blocked address and never moves a
\* native coin whose transfers are disabled, by MsgSend or by MsgMultiSend.
MessagesObeyPolicy ==
  [][tx = "msg" =>
       /\ \A t \in Tokens, a \in Blocked : ledger'[t][a] <= ledger[t][a]
       /\ \A d \in Denoms \ SendEnabled : ledger'[NativeToken(d)] = ledger[NativeToken(d)]]_vars

\* While a send runs, in any of the ledgers, only the account that signed the
\* message or called the precompile pays.
OnlyCallerPays ==
  [][call # NoCall /\ call' = call =>
       \A t \in Tokens, a \in Accounts \ {call.caller} : work'[t][a] >= work[t][a]]_vars
=============================================================================
