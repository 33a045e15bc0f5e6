----------------------------- MODULE BankProofs -----------------------------
(***************************************************************************)
(* Proofs about Bank, for all accounts, denominations, contracts and       *)
(* amounts: balances stay naturals, no native coins appear under the name  *)
(* of a contract, only the caller of a send pays, the views of the router  *)
(* agree, sends are all or nothing, and messages obey the bank's policy.   *)
(***************************************************************************)
EXTENDS Bank, SetLemmas

\* Balances without shadow coins.
Clean(b) ==
  /\ b \in Balances
  /\ \A d \in Denoms, a \in Accounts : TokenType(d) # "Cosmos" => b[NativeToken(d)][a] = 0

\* The inductive invariant: all three copies of the balances are clean (the
\* snapshot too, because a failed call restores it), and a send runs inside a
\* transaction and was started by the account it takes from.
Inv ==
  /\ TypeOK
  /\ Clean(ledger) /\ Clean(work) /\ Clean(snapshot)
  /\ call # NoCall => call.caller = call.from /\ tx # "none"

\* The keys of the ledgers: a contract token is no native one, and native ones
\* are told apart by their names.
LEMMA TokenFacts ==
  ASSUME NEW d \in Denoms
  PROVE  /\ ParseDenom(d) \in Tokens /\ NativeToken(d) \in Tokens
         /\ TokenType(d) = "Cosmos" => ParseDenom(d) = NativeToken(d)
         /\ TokenType(d) # "Cosmos" => \A e \in Denoms : ParseDenom(d) # NativeToken(e)
         /\ \A e \in Denoms : NativeToken(d) = NativeToken(e) => d = e
<1>1. ParseDenom(d) \in Tokens /\ NativeToken(d) \in Tokens
  BY DEF Tokens
<1>2. TokenType(d) = "Cosmos" => ParseDenom(d) = NativeToken(d)
  BY DEF TokenType, ParseDenom
<1>3. TokenType(d) # "Cosmos" => \A e \in Denoms : ParseDenom(d) # NativeToken(e)
  BY DEF TokenType, NativeToken
<1>4. \A e \in Denoms : NativeToken(d) = NativeToken(e) => d = e
  BY BankAssumption DEF NativeToken
<1> QED
  BY <1>1, <1>2, <1>3, <1>4

\* One transfer within the sender's balance: balances stay naturals, other
\* tokens stay as they are, and nobody but the sender has less.
LEMMA MovedFacts ==
  ASSUME NEW b \in Balances, NEW t \in Tokens, NEW from \in Accounts,
         NEW to \in Accounts, NEW n \in Nat, n <= b[t][from]
  PROVE  /\ Moved(b, t, from, to, n) \in Balances
         /\ \A u \in Tokens \ {t} : Moved(b, t, from, to, n)[u] = b[u]
         /\ \A a \in Accounts \ {from} : Moved(b, t, from, to, n)[t][a] >= b[t][a]
<1> DEFINE row == [b[t] EXCEPT ![from] = @ - n]
           row2 == [row EXCEPT ![to] = @ + n]
<1>1. b[t] \in [Accounts -> Nat] /\ b[t][from] - n \in Nat
  BY DEF Balances
<1>2. row \in [Accounts -> Nat] /\ \A a \in Accounts \ {from} : row[a] = b[t][a]
  BY <1>1
<1>3. /\ row2 \in [Accounts -> Nat]
      /\ \A a \in Accounts : row2[a] >= row[a]
  BY <1>2
<1>4. Moved(b, t, from, to, n) = [b EXCEPT ![t] = row2]
  BY Zenon DEF Moved, Balances
<1> HIDE DEF row, row2
<1>5. \A a \in Accounts \ {from} : row2[a] >= b[t][a]
  BY <1>2, <1>3
<1> QED
  BY <1>3, <1>4, <1>5 DEF Balances

\* The initial balances are clean.
LEMMA InitInv == Init => Inv
<1> SUFFICES ASSUME Init PROVE Inv
  OBVIOUS
<1>1. \A t \in Tokens, a \in Accounts : Holding(t, a) \in Nat
  BY HoldingsAssumption DEF Holding
<1>2. ledger \in Balances
  BY <1>1 DEF Init, Balances
<1>3. ASSUME NEW d \in Denoms, NEW a \in Accounts, TokenType(d) # "Cosmos"
      PROVE  Holding(NativeToken(d), a) = 0
  <2>1. NativeToken(d) \notin Deployed
    BY HoldingsAssumption DEF NativeToken
  <2>2. NativeToken(d) # ParseDenom(d)
    BY <1>3, TokenFacts
  <2> QED
    BY <2>1, <2>2, HoldingsAssumption DEF Holding
<1>4. Clean(ledger)
  BY <1>2, <1>3, TokenFacts DEF Clean, Init
<1> QED
  BY <1>2, <1>4 DEF Inv, Init, TypeOK

\* Balances stay clean when the native balances under contract names stay.
LEMMA CleanKept ==
  ASSUME NEW b, NEW c \in Balances, Clean(b),
         \A d \in Denoms : TokenType(d) # "Cosmos" => c[NativeToken(d)] = b[NativeToken(d)]
  PROVE  Clean(c)
  BY DEF Clean

\* A transfer of a contract's token keeps balances clean.
LEMMA TransferInv ==
  ASSUME Inv, NEW d \in todo, TokenType(d) # "Cosmos",
         work[ParseDenom(d)][call.from] >= call.coins[d], Transfer(d)
  PROVE  Inv'
<1>1. /\ call.from \in Accounts /\ call.to \in Accounts
      /\ d \in Denoms /\ call.coins[d] \in Nat
  BY DEF Inv, TypeOK
<1>2. /\ ParseDenom(d) \in Tokens
      /\ \A e \in Denoms : ParseDenom(d) # NativeToken(e) /\ NativeToken(e) \in Tokens
  BY <1>1, TokenFacts
<1>3. work \in Balances /\ work' = Moved(work, ParseDenom(d), call.from, call.to, call.coins[d])
  BY DEF Inv, Clean, Transfer
<1>4. /\ work' \in Balances
      /\ \A u \in Tokens \ {ParseDenom(d)} : work'[u] = work[u]
  BY <1>1, <1>2, <1>3, MovedFacts
<1>5. Clean(work')
  BY <1>2, <1>4, CleanKept DEF Inv
<1> QED
  BY <1>4, <1>5 DEF Inv, TypeOK, Transfer

\* BaseKeeper.SendCoins moves native coins only, and for each at most what the
\* sender has.
LEMMA SendCosmosFacts ==
  ASSUME Inv, SendCosmos
  PROVE  /\ work' \in Balances
         /\ \A d \in Denoms : TokenType(d) # "Cosmos" => work'[NativeToken(d)] = work[NativeToken(d)]
         /\ \A t \in Tokens, a \in Accounts \ {call.from} : work'[t][a] >= work[t][a]
<1> DEFINE coins == Left("Cosmos")
           of(t) == {d \in coins : NativeToken(d) = t}
<1>1. /\ call.from \in Accounts /\ call.to \in Accounts
      /\ work \in Balances
      /\ \A d \in coins : /\ d \in Denoms /\ call.coins[d] \in Nat
                         /\ TokenType(d) = "Cosmos"
                         /\ work[NativeToken(d)][call.from] >= call.coins[d]
  BY DEF Inv, TypeOK, Clean, SendCosmos, Left
<1>2. \A t \in Tokens :
        \/ of(t) = {} /\ work'[t] = work[t]
        \/ \E d \in of(t) : work'[t] = Moved(work, t, call.from, call.to, call.coins[d])[t]
  BY DEF SendCosmos
<1>3. ASSUME NEW t \in Tokens
      PROVE  /\ work'[t] \in [Accounts -> Nat]
             /\ \A a \in Accounts \ {call.from} : work'[t][a] >= work[t][a]
  <2>1. CASE work'[t] = work[t]
    BY <1>1, <2>1 DEF Balances
  <2>2. ASSUME NEW d \in of(t),
               work'[t] = Moved(work, t, call.from, call.to, call.coins[d])[t]
        PROVE  <1>3!2
    <3>1. /\ call.coins[d] \in Nat /\ call.coins[d] <= work[t][call.from]
      BY <1>1
    <3>2. /\ Moved(work, t, call.from, call.to, call.coins[d]) \in Balances
          /\ \A a \in Accounts \ {call.from} :
               Moved(work, t, call.from, call.to, call.coins[d])[t][a] >= work[t][a]
      BY <1>1, <3>1, MovedFacts
    <3> QED
      BY <2>2, <3>2 DEF Balances
  <2> QED
    BY <1>2, <2>1, <2>2
<1>4. work' \in Balances
  BY <1>3 DEF SendCosmos, Balances
<1>5. ASSUME NEW d \in Denoms, TokenType(d) # "Cosmos"
      PROVE  work'[NativeToken(d)] = work[NativeToken(d)]
  <2>1. of(NativeToken(d)) = {}
    BY <1>1, <1>5, TokenFacts
  <2> QED
    BY <1>2, <2>1, TokenFacts
<1> QED
  BY <1>3, <1>4, <1>5

\* MultiSend: the input has what the outputs get, so it cannot be of a
\* denomination that names a contract, of which nobody has native coins.
LEMMA MultiSendInv ==
  ASSUME Inv, NEW from \in Accounts, NEW tos \in Seq(Accounts), Len(tos) \in {1, 2},
         NEW d \in Denoms, NEW n \in Int, MultiSend(from, tos, d, n)
  PROVE  Inv'
<1> DEFINE t == NativeToken(d)
           at(a) == {i \in DOMAIN tos : tos[i] = a}
           out(a) == n * Cardinality(at(a))
           in == n * Len(tos)
<1>1. n > 0 /\ in \in Nat /\ in > 0
  <2>1. n > 0 /\ n \in Nat
    BY DEF MultiSend
  <2>2. in = n \/ in = n + n
    <3>1. CASE Len(tos) = 1
      BY <2>1, <3>1
    <3>2. CASE Len(tos) = 2
      BY <2>1, <3>2
    <3> QED
      BY <3>1, <3>2
  <2> QED
    BY <2>1, <2>2
<1>2. \A a \in Accounts : out(a) \in Nat
  <2> TAKE a \in Accounts
  <2>1. IsFiniteSet(DOMAIN tos)
    <3>1. DOMAIN tos = 1..Len(tos)
      OBVIOUS
    <3> QED
      BY <3>1, FS_Interval
  <2>2. IsFiniteSet(at(a))
    BY <2>1, FS_Subset
  <2>3. Cardinality(at(a)) \in Nat
    BY <2>2, FS_CardinalityType
  <2> QED
    BY <1>1, <2>3
<1>3. /\ work \in Balances /\ t \in Tokens
      /\ work[t][from] >= in
      /\ work' = [work EXCEPT ![t] = [a \in Accounts |->
                    work[t][a] + out(a) - IF a = from THEN in ELSE 0]]
      /\ UNCHANGED <<ledger, snapshot, tx, call, todo>>
  BY TokenFacts DEF MultiSend, Inv, Clean
<1>4. TokenType(d) = "Cosmos"
  BY <1>1, <1>3 DEF Inv, Clean
<1> HIDE DEF out, in, at
<1>5. [a \in Accounts |-> work[t][a] + out(a) - IF a = from THEN in ELSE 0] \in [Accounts -> Nat]
  <2> SUFFICES ASSUME NEW a \in Accounts
               PROVE  work[t][a] + out(a) - (IF a = from THEN in ELSE 0) \in Nat
    OBVIOUS
  <2>1. work[t][a] \in Nat /\ out(a) \in Nat /\ in \in Nat
    BY <1>1, <1>2, <1>3 DEF Balances
  <2> QED
    BY <1>3, <2>1
<1>6. work' \in Balances
  BY <1>3, <1>5 DEF Balances
<1>7. \A e \in Denoms : TokenType(e) # "Cosmos" => work'[NativeToken(e)] = work[NativeToken(e)]
  BY <1>3, <1>4, TokenFacts DEF Balances
<1>8. Clean(work')
  BY <1>6, <1>7, CleanKept DEF Inv
<1> QED
  BY <1>3, <1>6, <1>8 DEF Inv, TypeOK

\* Entering SendCoins with positive amounts of known denominations.
LEMMA StartSendInv ==
  ASSUME Inv, NEW from \in Accounts, NEW to \in Accounts, NEW coins,
         \A d \in DOMAIN coins : d \in Denoms /\ coins[d] \in Nat \ {0},
         StartSend([caller |-> from, from |-> from, to |-> to, coins |-> coins])
  PROVE  Inv'
  BY DEF Inv, TypeOK, StartSend, Open

\* The wasm precompile enters SendCoins for its caller.
LEMMA FundContractInv ==
  ASSUME Inv, NEW caller \in Accounts, NEW from \in Accounts, NEW contract,
         NEW coins \in CoinLists, FundContract(caller, from, contract, coins)
  PROVE  Inv'
<1>1. \A d \in DOMAIN GetCoins(coins) : d \in Denoms /\ GetCoins(coins)[d] \in Nat \ {0}
  BY BankAssumption DEF FundContract, GetCoins
<1>2. /\ caller = from /\ contract \in Accounts
      /\ StartSend([caller |-> caller, from |-> from, to |-> contract, coins |-> GetCoins(coins)])
  BY BankAssumption DEF FundContract, ValidateSigner
<1> QED
  BY <1>1, <1>2, StartSendInv

\* Every step keeps the invariant.
LEMMA NextInv == Inv /\ [Next]_vars => Inv'
<1> SUFFICES ASSUME Inv, [Next]_vars PROVE Inv'
  OBVIOUS
<1>1. ASSUME NEW kind \in {"msg", "evm"}, BeginTx(kind)
      PROVE  Inv'
  BY <1>1 DEF Inv, TypeOK, BeginTx
<1>2. ASSUME NEW from \in Accounts, NEW to \in Accounts, NEW coins \in CoinLists,
             Send(from, to, coins)
      PROVE  Inv'
  <2>1. \A d \in DOMAIN coins : d \in Denoms /\ coins[d] \in Nat \ {0}
    BY <1>2, BankAssumption DEF Send, Valid
  <2> QED
    BY <1>2, <2>1, StartSendInv DEF Send
<1>3. ASSUME NEW from \in Accounts, NEW to \in Accounts, NEW coins \in CoinLists,
             NEW caller \in Accounts, PrecompileSend(caller, from, to, coins)
      PROVE  Inv'
  <2>1. \A d \in DOMAIN GetCoins(coins) : d \in Denoms /\ GetCoins(coins)[d] \in Nat \ {0}
    BY <1>3, BankAssumption DEF PrecompileSend, GetCoins
  <2>2. /\ caller = from
        /\ StartSend([caller |-> caller, from |-> from, to |-> to, coins |-> GetCoins(coins)])
    BY <1>3 DEF PrecompileSend, ValidateSigner
  <2> QED
    BY <2>1, <2>2, StartSendInv
<1>3a. ASSUME NEW caller \in Accounts, NEW from \in Accounts, NEW coins \in CoinLists,
              \/ instantiateContract(caller, from, coins)
              \/ \E address \in Accounts \cup DOMAIN SliceAddresses :
                   executeContract(caller, from, address, coins)
       PROVE  Inv'
  BY <1>3a, FundContractInv DEF instantiateContract, executeContract
<1>4. ASSUME NEW d \in Denoms, SendErc20(d) \/ SendCw20(d)
      PROVE  Inv'
  <2>1. /\ d \in todo /\ TokenType(d) # "Cosmos"
        /\ work[ParseDenom(d)][call.from] >= call.coins[d]
        /\ Transfer(d)
    BY <1>4 DEF SendErc20, SendCw20, Left, CanTransfer
  <2> QED
    BY <2>1, TransferInv
<1>5. CASE SendCosmos
  <2>1. work' \in Balances /\ Clean(work')
    BY <1>5, SendCosmosFacts, CleanKept DEF Inv
  <2> QED
    BY <1>5, <2>1 DEF Inv, TypeOK, SendCosmos
<1>6. CASE SendFails
  BY <1>6 DEF Inv, TypeOK, SendFails, Drop
<1>7. CASE SendReturns
  BY <1>7 DEF Inv, TypeOK, SendReturns
<1>8. ASSUME NEW from \in Accounts, NEW a \in Accounts, NEW b \in Accounts,
             NEW coins \in CoinLists, NEW d \in DOMAIN coins,
             MultiSend(from, <<a>>, d, coins[d]) \/ MultiSend(from, <<a, b>>, d, coins[d])
      PROVE  Inv'
  <2>1. d \in Denoms /\ coins[d] \in Int
    BY BankAssumption
  <2>2. CASE MultiSend(from, <<a>>, d, coins[d])
    <3>1. <<a>> \in Seq(Accounts) /\ Len(<<a>>) \in {1, 2}
      OBVIOUS
    <3> QED
      BY <2>1, <2>2, <3>1, MultiSendInv
  <2>3. CASE MultiSend(from, <<a, b>>, d, coins[d])
    <3>1. <<a, b>> \in Seq(Accounts) /\ Len(<<a, b>>) \in {1, 2}
      OBVIOUS
    <3> QED
      BY <2>1, <2>3, <3>1, MultiSendInv, Zenon
  <2> QED
    BY <1>8, <2>2, <2>3
<1>9. CASE CommitTx \/ AbortTx
  BY <1>9 DEF Inv, TypeOK, CommitTx, AbortTx, Drop, Open
<1>10. CASE UNCHANGED vars
  BY <1>10 DEF Inv, TypeOK, vars
<1> QED
  BY <1>1, <1>2, <1>3, <1>3a, <1>4, <1>5, <1>6, <1>7, <1>8, <1>9, <1>10, Zenon DEF Next

\* Inv holds in every reachable state.
LEMMA Invariance == Spec => []Inv
  BY InitInv, NextInv, PTL DEF Spec

\* Balances are naturals and running sends carry positive amounts, whatever
\* coin lists messages and contracts pass.
THEOREM TypeCorrect == Spec => []TypeOK
<1>1. Inv => TypeOK
  BY DEF Inv
<1> QED
  BY <1>1, Invariance, PTL

\* Nobody ever holds native coins under a denomination that names a contract,
\* although MultiSend does not route: its balance check fails on them, since
\* no step creates the first one.
THEOREM NoShadows == Spec => []NoShadowCoins
<1>1. Inv => NoShadowCoins
  BY DEF Inv, Clean, NoShadowCoins
<1> QED
  BY <1>1, Invariance, PTL

\* In the three ledgers alike, a running send takes from its caller only.
THEOREM CallerPays == Spec => OnlyCallerPays
<1> DEFINE Pays == call # NoCall /\ call' = call =>
             \A t \in Tokens, a \in Accounts \ {call.caller} : work'[t][a] >= work[t][a]
<1>1. Inv /\ [Next]_vars => [Pays]_vars
  <2> SUFFICES ASSUME Inv, Next, call # NoCall, call' = call,
                      NEW t \in Tokens, NEW a \in Accounts, a # call.caller
               PROVE  work'[t][a] >= work[t][a]
    OBVIOUS
  <2>1. call.caller = call.from /\ work[t][a] \in Nat
    BY DEF Inv, TypeOK, Balances
  <2>2. ASSUME NEW d \in Denoms, SendErc20(d) \/ SendCw20(d)
        PROVE  work'[t][a] >= work[t][a]
    <3>1. /\ d \in todo
          /\ work[ParseDenom(d)][call.from] >= call.coins[d]
          /\ work' = Moved(work, ParseDenom(d), call.from, call.to, call.coins[d])
      BY <2>2 DEF SendErc20, SendCw20, Left, CanTransfer, Transfer
    <3>2. /\ work \in Balances /\ call.from \in Accounts /\ call.to \in Accounts
          /\ call.coins[d] \in Nat /\ ParseDenom(d) \in Tokens
      BY <3>1, TokenFacts DEF Inv, TypeOK
    <3>3. /\ \A u \in Tokens \ {ParseDenom(d)} : work'[u] = work[u]
          /\ \A c \in Accounts \ {call.from} :
               work'[ParseDenom(d)][c] >= work[ParseDenom(d)][c]
      BY <3>1, <3>2, MovedFacts, SMTT(30)
    <3> QED
      BY <2>1, <3>3
  <2>3. CASE SendCosmos
    BY <2>1, <2>3, SendCosmosFacts
  <2>3a. ~Open
    BY DEF Open
  <2>3b. ASSUME NEW from, NEW to, NEW coins  PROVE ~Send(from, to, coins)
    BY <2>3a DEF Send, StartSend
  <2>3c. ASSUME NEW caller, NEW from, NEW to, NEW coins
         PROVE  ~PrecompileSend(caller, from, to, coins)
    BY <2>3a DEF PrecompileSend, StartSend
  <2>3d. ASSUME NEW from, NEW tos, NEW d, NEW n  PROVE ~MultiSend(from, tos, d, n)
    BY <2>3a, Zenon DEF MultiSend
  <2>3e. ASSUME NEW caller, NEW from, NEW contract, NEW coins
         PROVE  ~FundContract(caller, from, contract, coins)
    BY <2>3a DEF FundContract, StartSend
  <2>3f. ASSUME NEW caller, NEW from, NEW coins
         PROVE  /\ ~instantiateContract(caller, from, coins)
                /\ \A address : ~executeContract(caller, from, address, coins)
    BY <2>3e DEF instantiateContract, executeContract
  <2>4. ~CommitTx /\ ~AbortTx
    BY <2>3a DEF CommitTx, AbortTx
  <2>5. \A kind : ~BeginTx(kind)
    BY DEF BeginTx, Inv
  <2>6. ~SendFails /\ ~SendReturns
    BY DEF SendFails, SendReturns, Drop
  <2> QED
    BY <2>2, <2>3, <2>3b, <2>3c, <2>3d, <2>3f, <2>4, <2>5, <2>6, Zenon DEF Next
<1> QED
  BY <1>1, Invariance, PTL DEF Spec, OnlyCallerPays

-----------------------------------------------------------------------------
(* Conservation, and the two views of the router.                          *)

\* One transfer, account by account, and over all accounts.
LEMMA MovedNet ==
  ASSUME NEW b \in Balances, NEW t \in Tokens, NEW from \in Accounts,
         NEW to \in Accounts, NEW n \in Nat, n <= b[t][from]
  PROVE  /\ \A a \in Accounts :
              Moved(b, t, from, to, n)[t][a]
                = b[t][a] + (IF to = a THEN n ELSE 0) - (IF from = a THEN n ELSE 0)
         /\ SumFunctionOnSet(Moved(b, t, from, to, n)[t], Accounts)
              = SumFunctionOnSet(b[t], Accounts)
<1> DEFINE f == b[t]
           g == [f EXCEPT ![from] = @ - n]
           h == [g EXCEPT ![to] = @ + n]
<1>1. f \in [Accounts -> Nat] /\ f[from] - n \in Nat
  BY DEF Balances
<1>2. /\ g \in [Accounts -> Nat] /\ g[from] = f[from] - n
      /\ \A a \in Accounts \ {from} : g[a] = f[a]
  BY <1>1
<1>3. /\ h \in [Accounts -> Nat] /\ h[to] = g[to] + n
      /\ \A a \in Accounts \ {to} : h[a] = g[a]
  BY <1>2
<1>4. Moved(b, t, from, to, n)[t] = h
  <2>1. Moved(b, t, from, to, n) = [b EXCEPT ![t] = h]
    BY Zenon DEF Moved, Balances
  <2> QED
    BY <2>1 DEF Balances
<1>5. IsFiniteSet(Accounts)
  BY BankAssumption, Zenon
<1> HIDE DEF f, g, h
<1>6. \A a \in Accounts : h[a] = f[a] + (IF to = a THEN n ELSE 0) - (IF from = a THEN n ELSE 0)
  BY <1>1, <1>2, <1>3
<1>7. /\ SumFunctionOnSet(g, Accounts) = SumFunctionOnSet(f, Accounts) - f[from] + g[from]
      /\ SumFunctionOnSet(h, Accounts) = SumFunctionOnSet(g, Accounts) - g[to] + h[to]
  <2>1. \A a \in Accounts : f[a] \in Int /\ g[a] \in Int /\ h[a] \in Int
    BY <1>1, <1>2, <1>3
  <2>2. SumFunctionOnSet(g, Accounts) = SumFunctionOnSet(f, Accounts) - f[from] + g[from]
    BY <1>2, <1>5, <2>1, SumChange
  <2>3. SumFunctionOnSet(h, Accounts) = SumFunctionOnSet(g, Accounts) - g[to] + h[to]
    BY <1>3, <1>5, <2>1, SumChange
  <2> QED
    BY <2>2, <2>3
<1>8. SumFunctionOnSet(f, Accounts) \in Nat /\ SumFunctionOnSet(g, Accounts) \in Nat
  BY <1>1, <1>2, <1>5, SumNat
<1>9. SumFunctionOnSet(h, Accounts) = SumFunctionOnSet(f, Accounts)
  <2>1. g[to] \in Nat /\ f[from] \in Nat
    BY <1>1, <1>2
  <2> QED
    BY <1>2, <1>3, <1>7, <1>8, <2>1
<1> QED
  BY <1>4, <1>6, <1>9 DEF f

\* The balance of one account after a transfer.
LEMMA MovedAt ==
  ASSUME NEW b \in Balances, NEW t \in Tokens, NEW from \in Accounts,
         NEW to \in Accounts, NEW n \in Nat, n <= b[t][from], NEW a \in Accounts
  PROVE  Moved(b, t, from, to, n)[t][a]
           = b[t][a] + (IF to = a THEN n ELSE 0) - (IF from = a THEN n ELSE 0)
BY MovedNet, SMTT(30)

\* The number of outputs an account is named in.
Count(tos, x) == Cardinality({i \in DOMAIN tos : tos[i] = x})

\* It is at most one for a single output.
LEMMA OneOutput ==
  ASSUME NEW a, NEW x
  PROVE  Count(<<a>>, x) = IF a = x THEN 1 ELSE 0
<1>1. Cardinality({}) = 0 /\ Cardinality({1}) = 1
  BY FS_EmptySet, FS_Singleton, Zenon
<1>2. {i \in DOMAIN <<a>> : <<a>>[i] = x} = IF a = x THEN {1} ELSE {}
  OBVIOUS
<1> QED
  BY <1>1, <1>2 DEF Count

\* And the sum of both for two.
LEMMA TwoOutputs ==
  ASSUME NEW a, NEW b, NEW x
  PROVE  Count(<<a, b>>, x) = (IF a = x THEN 1 ELSE 0) + (IF b = x THEN 1 ELSE 0)
<1>1. Cardinality({}) = 0 /\ Cardinality({1}) = 1 /\ Cardinality({2}) = 1
  BY FS_EmptySet, FS_Singleton, Zenon
<1>2. Cardinality({1, 2}) = 2
  <2>1. IsFiniteSet({1})
    BY FS_Singleton, Zenon
  <2>2. {1, 2} = {1} \cup {2} /\ 2 \notin {1}
    OBVIOUS
  <2> QED
    BY <1>1, <2>1, <2>2, FS_AddElement
<1>3. {i \in DOMAIN <<a, b>> : <<a, b>>[i] = x}
        = (IF a = x THEN {1} ELSE {}) \cup (IF b = x THEN {2} ELSE {})
  OBVIOUS
<1>4. CASE a = x /\ b = x
  <2>1. {i \in DOMAIN <<a, b>> : <<a, b>>[i] = x} = {1, 2}
    BY <1>3, <1>4
  <2> QED
    BY <1>2, <1>4, <2>1 DEF Count
<1>5. CASE ~(a = x /\ b = x)
  <2>1. {i \in DOMAIN <<a, b>> : <<a, b>>[i] = x}
          = IF a = x THEN {1} ELSE IF b = x THEN {2} ELSE {}
    BY <1>3, <1>5
  <2> QED
    BY <1>1, <1>5, <2>1 DEF Count
<1> QED
  BY <1>4, <1>5

\* Two states of the balances are the same if they agree account by account.
LEMMA SameBalances ==
  ASSUME NEW b \in Balances, NEW c \in Balances,
         \A t \in Tokens, a \in Accounts : b[t][a] = c[t][a]
  PROVE  b = c
<1>1. \A t \in Tokens : b[t] = c[t]
  BY DEF Balances
<1> QED
  BY <1>1 DEF Balances

\* MultiSend is one transfer per output.
LEMMA MultiSendMoves ==
  ASSUME Inv, NEW from \in Accounts, NEW a \in Accounts, NEW b \in Accounts,
         NEW d \in Denoms, NEW n \in Int, NEW tos, MultiSend(from, tos, d, n)
  PROVE  /\ tos = <<a>> =>
              /\ n \in Nat \ {0} /\ n <= work[NativeToken(d)][from]
              /\ work' = Moved(work, NativeToken(d), from, a, n)
         /\ tos = <<a, b>> =>
              /\ n \in Nat \ {0} /\ n <= work[NativeToken(d)][from]
              /\ Moved(work, NativeToken(d), from, a, n) \in Balances
              /\ n <= Moved(work, NativeToken(d), from, a, n)[NativeToken(d)][from]
              /\ work' = Moved(Moved(work, NativeToken(d), from, a, n), NativeToken(d), from, b, n)
<1> DEFINE t == NativeToken(d)
           once == Moved(work, t, from, a, n)
<1>1. t \in Tokens /\ work \in Balances /\ work[t][from] \in Nat
  BY TokenFacts DEF Inv, TypeOK, Balances
<1>2. ASSUME tos = <<a>>
      PROVE  n \in Nat \ {0} /\ n <= work[t][from] /\ work' = once
  <2>1. /\ n > 0 /\ work[t][from] >= n * 1
        /\ work' = [work EXCEPT ![t] = [x \in Accounts |->
                       work[t][x] + n * Count(<<a>>, x)
                                  - IF x = from THEN n * 1 ELSE 0]]
    BY <1>2, <1>1 DEF MultiSend, Count
  <2>2. n \in Nat \ {0} /\ n <= work[t][from]
    BY <1>1, <2>1
  <2>3. work' \in Balances
    <3>1. <<a>> \in Seq(Accounts) /\ Len(<<a>>) \in {1, 2}
      OBVIOUS
    <3> QED
      BY <1>2, <3>1, MultiSendInv, Zenon DEF Inv, TypeOK
  <2>4. /\ once \in Balances /\ \A u \in Tokens \ {t} : once[u] = work[u]
        /\ \A x \in Accounts : once[t][x] = work[t][x] + (IF a = x THEN n ELSE 0)
                                              - (IF from = x THEN n ELSE 0)
    BY <1>1, <2>2, MovedFacts, MovedNet
  <2> HIDE DEF once
  <2>5. ASSUME NEW x \in Accounts PROVE work'[t][x] = once[t][x]
    <3> DEFINE k == Count(<<a>>, x)
    <3>0. k = IF a = x THEN 1 ELSE 0
      BY OneOutput
    <3>1. work'[t][x] = work[t][x] + n * k - (IF x = from THEN n * 1 ELSE 0)
      BY <1>1, <2>1 DEF Balances
    <3> HIDE DEF k
    <3>2. n * 1 = n /\ n * 0 = 0 /\ work[t][x] \in Nat
      BY <1>1, <2>2 DEF Balances
    <3> QED
      BY <2>2, <2>4, <3>0, <3>1, <3>2
  <2>6. \A u \in Tokens, x \in Accounts : work'[u][x] = once[u][x]
    BY <1>1, <2>1, <2>4, <2>5 DEF Balances
  <2> QED
    BY <2>2, <2>3, <2>4, <2>6, SameBalances
<1>3. ASSUME tos = <<a, b>>
      PROVE  /\ n \in Nat \ {0} /\ n <= work[t][from]
             /\ once \in Balances /\ n <= once[t][from]
             /\ work' = Moved(once, t, from, b, n)
  <2> DEFINE twice == Moved(once, t, from, b, n)
  <2>1. /\ n > 0 /\ work[t][from] >= n * 2
        /\ work' = [work EXCEPT ![t] = [x \in Accounts |->
                       work[t][x] + n * Count(<<a, b>>, x)
                                  - IF x = from THEN n * 2 ELSE 0]]
    BY <1>3, <1>1 DEF MultiSend, Count
  <2>2. n \in Nat \ {0} /\ n <= work[t][from] /\ n * 2 = n + n
    BY <1>1, <2>1
  <2>3. work' \in Balances
    <3>1. <<a, b>> \in Seq(Accounts) /\ Len(<<a, b>>) \in {1, 2}
      OBVIOUS
    <3> QED
      BY <1>3, <3>1, MultiSendInv, Zenon DEF Inv, TypeOK
  <2>4. /\ once \in Balances /\ \A u \in Tokens \ {t} : once[u] = work[u]
        /\ \A x \in Accounts : once[t][x] = work[t][x] + (IF a = x THEN n ELSE 0)
                                              - (IF from = x THEN n ELSE 0)
    BY <1>1, <2>2, MovedFacts, MovedNet
  <2> HIDE DEF once
  <2>5. n <= once[t][from]
    BY <1>1, <2>1, <2>2, <2>4, SMTT(30)
  <2>6. /\ twice \in Balances /\ \A u \in Tokens \ {t} : twice[u] = once[u]
        /\ \A x \in Accounts : twice[t][x] = once[t][x] + (IF b = x THEN n ELSE 0)
                                               - (IF from = x THEN n ELSE 0)
    BY <1>1, <2>2, <2>4, <2>5, MovedFacts, MovedNet, SMTT(30)
  <2> HIDE DEF twice
  <2>7. ASSUME NEW x \in Accounts PROVE work'[t][x] = twice[t][x]
    <3> DEFINE k == Count(<<a, b>>, x)
    <3>0. k = (IF a = x THEN 1 ELSE 0) + (IF b = x THEN 1 ELSE 0)
      BY TwoOutputs
    <3>1. work'[t][x] = work[t][x] + n * k - (IF x = from THEN n * 2 ELSE 0)
      BY <1>1, <2>1 DEF Balances
    <3> HIDE DEF k
    <3>2. n * k = (IF a = x THEN n ELSE 0) + (IF b = x THEN n ELSE 0)
      BY <2>2, <3>0
    <3>3. work[t][x] \in Nat
      BY <1>1 DEF Balances
    <3> QED
      BY <2>2, <2>4, <2>6, <3>1, <3>2, <3>3
  <2>8. \A u \in Tokens, x \in Accounts : work'[u][x] = twice[u][x]
    BY <1>1, <2>1, <2>4, <2>6, <2>7, Zenon DEF Balances
  <2>9. work' = twice
    BY <2>3, <2>6, <2>8, SameBalances
  <2> QED
    BY <2>2, <2>4, <2>5, <2>9 DEF twice
<1> QED
  BY <1>2, <1>3 DEF t, once

\* What SendCosmos does to each token.
LEMMA SendCosmosRows ==
  ASSUME Inv, SendCosmos, NEW t \in Tokens
  PROVE  /\ call.from \in Accounts /\ call.to \in Accounts
         /\ \/ /\ \A d \in Left("Cosmos") : NativeToken(d) # t
               /\ work'[t] = work[t]
            \/ \E d \in Left("Cosmos") :
                 /\ NativeToken(d) = t /\ d \in Denoms
                 /\ call.coins[d] \in Nat /\ call.coins[d] <= work[t][call.from]
                 /\ work'[t] = Moved(work, t, call.from, call.to, call.coins[d])[t]
<1> DEFINE coins == Left("Cosmos")
           ds == {d \in coins : NativeToken(d) = t}
<1>1. /\ call.from \in Accounts /\ call.to \in Accounts
      /\ \A d \in coins : /\ d \in Denoms /\ call.coins[d] \in Nat
                         /\ work[NativeToken(d)][call.from] >= call.coins[d]
  BY DEF Inv, TypeOK, Clean, SendCosmos, Left
<1>2. \/ ds = {} /\ work'[t] = work[t]
      \/ \E d \in ds : work'[t] = Moved(work, t, call.from, call.to, call.coins[d])[t]
  BY DEF SendCosmos
<1>3. CASE ds = {} /\ work'[t] = work[t]
  BY <1>1, <1>3
<1>4. ASSUME NEW d \in ds, work'[t] = Moved(work, t, call.from, call.to, call.coins[d])[t]
      PROVE  \E e \in Left("Cosmos") :
               /\ NativeToken(e) = t /\ e \in Denoms
               /\ call.coins[e] \in Nat /\ call.coins[e] <= work[t][call.from]
               /\ work'[t] = Moved(work, t, call.from, call.to, call.coins[e])[t]
  <2>1. d \in coins /\ NativeToken(d) = t
    OBVIOUS
  <2>2. call.coins[d] \in Nat /\ call.coins[d] <= work[t][call.from] /\ d \in Denoms
    BY <1>1, <2>1 DEF Inv, TypeOK, Balances
  <2> QED
    BY <1>4, <2>1, <2>2, Zenon
<1> QED
  BY <1>1, <1>2, <1>3, <1>4, Zenon

\* All that there is of a token is what there was at the start.
Conserved(b) == \A t \in Tokens : SumFunctionOnSet(b[t], Accounts) = InitialSupply(t)

SupplyInv == Conserved(ledger) /\ Conserved(work) /\ Conserved(snapshot)

\* A transfer conserves every token.
LEMMA ConservedMove ==
  ASSUME NEW b \in Balances, Conserved(b), NEW t \in Tokens, NEW from \in Accounts,
         NEW to \in Accounts, NEW n \in Nat, n <= b[t][from]
  PROVE  Conserved(Moved(b, t, from, to, n))
<1> DEFINE m == Moved(b, t, from, to, n)
<1>1. \A u \in Tokens \ {t} : m[u] = b[u]
  BY MovedFacts
<1>2. SumFunctionOnSet(m[t], Accounts) = SumFunctionOnSet(b[t], Accounts)
  BY MovedNet, SMTT(30)
<1> HIDE DEF m
<1>3. \A u \in Tokens : SumFunctionOnSet(m[u], Accounts) = SumFunctionOnSet(b[u], Accounts)
  BY <1>1, <1>2
<1>4. Conserved(m)
  BY <1>3 DEF Conserved
<1> QED
  BY <1>4 DEF m

\* Every step conserves the tokens in all three copies of the balances.
LEMMA SupplyStep == Inv /\ SupplyInv /\ [Next]_vars => SupplyInv'
<1> SUFFICES ASSUME Inv, SupplyInv, [Next]_vars PROVE SupplyInv'
  OBVIOUS
<1>0. ASSUME ledger' \in {ledger, work}, snapshot' \in {snapshot, work}, Conserved(work')
      PROVE  SupplyInv'
  BY <1>0 DEF SupplyInv, Conserved
<1>1. ASSUME work' \in {work, ledger, snapshot},
             ledger' \in {ledger, work}, snapshot' \in {snapshot, work}
      PROVE  SupplyInv'
  BY <1>1 DEF SupplyInv, Conserved
<1>2. ASSUME NEW kind \in {"msg", "evm"}, BeginTx(kind)
      PROVE  SupplyInv'
  BY <1>1, <1>2 DEF BeginTx
<1>3. ASSUME NEW c, StartSend(c)
      PROVE  SupplyInv'
  BY <1>1, <1>3 DEF StartSend
<1>4. ASSUME NEW d \in Denoms, SendErc20(d) \/ SendCw20(d)
      PROVE  SupplyInv'
  <2>1. /\ d \in todo
        /\ work[ParseDenom(d)][call.from] >= call.coins[d]
        /\ work' = Moved(work, ParseDenom(d), call.from, call.to, call.coins[d])
        /\ UNCHANGED <<ledger, snapshot>>
    BY <1>4 DEF SendErc20, SendCw20, Left, CanTransfer, Transfer
  <2>2. /\ call.from \in Accounts /\ call.to \in Accounts /\ call.coins[d] \in Nat
        /\ work \in Balances /\ ParseDenom(d) \in Tokens
    BY <2>1, TokenFacts DEF Inv, TypeOK
  <2>3. call.coins[d] <= work[ParseDenom(d)][call.from]
    BY <2>1, <2>2 DEF Balances
  <2>4. Conserved(work')
    BY <2>1, <2>2, <2>3, ConservedMove DEF SupplyInv
  <2> QED
    BY <1>0, <2>1, <2>4, SMTT(30)
<1>5. CASE SendCosmos
  <2>1. ASSUME NEW t \in Tokens
        PROVE  SumFunctionOnSet(work'[t], Accounts) = SumFunctionOnSet(work[t], Accounts)
    <3>1. work \in Balances
      BY DEF Inv, TypeOK
    <3> QED
      BY <1>5, <3>1, SendCosmosRows, MovedNet
  <2>2. Conserved(work')
    BY <2>1 DEF SupplyInv, Conserved
  <2> QED
    BY <1>0, <1>5, <2>2, SMTT(30) DEF SendCosmos
<1>6. ASSUME NEW from \in Accounts, NEW a \in Accounts, NEW b \in Accounts,
             NEW d \in Denoms, NEW n \in Int, NEW tos, tos = <<a>> \/ tos = <<a, b>>,
             MultiSend(from, tos, d, n)
      PROVE  SupplyInv'
  <2> DEFINE t == NativeToken(d)
             once == Moved(work, t, from, a, n)
  <2>2. t \in Tokens /\ work \in Balances
    BY TokenFacts DEF Inv, TypeOK
  <2>3. UNCHANGED <<ledger, snapshot>>
    BY <1>6, Zenon DEF MultiSend
  <2>4. CASE tos = <<a>>
    <3>1. n \in Nat /\ n <= work[t][from] /\ work' = once
      BY <1>6, <2>4, MultiSendMoves
    <3>2. Conserved(once)
      BY <2>2, <3>1, ConservedMove DEF SupplyInv
    <3> QED
      BY <1>0, <2>3, <3>1, <3>2
  <2>5. CASE tos = <<a, b>>
    <3>1. /\ n \in Nat \ {0} /\ n <= work[t][from]
          /\ once \in Balances /\ n <= once[t][from]
          /\ work' = Moved(once, t, from, b, n)
      BY <1>6, <2>5, MultiSendMoves
    <3>2. Conserved(once)
      BY <2>2, <3>1, ConservedMove DEF SupplyInv
    <3> HIDE DEF once
    <3>3. Conserved(work')
      BY <2>2, <3>1, <3>2, ConservedMove
    <3> QED
      BY <1>0, <2>3, <3>3
  <2> QED
    BY <1>6, <2>4, <2>5, SMTT(30)
<1>7. CASE SendFails \/ SendReturns \/ CommitTx \/ AbortTx
  <2>1. /\ work' \in {work, ledger, snapshot} /\ ledger' \in {ledger, work}
        /\ snapshot' = snapshot
    BY <1>7 DEF SendFails, SendReturns, CommitTx, AbortTx, Drop
  <2> QED
    BY <1>1, <2>1
<1>8. CASE UNCHANGED vars
  BY <1>1, <1>8, SMTT(30) DEF vars
<1>9. ASSUME NEW caller, NEW from, NEW to, NEW coins,
             \/ Send(from, to, coins) \/ PrecompileSend(caller, from, to, coins)
             \/ FundContract(caller, from, to, coins)
      PROVE  SupplyInv'
  BY <1>3, <1>9 DEF Send, PrecompileSend, FundContract
<1>10. \A coins \in CoinLists : \A d \in DOMAIN coins : d \in Denoms /\ coins[d] \in Int
  BY BankAssumption
<1> QED
  BY <1>2, <1>4, <1>5, <1>6, <1>7, <1>8, <1>9, <1>10, Zenon
     DEF Next, instantiateContract, executeContract

\* At genesis the three copies are the holdings.
LEMMA InitSupply == Init => SupplyInv
<1> SUFFICES ASSUME Init PROVE SupplyInv
  OBVIOUS
<1>1. ASSUME NEW t \in Tokens
      PROVE  SumFunctionOnSet(ledger[t], Accounts) = InitialSupply(t)
  <2>1. ledger[t] = [a \in Accounts |-> Holding(t, a)]
    BY DEF Init
  <2> QED
    BY <2>1 DEF InitialSupply, SumFunction
<1> QED
  BY <1>1 DEF Init, SupplyInv, Conserved

\* The router's two views agree in every committed state: GetSupply of a
\* denomination is the sum of GetBalance over all accounts, in all three kinds of
\* ledger, unless the query panics. No send, failed send, multi-send or aborted
\* transaction makes or loses a coin.
THEOREM ViewsAgree == Spec => []SupplyIsSumOfBalances
<1>1. Inv /\ SupplyInv => SupplyIsSumOfBalances
  <2> SUFFICES ASSUME Inv, SupplyInv, NEW d \in Denoms
               PROVE  \/ \E a \in Accounts : GetBalance(ledger, a, d) = NoAnswer
                      \/ GetSupply(d) = SumFunction([a \in Accounts |-> GetBalance(ledger, a, d)])
    BY DEF SupplyIsSumOfBalances
  <2> DEFINE f == [a \in Accounts |-> GetBalance(ledger, a, d)]
             p == ParseDenom(d)
  <2>1. SumFunction(f) = SumFunctionOnSet(f, Accounts)
    BY DEF SumFunction
  <2>2. PICK someone \in Accounts : TRUE
    BY BankAssumption, Zenon
  <2>3. IsFiniteSet(Accounts)
    BY BankAssumption, Zenon
  <2>4. TokenType(d) \in {"Erc20", "Cw20", "Cosmos"}
    BY DEF TokenType, ParseDenom, NativeToken
  <2>5. ASSUME NEW t \in Tokens, GetSupply(d) = InitialSupply(t),
               \A a \in Accounts : GetBalance(ledger, a, d) = ledger[t][a]
        PROVE  GetSupply(d) = SumFunction(f)
    <3>1. \A a \in Accounts : f[a] = ledger[t][a]
      BY <2>5
    <3> HIDE DEF f
    <3>2. SumFunctionOnSet(f, Accounts) = SumFunctionOnSet(ledger[t], Accounts)
      BY <2>3, <3>1, SumSame
    <3> QED
      BY <2>1, <2>5, <3>2 DEF SupplyInv, Conserved
  <2>6. p \in Tokens /\ NativeToken(d) \in Tokens
    BY TokenFacts
  <2>7. CASE TokenType(d) = "Erc20"
    <3>1. /\ GetSupply(d) = Erc20Supply(p)
          /\ \A a \in Accounts : GetBalance(ledger, a, d) = Erc20Balance(ledger, a, p)
      BY <2>7 DEF GetSupply, GetBalance
    <3>2. CASE p \in Deployed
      BY <2>5, <2>6, <3>1, <3>2 DEF Erc20Supply, Erc20Balance
    <3>3. CASE p \notin Deployed
      BY <2>2, <3>1, <3>3 DEF Erc20Balance
    <3> QED
      BY <3>2, <3>3
  <2>8. CASE TokenType(d) = "Cw20"
    <3>1. /\ GetSupply(d) = Cw20Supply(p)
          /\ \A a \in Accounts : GetBalance(ledger, a, d) = Cw20Balance(ledger, a, p)
      BY <2>8 DEF GetSupply, GetBalance
    <3>2. CASE p[2] \in Malformed
      BY <2>2, <3>1, <3>2, SMTT(30) DEF Cw20Balance
    <3>3. CASE p[2] \notin Malformed /\ p \in Deployed
      BY <2>5, <2>6, <3>1, <3>3 DEF Cw20Supply, Cw20Balance
    <3>4. CASE p[2] \notin Malformed /\ p \notin Deployed
      <4>1. GetSupply(d) = 0 /\ \A a \in Accounts : f[a] = 0
        BY <3>1, <3>4 DEF Cw20Supply, Cw20Balance
      <4> HIDE DEF f
      <4>2. SumFunctionOnSet(f, Accounts) = 0
        BY <2>3, <4>1, SumZero
      <4>3. GetSupply(d) = SumFunction(f)
        BY <2>1, <4>1, <4>2
      <4> QED
        BY <4>3 DEF f
    <3> QED
      BY <3>2, <3>3, <3>4
  <2>9. CASE TokenType(d) = "Cosmos"
    <3>1. /\ GetSupply(d) = InitialSupply(NativeToken(d))
          /\ \A a \in Accounts : GetBalance(ledger, a, d) = ledger[NativeToken(d)][a]
      BY <2>9 DEF GetSupply, GetBalance
    <3> QED
      BY <2>5, <2>6, <3>1
  <2> QED
    BY <2>4, <2>7, <2>8, <2>9
<1> QED
  BY <1>1, InitSupply, SupplyStep, Invariance, PTL DEF Spec

-----------------------------------------------------------------------------
(* Every send is all or nothing.                                           *)

\* The coins a send may carry, and the sends.
Carried == UNION {[D -> Nat] : D \in {E \in SUBSET Denoms : IsFiniteSet(E)}}

Sends == [caller : Accounts, from : Accounts, to : Accounts, coins : Carried]

\* What the send c carries of token t under the denominations D.
Part(c, D, t) == SumFunctionOnSet(c.coins, {d \in D : ParseDenom(d) = t})

\* The balances b are those of the ledger after the sends s.
Explains(b, s) ==
  \A t \in Tokens, a \in Accounts : b[t][a] = ledger[t][a] + Received(s, t, a)

\* A send has accounts, finitely many denominations and natural amounts.
LEMMA SendFacts ==
  ASSUME NEW c \in Sends
  PROVE  /\ c.from \in Accounts /\ c.to \in Accounts
         /\ DOMAIN c.coins \subseteq Denoms /\ IsFiniteSet(DOMAIN c.coins)
         /\ \A d \in DOMAIN c.coins : c.coins[d] \in Nat
<1>1. PICK D \in {E \in SUBSET Denoms : IsFiniteSet(E)} : c.coins \in [D -> Nat]
  BY DEF Sends, Carried
<1>2. DOMAIN c.coins = D
  BY <1>1
<1>3. IsFiniteSet(D) /\ D \subseteq Denoms
  BY <1>1
<1> QED
  BY <1>1, <1>2, <1>3 DEF Sends

\* The part of a send is a natural number; more denominations carry more.
LEMMA PartGrows ==
  ASSUME NEW c \in Sends, NEW D \in SUBSET DOMAIN c.coins, NEW E \in SUBSET DOMAIN c.coins,
         NEW t, D \cap E = {}
  PROVE  /\ Part(c, D, t) \in Nat /\ Part(c, E, t) \in Nat
         /\ Part(c, D \cup E, t) = Part(c, D, t) + Part(c, E, t)
<1> DEFINE A == {d \in D : ParseDenom(d) = t}
           B == {d \in E : ParseDenom(d) = t}
           f == c.coins
<1>1. IsFiniteSet(A) /\ IsFiniteSet(B)
  BY SendFacts, FS_Subset
<1>2. \A d \in A \cup B : f[d] \in Nat
  BY SendFacts
<1>3. A \cap B = {} /\ {d \in D \cup E : ParseDenom(d) = t} = A \cup B
  OBVIOUS
<1> HIDE DEF A, B, f
<1>4. SumFunctionOnSet(f, A) \in Nat /\ SumFunctionOnSet(f, B) \in Nat
  BY <1>1, <1>2, SumNat
<1>5. SumFunctionOnSet(f, A \cup B) = SumFunctionOnSet(f, A) + SumFunctionOnSet(f, B)
  BY <1>1, <1>2, <1>3, SumDisjoint
<1> QED
  BY <1>3, <1>4, <1>5, SMTT(30) DEF Part, A, B, f

\* Of no denomination, and of one.
LEMMA PartOne ==
  ASSUME NEW c \in Sends, NEW d \in DOMAIN c.coins, NEW t
  PROVE  /\ Part(c, {}, t) = 0
         /\ Part(c, {d}, t) = IF ParseDenom(d) = t THEN c.coins[d] ELSE 0
<1>1. c.coins[d] \in Int
  BY SendFacts
<1>2. {e \in {} : ParseDenom(e) = t} = {}
  OBVIOUS
<1>3. {e \in {d} : ParseDenom(e) = t} = IF ParseDenom(d) = t THEN {d} ELSE {}
  OBVIOUS
<1>4. SumFunctionOnSet(c.coins, {}) = 0 /\ SumFunctionOnSet(c.coins, {d}) = c.coins[d]
  BY <1>1, SumEmpty, SumOne
<1> QED
  BY <1>2, <1>3, <1>4 DEF Part

\* The two ends: nothing is moved, all is moved.
LEMMA PartNone ==
  ASSUME NEW c, NEW t
  PROVE  Part(c, {}, t) = 0 /\ Part(c, DOMAIN c.coins, t) = Amount(c, t)
<1>1. {e \in {} : ParseDenom(e) = t} = {}
  OBVIOUS
<1> QED
  BY <1>1, SumEmpty DEF Part, Amount

\* Net is linear in the amount.
LEMMA NetPlus ==
  ASSUME NEW c, NEW m \in Int, NEW n \in Int, NEW a
  PROVE  /\ Net(c, m, a) \in Int /\ Net(c, 0, a) = 0
         /\ Net(c, m + n, a) = Net(c, m, a) + (IF c.to = a THEN n ELSE 0)
                                            - (IF c.from = a THEN n ELSE 0)
BY DEF Net

\* No send, no change.
LEMMA ReceivedNone ==
  ASSUME NEW t, NEW a
  PROVE  Received(<<>>, t, a) = 0
<1> DEFINE f == [i \in DOMAIN <<>> |-> Net(<<>>[i], Amount(<<>>[i], t), a)]
<1>1. DOMAIN f = {}
  OBVIOUS
<1> HIDE DEF f
<1>2. SumFunction(f) = 0
  BY <1>1, SumEmpty, SMTT(30) DEF SumFunction
<1> QED
  BY <1>2 DEF Received, f

\* One more send adds what it moves.
LEMMA ReceivedOneMore ==
  ASSUME NEW s \in Seq(Sends), NEW c \in Sends, NEW t, NEW a
  PROVE  /\ Received(s, t, a) \in Int /\ Amount(c, t) \in Nat
         /\ Received(Append(s, c), t, a) = Received(s, t, a) + Net(c, Amount(c, t), a)
<1> DEFINE n == Len(s)
           u == Append(s, c)
           f == [i \in DOMAIN s |-> Net(s[i], Amount(s[i], t), a)]
           g == [i \in DOMAIN u |-> Net(u[i], Amount(u[i], t), a)]
<1>1. ASSUME NEW e \in Sends PROVE Amount(e, t) \in Nat
  <2>1. DOMAIN e.coins \in SUBSET DOMAIN e.coins /\ {} \in SUBSET DOMAIN e.coins
    OBVIOUS
  <2>2. Part(e, DOMAIN e.coins, t) \in Nat
    BY <2>1, PartGrows, Zenon
  <2> QED
    BY <2>2, PartNone
<1>2. /\ DOMAIN s = 1..n /\ DOMAIN u = 1..(n + 1) /\ n \in Nat
      /\ \A i \in 1..n : u[i] = s[i] /\ s[i] \in Sends
      /\ u[n + 1] = c
  OBVIOUS
<1> HIDE DEF n, u
<1>3. /\ DOMAIN f = 1..n /\ DOMAIN g = 1..(n + 1)
      /\ \A i \in 1..n : g[i] = f[i] /\ f[i] \in Int
      /\ g[n + 1] = Net(c, Amount(c, t), a) /\ g[n + 1] \in Int
  BY <1>1, <1>2, SMTT(30) DEF Net
<1>4. Received(s, t, a) = SumFunction(f) /\ Received(u, t, a) = SumFunction(g)
  BY DEF Received
<1> HIDE DEF f, g
<1> DEFINE S == 1..n
<1>5. IsFiniteSet(S)
  BY <1>2, FS_Interval
<1>6. 1..(n + 1) = S \cup {n + 1} /\ n + 1 \notin S
  BY <1>2
<1>7. \A i \in S : g[i] = f[i] /\ f[i] \in Int /\ g[i] \in Int
  BY <1>3
<1>8. SumFunction(f) = SumFunctionOnSet(f, S) /\ SumFunction(g) = SumFunctionOnSet(g, S \cup {n + 1})
  BY <1>3, <1>6, Zenon DEF SumFunction
<1> HIDE DEF S
<1>9. SumFunctionOnSet(f, S) \in Int /\ SumFunctionOnSet(g, S) = SumFunctionOnSet(f, S)
  BY <1>5, <1>7, SumInt, SumSame
<1>10. SumFunctionOnSet(g, S \cup {n + 1}) = g[n + 1] + SumFunctionOnSet(g, S)
  BY <1>3, <1>5, <1>6, <1>7, SumInsert, SMTT(30)
<1>11. Received(u, t, a) = Received(s, t, a) + Net(c, Amount(c, t), a)
  BY <1>3, <1>4, <1>8, <1>9, <1>10, SMTT(30)
<1> QED
  BY <1>1, <1>4, <1>8, <1>9, <1>11 DEF u

\* The inductive invariant: between the sends the completed ones explain the
\* balances; inside a send they explain the snapshot, and the denominations that
\* are done explain the rest.
SendsInv ==
  /\ sent \in Seq(Sends)
  /\ tx = "none" => sent = <<>>
  /\ Open => Explains(work, sent)
  /\ call # NoCall =>
       /\ call \in Sends
       /\ Explains(snapshot, sent)
       /\ \A t \in Tokens, a \in Accounts :
            work[t][a] = snapshot[t][a] + Net(call, Part(call, DOMAIN call.coins \ todo, t), a)

\* A transaction that is over or begins has sent nothing.
LEMMA NothingSent ==
  ASSUME Inv, work' = ledger', sent' = <<>>, call' = NoCall, ledger' \in {ledger, work}
  PROVE  SendsInv'
<1>1. \A t \in Tokens, a \in Accounts :
        ledger'[t][a] = ledger'[t][a] + Received(<<>>, t, a)
  <2>1. \A t \in Tokens, a \in Accounts : ledger'[t][a] \in Nat
    BY DEF Inv, TypeOK, Balances
  <2> QED
    BY <2>1, ReceivedNone
<1>2. Explains(work, sent)'
  BY <1>1 DEF Explains
<1>3. <<>> \in Seq(Sends)
  OBVIOUS
<1> QED
  BY <1>2, <1>3 DEF SendsInv

\* Entering SendCoins.
LEMMA StartSendExplained ==
  ASSUME Inv, SendsInv, NEW c \in Sends, StartSend(c)
  PROVE  SendsInv'
<1>1. /\ Open /\ Explains(work, sent)
      /\ call' = c /\ todo' = DOMAIN c.coins /\ snapshot' = work
      /\ UNCHANGED <<ledger, work, tx, sent>>
  BY DEF StartSend, SendsInv
<1>2. Explains(work, sent)' /\ Explains(snapshot, sent)'
  BY <1>1, SMTT(30) DEF Explains
<1>3. ASSUME NEW t \in Tokens, NEW a \in Accounts
      PROVE  work'[t][a] = snapshot'[t][a] + Net(c, Part(c, DOMAIN c.coins \ DOMAIN c.coins, t), a)
  <2>1. DOMAIN c.coins \ DOMAIN c.coins = {}
    OBVIOUS
  <2>2. Part(c, DOMAIN c.coins \ DOMAIN c.coins, t) = 0
    BY <2>1, PartNone, SMTT(30)
  <2>3. Net(c, 0, a) = 0 /\ work[t][a] \in Nat
    BY DEF Net, Inv, TypeOK, Balances
  <2> QED
    BY <1>1, <2>2, <2>3
<1> QED
  BY <1>1, <1>2, <1>3, Zenon DEF SendsInv, Open

\* A coin list a message or a precompile accepts.
LEMMA AcceptedCoins ==
  ASSUME NEW coins \in CoinLists
  PROVE  /\ Valid(coins) => coins \in Carried
         /\ (\A d \in DOMAIN coins : coins[d] >= 0) => GetCoins(coins) \in Carried
<1> DEFINE D == DOMAIN coins
           E == {e \in DOMAIN coins : coins[e] # 0}
<1>1. IsFiniteSet(D) /\ D \subseteq Denoms
  BY BankAssumption, Zenon
<1>2. coins \in [D -> Int]
  BY BankAssumption, Zenon
<1>3. IsFiniteSet(E) /\ E \subseteq Denoms
  BY <1>1, FS_Subset
<1>4. ASSUME NEW F, IsFiniteSet(F), F \subseteq Denoms, NEW f \in [F -> Nat]
      PROVE  f \in Carried
  BY <1>4 DEF Carried
<1>5. ASSUME Valid(coins) PROVE coins \in [D -> Nat]
  BY <1>2, <1>5 DEF Valid
<1>6. ASSUME \A d \in DOMAIN coins : coins[d] >= 0 PROVE GetCoins(coins) \in [E -> Nat]
  BY <1>2, <1>6, SMTT(30) DEF GetCoins
<1> HIDE DEF D, E
<1> QED
  BY <1>1, <1>3, <1>4, <1>5, <1>6 DEF D

\* The part of a send that is done grows by the denominations D of todo; if they
\* move n of the token t, the invariant's last conjunct is kept.
LEMMA DoneGrows ==
  ASSUME Inv, SendsInv, call # NoCall, NEW D \in SUBSET todo, NEW t \in Tokens, NEW n \in Nat,
         Part(call, D, t) = n, NEW a \in Accounts
  PROVE  snapshot[t][a] + Net(call, Part(call, DOMAIN call.coins \ (todo \ D), t), a)
           = work[t][a] + (IF call.to = a THEN n ELSE 0) - (IF call.from = a THEN n ELSE 0)
<1> DEFINE done == DOMAIN call.coins \ todo
           m == Part(call, done, t)
<1>1. call \in Sends /\ todo \subseteq DOMAIN call.coins
  BY DEF SendsInv, Inv, TypeOK
<1>2. DOMAIN call.coins \ (todo \ D) = done \cup D /\ done \cap D = {}
      /\ done \in SUBSET DOMAIN call.coins /\ D \in SUBSET DOMAIN call.coins
  BY <1>1
<1> HIDE DEF done
<1>3. m \in Nat /\ Part(call, DOMAIN call.coins \ (todo \ D), t) = m + n
  <2>0. ASSUME NEW c \in Sends, NEW E \in SUBSET DOMAIN c.coins, NEW F \in SUBSET DOMAIN c.coins,
               E \cap F = {}
        PROVE  /\ Part(c, E, t) \in Nat
               /\ Part(c, E \cup F, t) = Part(c, E, t) + Part(c, F, t)
    BY <2>0, PartGrows
  <2>1. /\ Part(call, done, t) \in Nat
        /\ Part(call, done \cup D, t) = Part(call, done, t) + Part(call, D, t)
    BY <1>1, <1>2, <2>0, Zenon
  <2> QED
    BY <1>2, <2>1, Zenon
<1>4. work[t][a] = snapshot[t][a] + Net(call, m, a)
  BY ZenonT(30) DEF SendsInv, done
<1> HIDE DEF m
<1>5. /\ Net(call, m, a) \in Int
      /\ Net(call, m + n, a) = Net(call, m, a) + (IF call.to = a THEN n ELSE 0)
                                               - (IF call.from = a THEN n ELSE 0)
  BY <1>3, SMTT(30) DEF Net
<1>6. snapshot[t][a] \in Int
  BY DEF Inv, TypeOK, Balances
<1>7. Net(call, Part(call, DOMAIN call.coins \ (todo \ D), t), a) = Net(call, m + n, a)
  BY <1>3
<1> HIDE DEF done
<1> QED
  BY <1>4, <1>5, <1>6, <1>7, SMTT(30)

\* A step inside a send keeps the invariant if it moves what it takes off todo.
LEMMA InsideSend ==
  ASSUME Inv, SendsInv, call # NoCall, NEW D \in SUBSET todo, todo' = todo \ D,
         UNCHANGED <<ledger, snapshot, tx, call, sent>>,
         \A t \in Tokens : \E n \in Nat :
           /\ Part(call, D, t) = n
           /\ \A a \in Accounts : work'[t][a] = work[t][a] + (IF call.to = a THEN n ELSE 0)
                                                           - (IF call.from = a THEN n ELSE 0)
  PROVE  SendsInv'
<1>1. ASSUME NEW t \in Tokens, NEW a \in Accounts
      PROVE  work'[t][a] = snapshot[t][a] + Net(call, Part(call, DOMAIN call.coins \ (todo \ D), t), a)
  BY DoneGrows, SMTT(30)
<1>2. Explains(snapshot, sent)'
  BY SMTT(30) DEF SendsInv, Explains
<1> QED
  BY <1>1, <1>2, ZenonT(30) DEF SendsInv, Open

\* The transfer of a contract token.
LEMMA TransferExplained ==
  ASSUME Inv, SendsInv, NEW d \in Denoms, SendErc20(d) \/ SendCw20(d)
  PROVE  SendsInv'
<1> DEFINE p == ParseDenom(d)
           n == call.coins[d]
           m == Moved(work, p, call.from, call.to, n)
<1>1. /\ d \in todo /\ todo' = todo \ {d} /\ work' = m
      /\ work[p][call.from] >= n
      /\ UNCHANGED <<ledger, snapshot, tx, call, sent>>
  BY SMTT(30) DEF SendErc20, SendCw20, Left, CanTransfer, Transfer
<1>2. call # NoCall
  BY <1>1, SMTT(30) DEF Inv, TypeOK, NoCall
<1>3. /\ call \in Sends /\ d \in DOMAIN call.coins /\ n \in Nat /\ p \in Tokens
      /\ call.from \in Accounts /\ call.to \in Accounts /\ work \in Balances
  BY <1>1, <1>2, TokenFacts, ZenonT(30) DEF Inv, TypeOK, SendsInv
<1>4. n <= work[p][call.from]
  BY <1>1, <1>3, ZenonT(30) DEF Balances
<1>5. /\ m \in Balances /\ \A u \in Tokens \ {p} : m[u] = work[u]
      /\ \A a \in Accounts : m[p][a] = work[p][a] + (IF call.to = a THEN n ELSE 0)
                                                  - (IF call.from = a THEN n ELSE 0)
  <2>1. m \in Balances /\ \A u \in Tokens \ {p} : m[u] = work[u]
    <3> HIDE DEF p, n
    <3> QED
      BY <1>3, <1>4, MovedFacts, SMTT(30)
  <2>2. ASSUME NEW a \in Accounts
        PROVE  m[p][a] = work[p][a] + (IF call.to = a THEN n ELSE 0)
                                    - (IF call.from = a THEN n ELSE 0)
    <3> HIDE DEF p, n
    <3> QED
      BY <1>3, <1>4, MovedAt, SMTT(30)
  <2> QED
    BY <2>1, <2>2, Zenon
<1> HIDE DEF m, p, n
<1>6. ASSUME NEW t \in Tokens
      PROVE  \E k \in Nat :
               /\ Part(call, {d}, t) = k
               /\ \A a \in Accounts : work'[t][a] = work[t][a] + (IF call.to = a THEN k ELSE 0)
                                                               - (IF call.from = a THEN k ELSE 0)
  <2>1. Part(call, {d}, t) = IF p = t THEN n ELSE 0
    BY <1>3, PartOne, SMTT(30) DEF p, n
  <2>2. CASE p = t
    BY <1>1, <1>3, <1>5, <2>1, <2>2, SMTT(30)
  <2>3. CASE p # t
    <3>1. \A a \in Accounts : work'[t][a] = work[t][a] /\ work[t][a] \in Nat
      BY <1>1, <1>3, <1>5, <2>3, SMTT(30) DEF Balances
    <3>2. Part(call, {d}, t) = 0
      BY <2>1, <2>3
    <3> QED
      BY <3>1, <3>2, SMTT(30)
  <2> QED
    BY <2>2, <2>3, Zenon
<1>7. {d} \in SUBSET todo
  BY <1>1
<1> QED
  BY <1>1, <1>2, <1>6, <1>7, InsideSend, ZenonT(30)

\* The transfer of the native coins.
LEMMA SendCosmosExplained ==
  ASSUME Inv, SendsInv, SendCosmos
  PROVE  SendsInv'
<1>1. /\ todo # {} /\ todo = Left("Cosmos") /\ todo' = {}
      /\ UNCHANGED <<ledger, snapshot, tx, call, sent>>
  BY SMTT(30) DEF SendCosmos
<1>2. call # NoCall
  BY <1>1, SMTT(30) DEF Inv, TypeOK, NoCall
<1>3. /\ call \in Sends /\ work \in Balances
      /\ \A d \in todo : d \in Denoms /\ call.coins[d] \in Nat
  BY <1>2 DEF Inv, TypeOK, SendsInv
<1>4. \A d \in todo : ParseDenom(d) = NativeToken(d)
  BY <1>1, <1>3, TokenFacts DEF Left
<1>5. ASSUME NEW t \in Tokens
      PROVE  \E k \in Nat :
               /\ Part(call, todo, t) = k
               /\ \A a \in Accounts : work'[t][a] = work[t][a] + (IF call.to = a THEN k ELSE 0)
                                                               - (IF call.from = a THEN k ELSE 0)
  <2> DEFINE ds == {d \in todo : ParseDenom(d) = t}
  <2>1. Part(call, todo, t) = SumFunctionOnSet(call.coins, ds)
    BY DEF Part
  <2>2. CASE (\A d \in todo : NativeToken(d) # t) /\ work'[t] = work[t]
    <3>1. ds = {}
      BY <1>4, <2>2
    <3>2. Part(call, todo, t) = 0
      BY <2>1, <3>1, SumEmpty
    <3>3. \A a \in Accounts : work'[t][a] = work[t][a] /\ work[t][a] \in Nat
      BY <1>3, <2>2, SMTT(30) DEF Balances
    <3> QED
      BY <3>2, <3>3, SMTT(30)
  <2>3. ASSUME NEW d \in todo, NativeToken(d) = t, call.coins[d] <= work[t][call.from],
               work'[t] = Moved(work, t, call.from, call.to, call.coins[d])[t]
        PROVE  \E k \in Nat :
               /\ Part(call, todo, t) = k
               /\ \A a \in Accounts : work'[t][a] = work[t][a] + (IF call.to = a THEN k ELSE 0)
                                                               - (IF call.from = a THEN k ELSE 0)
    <3>1. ds = {d}
      <4>1. \A e \in todo : NativeToken(e) = NativeToken(d) => e = d
        BY <1>3, TokenFacts
      <4> QED
        BY <1>4, <2>3, <4>1, SMTT(30)
    <3>2. Part(call, todo, t) = call.coins[d]
      BY <1>3, <2>1, <3>1, SumOne, SMTT(30)
    <3>3. call.from \in Accounts /\ call.to \in Accounts
      BY <1>3, SendFacts, SMTT(30)
    <3>4. \A a \in Accounts :
            work'[t][a] = work[t][a] + (IF call.to = a THEN call.coins[d] ELSE 0)
                                     - (IF call.from = a THEN call.coins[d] ELSE 0)
      BY <1>3, <2>3, <3>3, MovedNet, SMTT(30)
    <3> QED
      BY <1>3, <3>2, <3>4, SMTT(30)
  <2> QED
    BY <1>1, <2>2, <2>3, SendCosmosRows, Zenon
<1>6. todo \in SUBSET todo /\ todo' = todo \ todo
  BY <1>1, SMTT(30)
<1> QED
  BY <1>1, <1>2, <1>5, <1>6, InsideSend, Zenon

\* A transfer and the send that stands for it.
LEMMA OneMoreSend ==
  ASSUME NEW b \in Balances, ledger \in Balances, NEW s \in Seq(Sends), Explains(b, s),
         NEW c \in Sends, NEW from \in Accounts, c.from = from, NEW to \in Accounts, c.to = to,
         NEW u \in Tokens, NEW n \in Nat, n <= b[u][from],
         \A t \in Tokens : Amount(c, t) = IF t = u THEN n ELSE 0
  PROVE  Explains(Moved(b, u, from, to, n), Append(s, c)) /\ Append(s, c) \in Seq(Sends)
<1> DEFINE m == Moved(b, u, from, to, n)
<1>1. m \in Balances /\ \A t \in Tokens \ {u} : m[t] = b[t]
  BY MovedFacts, SMTT(30)
<1>2. \A a \in Accounts : m[u][a] = b[u][a] + (IF to = a THEN n ELSE 0)
                                          - (IF from = a THEN n ELSE 0)
  <2> TAKE a \in Accounts
  <2> QED
    BY MovedAt, SMTT(30)
<1> HIDE DEF m
<1>3. ASSUME NEW t \in Tokens, NEW a \in Accounts
      PROVE  m[t][a] = ledger[t][a] + Received(Append(s, c), t, a)
  <2> DEFINE k == Amount(c, t)
             r == Received(s, t, a)
  <2>1. r \in Int /\ Received(Append(s, c), t, a) = r + Net(c, k, a)
    BY ReceivedOneMore, SMTT(30)
  <2>2. b[t][a] = ledger[t][a] + r /\ ledger[t][a] \in Nat /\ b[t][a] \in Nat
    BY DEF Explains, Balances
  <2>3. k = IF t = u THEN n ELSE 0
    OBVIOUS
  <2> HIDE DEF k, r
  <2>4. m[t][a] = b[t][a] + Net(c, k, a) /\ Net(c, k, a) \in Int
    <3>1. Net(c, k, a) = (IF to = a THEN k ELSE 0) - (IF from = a THEN k ELSE 0)
      BY SMTT(30) DEF Net
    <3>2. CASE t = u
      BY <1>2, <2>2, <2>3, <3>1, <3>2, SMTT(30)
    <3>3. CASE t # u
      BY <1>1, <2>2, <2>3, <3>1, <3>3, SMTT(30)
    <3> QED
      BY <3>2, <3>3, SMTT(30)
  <2> QED
    BY <2>1, <2>2, <2>4, SMTT(30)
<1> QED
  BY <1>3, SMTT(30) DEF Explains, m

\* SendCoins returns.
LEMMA SendReturnsExplained ==
  ASSUME Inv, SendsInv, SendReturns
  PROVE  SendsInv'
<1>1. /\ call \in Sends /\ sent \in Seq(Sends) /\ tx # "none" /\ todo = {}
      /\ sent' = Append(sent, call) /\ call' = NoCall
      /\ UNCHANGED <<ledger, work, tx>>
  BY DEF SendReturns, SendsInv, Inv
<1>2. ASSUME NEW t \in Tokens, NEW a \in Accounts
      PROVE  work[t][a] = ledger[t][a] + Received(Append(sent, call), t, a)
  <2> DEFINE n == Net(call, Amount(call, t), a)
             r == Received(sent, t, a)
  <2>1. DOMAIN call.coins \ todo = DOMAIN call.coins
    BY <1>1, SMTT(30)
  <2>2. work[t][a] = snapshot[t][a] + n
    BY <2>1, PartNone, SMTT(30) DEF SendsInv, SendReturns
  <2>3. snapshot[t][a] = ledger[t][a] + r
    BY DEF SendsInv, SendReturns, Explains
  <2>4. r \in Int /\ Received(Append(sent, call), t, a) = r + n /\ Amount(call, t) \in Nat
    BY <1>1, ReceivedOneMore, SMTT(30)
  <2>5. n \in Int /\ ledger[t][a] \in Nat
    BY <2>4 DEF Net, Inv, TypeOK, Balances
  <2> HIDE DEF n, r
  <2> QED
    BY <2>2, <2>3, <2>4, <2>5
<1>3. Explains(work, sent)'
  BY <1>1, <1>2 DEF Explains
<1>4. Append(sent, call) \in Seq(Sends)
  BY <1>1, SMTT(30)
<1> QED
  BY <1>1, <1>3, <1>4, SMTT(30) DEF SendsInv

\* The send that an output of MsgMultiSend stands for.
Output(from, to, d, n) == [caller |-> from, from |-> from, to |-> to, coins |-> [e \in {d} |-> n]]

\* It carries n of the native coin and nothing else.
LEMMA OutputFacts ==
  ASSUME NEW from \in Accounts, NEW to \in Accounts, NEW d \in Denoms, NEW n \in Nat,
         ParseDenom(d) = NativeToken(d)
  PROVE  /\ Output(from, to, d, n) \in Sends
         /\ Output(from, to, d, n).from = from /\ Output(from, to, d, n).to = to
         /\ \A t \in Tokens : Amount(Output(from, to, d, n), t) = IF t = NativeToken(d) THEN n ELSE 0
<1> DEFINE c == Output(from, to, d, n)
           f == [e \in {d} |-> n]
<1>1. c.from = from /\ c.to = to /\ c.coins = f /\ DOMAIN f = {d} /\ f[d] = n
  BY DEF Output
<1>2. IsFiniteSet({d})
  BY FS_Singleton, Zenon
<1>3. f \in Carried
  BY <1>2 DEF Carried
<1>4. c \in Sends
  BY <1>3 DEF Sends, Output
<1> HIDE DEF c, f
<1>5. ASSUME NEW t \in Tokens PROVE Amount(c, t) = IF t = NativeToken(d) THEN n ELSE 0
  <2>1. Part(c, {d}, t) = IF ParseDenom(d) = t THEN n ELSE 0
    BY <1>1, <1>4, PartOne, SMTT(30)
  <2>2. Part(c, {d}, t) = Amount(c, t)
    BY <1>1, PartNone
  <2> QED
    BY <2>1, <2>2, SMTT(30)
<1> QED
  BY <1>1, <1>4, <1>5, SMTT(30) DEF c

\* MsgMultiSend, whose outputs count as sends.
LEMMA MultiSendExplained ==
  ASSUME Inv, SendsInv, NEW from \in Accounts, NEW a \in Accounts, NEW b \in Accounts,
         NEW d \in Denoms, NEW n \in Int, NEW tos, tos = <<a>> \/ tos = <<a, b>>,
         MultiSend(from, tos, d, n)
  PROVE  SendsInv'
<1> DEFINE t == NativeToken(d)
           once == Moved(work, t, from, a, n)
           c == Output(from, a, d, n)
           e == Output(from, b, d, n)
<1>1. /\ Open /\ tx # "none" /\ n > 0
      /\ sent' = sent \o [i \in DOMAIN tos |-> Output(from, tos[i], d, n)]
      /\ UNCHANGED <<ledger, tx, call, todo>>
  BY SMTT(30) DEF MultiSend, Open, Output
<1>2. /\ sent \in Seq(Sends) /\ Explains(work, sent) /\ work \in Balances /\ ledger \in Balances
      /\ t \in Tokens
  BY <1>1, TokenFacts, ZenonT(30) DEF SendsInv, Inv, TypeOK
<1>3. n \in Nat \ {0} /\ n <= work[t][from]
  BY MultiSendMoves, SMTT(30)
<1>4. ParseDenom(d) = t
  <2>1. work[t][from] # 0
    BY <1>2, <1>3, SMTT(30) DEF Balances
  <2> QED
    BY <2>1, TokenFacts DEF Inv, Clean
<1>5. /\ c \in Sends /\ c.from = from /\ c.to = a
      /\ \A u \in Tokens : Amount(c, u) = IF u = t THEN n ELSE 0
  BY <1>3, <1>4, OutputFacts, SMTT(30)
<1>6. /\ e \in Sends /\ e.from = from /\ e.to = b
      /\ \A u \in Tokens : Amount(e, u) = IF u = t THEN n ELSE 0
  BY <1>3, <1>4, OutputFacts, SMTT(30)
<1>7. Explains(once, Append(sent, c)) /\ Append(sent, c) \in Seq(Sends)
  <2> HIDE DEF c, t
  <2> QED
    BY <1>2, <1>3, <1>5, OneMoreSend, SMTT(30)
<1>8. CASE tos = <<a>>
  <2>1. work' = once
    BY <1>8, MultiSendMoves, SMTT(30)
  <2>2. sent' = Append(sent, c)
    <3>1. [i \in DOMAIN tos |-> Output(from, tos[i], d, n)] = <<c>>
      BY <1>8, SMTT(30)
    <3> HIDE DEF c
    <3> QED
      BY <1>1, <1>2, <1>5, <3>1, SMTT(30)
  <2> HIDE DEF once, c, t
  <2>3. Explains(work, sent)'
    BY <1>1, <1>7, <2>1, <2>2, ZenonT(30) DEF Explains
  <2> QED
    BY <1>1, <1>7, <2>2, <2>3, SMTT(30) DEF SendsInv, Open
<1>9. CASE tos = <<a, b>>
  <2>1. once \in Balances /\ n <= once[t][from] /\ work' = Moved(once, t, from, b, n)
    BY <1>9, MultiSendMoves, SMTT(30)
  <2>2. sent' = Append(Append(sent, c), e)
    <3>1. [i \in DOMAIN tos |-> Output(from, tos[i], d, n)] = <<c, e>>
      BY <1>9, SMTT(30)
    <3>2. sent' = sent \o <<c, e>>
      BY <1>1, <3>1, Zenon
    <3>3. sent \in Seq(Sends) /\ c \in Sends /\ e \in Sends
      BY <1>2, <1>5, <1>6, Zenon
    <3> HIDE DEF c, e
    <3>4. sent \o <<c, e>> = Append(Append(sent, c), e)
      BY <3>3, SMTT(30)
    <3> QED
      BY <3>2, <3>4, Zenon
  <2> DEFINE s == Append(sent, c)
  <2> HIDE DEF once, c, e, t, s
  <2>3. Explains(Moved(once, t, from, b, n), Append(s, e)) /\ Append(s, e) \in Seq(Sends)
    BY <1>2, <1>3, <1>6, <1>7, <2>1, OneMoreSend, ZenonT(30) DEF s
  <2>4. Explains(work, sent)' /\ sent' \in Seq(Sends)
    BY <1>1, <2>1, <2>2, <2>3, Zenon DEF Explains, s
  <2> QED
    BY <1>1, <2>4, SMTT(30) DEF SendsInv, Open
<1> QED
  BY <1>8, <1>9, SMTT(30)

\* Every step keeps the invariant.
LEMMA SendsStep == Inv /\ SendsInv /\ [Next]_vars => SendsInv'
<1> SUFFICES ASSUME Inv, SendsInv, [Next]_vars PROVE SendsInv'
  OBVIOUS
<1>1. ASSUME NEW kind \in {"msg", "evm"}, BeginTx(kind)
      PROVE  SendsInv'
  <2>1. /\ call = NoCall /\ sent = <<>>
        /\ UNCHANGED <<ledger, call, sent>> /\ work' = ledger
    BY <1>1, Zenon DEF BeginTx, Inv, SendsInv
  <2> QED
    BY <2>1, NothingSent, SMTT(30)
<1>2. ASSUME NEW from \in Accounts, NEW to \in Accounts, NEW coins \in CoinLists,
             Send(from, to, coins)
      PROVE  SendsInv'
  <2> DEFINE c == [caller |-> from, from |-> from, to |-> to, coins |-> coins]
  <2>1. c \in Sends
    BY <1>2, AcceptedCoins DEF Send, Sends
  <2>2. StartSend(c)
    BY <1>2 DEF Send
  <2> QED
    BY <2>1, <2>2, StartSendExplained, SMTT(30)
<1>3. ASSUME NEW caller \in Accounts, NEW from \in Accounts, NEW to \in Accounts,
             NEW coins \in CoinLists,
             PrecompileSend(caller, from, to, coins) \/ FundContract(caller, from, to, coins)
      PROVE  SendsInv'
  <2> DEFINE c == [caller |-> caller, from |-> from, to |-> to, coins |-> GetCoins(coins)]
  <2>1. GetCoins(coins) \in Carried
    BY <1>3, AcceptedCoins DEF PrecompileSend, FundContract
  <2>2. c \in Sends
    BY <2>1 DEF Sends
  <2>3. StartSend(c)
    BY <1>3 DEF PrecompileSend, FundContract
  <2> QED
    BY <2>2, <2>3, StartSendExplained, SMTT(30)
<1>4. ASSUME NEW caller \in Accounts, NEW from \in Accounts, NEW to, NEW coins \in CoinLists,
             FundContract(caller, from, to, coins)
      PROVE  SendsInv'
  <2>1. to \in Accounts
    BY <1>4, BankAssumption DEF FundContract
  <2> QED
    BY <1>3, <1>4, <2>1, SMTT(30)
<1>5. ASSUME NEW d \in Denoms, SendErc20(d) \/ SendCw20(d)
      PROVE  SendsInv'
  BY <1>5, TransferExplained
<1>6. CASE SendCosmos
  BY <1>6, SendCosmosExplained
<1>7. CASE SendReturns
  BY <1>7, SendReturnsExplained
<1>8. CASE SendFails
  <2>1. CASE Drop
    BY <2>1, NothingSent, SMTT(30) DEF Drop
  <2>2. CASE call' = NoCall /\ work' = snapshot /\ UNCHANGED <<ledger, tx, sent>>
    <3>1. Explains(work, sent)'
      BY <1>8, <2>2 DEF SendFails, SendsInv, Explains
    <3> QED
      BY <2>2, <3>1, SMTT(30) DEF SendsInv, Open
  <2> QED
    BY <1>8, <2>1, <2>2 DEF SendFails
<1>9. ASSUME NEW from \in Accounts, NEW a \in Accounts, NEW b \in Accounts,
             NEW d \in Denoms, NEW n \in Int, NEW tos, tos = <<a>> \/ tos = <<a, b>>,
             MultiSend(from, tos, d, n)
      PROVE  SendsInv'
  BY <1>9, MultiSendExplained
<1>10. CASE CommitTx \/ AbortTx
  <2>1. /\ work' = ledger' /\ sent' = <<>> /\ call' = NoCall /\ ledger' \in {ledger, work}
    BY <1>10, SMTT(30) DEF CommitTx, AbortTx, Drop, Open
  <2> QED
    BY <2>1, NothingSent
<1>11. CASE UNCHANGED vars
  BY <1>11, Zenon DEF vars, SendsInv, Open, Explains
<1>12. \A coins \in CoinLists : \A d \in DOMAIN coins : d \in Denoms /\ coins[d] \in Int
  BY BankAssumption
<1> QED
  BY <1>1, <1>2, <1>3, <1>4, <1>5, <1>6, <1>7, <1>8, <1>9, <1>10, <1>11, <1>12, Zenon
     DEF Next, instantiateContract, executeContract

\* Nothing is sent and nothing is changed at genesis.
LEMMA InitSends == Init => SendsInv
<1> SUFFICES ASSUME Init PROVE SendsInv
  OBVIOUS
<1>1. <<>> \in Seq(Sends)
  OBVIOUS
<1> QED
  BY <1>1 DEF Init, SendsInv, Open

\* Sends are all or nothing over the three ledgers: between two sends of a
\* transaction, the balances are the committed ones changed by exactly the sends
\* that returned success, whatever failed halfway, in whatever order the coins of
\* a list were sent, by message, multi-send or precompile.
THEOREM SendsAreAtomic == Spec => []SendsExplainBalances
<1>1. SendsInv => SendsExplainBalances
  BY SMTT(30) DEF SendsInv, SendsExplainBalances, Explains
<1> QED
  BY <1>1, InitSends, SendsStep, Invariance, PTL DEF Spec

-----------------------------------------------------------------------------
(* Messages and the policy of the bank.                                    *)

\* Compared with the committed balances, b credits no blocked address and moves
\* no native coin whose transfers are disabled.
Obeys(b) ==
  /\ \A t \in Tokens, a \in Blocked : b[t][a] <= ledger[t][a]
  /\ \A d \in Denoms \ SendEnabled : b[NativeToken(d)] = ledger[NativeToken(d)]

\* The inductive invariant: a transaction of messages obeys at every moment, and
\* the send it is in was admitted.
PolicyInv ==
  tx = "msg" => /\ Obeys(work)
                /\ call # NoCall => call.to \notin Blocked /\ IsSendEnabledCoins(call.coins)

\* A transfer of any other token, to an account that is not blocked.
LEMMA ObeysMove ==
  ASSUME NEW b \in Balances, ledger \in Balances, Obeys(b), NEW u \in Tokens,
         \A d \in Denoms \ SendEnabled : NativeToken(d) # u,
         NEW from \in Accounts, NEW to \in Accounts \ Blocked, NEW n \in Nat, n <= b[u][from]
  PROVE  Obeys(Moved(b, u, from, to, n))
<1> DEFINE m == Moved(b, u, from, to, n)
<1>1. m \in Balances /\ \A t \in Tokens \ {u} : m[t] = b[t]
  BY MovedFacts, SMTT(30)
<1>2. \A a \in Accounts : m[u][a] = b[u][a] + (IF to = a THEN n ELSE 0)
                                          - (IF from = a THEN n ELSE 0)
  <2> TAKE a \in Accounts
  <2> QED
    BY MovedAt, SMTT(30)
<1> HIDE DEF m
<1>3. ASSUME NEW t \in Tokens, NEW a \in Blocked PROVE m[t][a] <= ledger[t][a]
  <2>1. a \in Accounts /\ a # to /\ b[t][a] <= ledger[t][a]
    BY BankAssumption DEF Obeys
  <2>2. b[t][a] \in Nat /\ ledger[t][a] \in Nat
    BY <2>1 DEF Balances
  <2>3. m[t][a] <= b[t][a] /\ m[t][a] \in Nat
    <3>1. m[t][a] \in Nat
      BY <1>1, <2>1, SMTT(30) DEF Balances
    <3>2. CASE t = u
      BY <1>2, <2>1, <2>2, <3>1, <3>2, SMTT(30)
    <3>3. CASE t # u
      BY <1>1, <2>2, <3>1, <3>3, SMTT(30)
    <3> QED
      BY <3>2, <3>3
  <2> QED
    BY <2>1, <2>2, <2>3, SMTT(30)
<1>4. ASSUME NEW d \in Denoms \ SendEnabled PROVE m[NativeToken(d)] = ledger[NativeToken(d)]
  BY <1>1, TokenFacts DEF Obeys
<1> QED
  BY <1>3, <1>4, SMTT(30) DEF Obeys, m

\* The native token of an admitted denomination is none of the disabled ones.
LEMMA EnabledToken ==
  ASSUME NEW d \in SendEnabled
  PROVE  \A e \in Denoms \ SendEnabled : NativeToken(e) # NativeToken(d)
BY BankAssumption, TokenFacts

\* The steps inside a send.
LEMMA PolicyInside ==
  ASSUME Inv, PolicyInv, SendCosmos \/ \E d \in Denoms : SendErc20(d) \/ SendCw20(d)
  PROVE  PolicyInv'
<1>1. UNCHANGED <<ledger, tx, call>>
  BY DEF SendCosmos, SendErc20, SendCw20, Transfer
<1>2. SUFFICES ASSUME tx = "msg" PROVE Obeys(work)'
  BY <1>1, SMTT(30) DEF PolicyInv
<1>3. todo # {}
  BY ZenonT(30) DEF SendCosmos, SendErc20, SendCw20, Left
<1>4. call # NoCall
  <2>1. DOMAIN NoCall.coins = {}
    BY SMTT(30) DEF NoCall
  <2>2. \/ call = NoCall /\ todo = {}
        \/ todo \subseteq DOMAIN call.coins
    BY Zenon DEF Inv, TypeOK
  <2> QED
    BY <1>3, <2>1, <2>2, Zenon
<1>5. /\ call.from \in Accounts /\ call.to \in Accounts \ Blocked /\ IsSendEnabledCoins(call.coins)
      /\ \A d \in todo : d \in Denoms /\ d \in DOMAIN call.coins /\ call.coins[d] \in Nat
      /\ Obeys(work) /\ work \in Balances /\ ledger \in Balances
  BY <1>2, <1>4, SMTT(30) DEF PolicyInv, Inv, TypeOK
<1>6. ASSUME NEW d \in Denoms, SendErc20(d) \/ SendCw20(d)
      PROVE  Obeys(work)'
  <2> DEFINE p == ParseDenom(d)
             n == call.coins[d]
  <2>1. /\ d \in todo /\ work[p][call.from] >= n /\ TokenType(d) # "Cosmos"
        /\ work' = Moved(work, p, call.from, call.to, n)
    BY <1>6, ZenonT(30) DEF SendErc20, SendCw20, Left, CanTransfer, Transfer
  <2>2. p \in Tokens /\ n \in Nat /\ \A e \in Denoms \ SendEnabled : NativeToken(e) # p
    BY <1>5, <2>1, TokenFacts, ZenonT(30)
  <2>3. n <= work[p][call.from]
    BY <1>5, <2>1, <2>2, ZenonT(30) DEF Balances
  <2> HIDE DEF p, n
  <2>4. Obeys(work')
    BY <1>5, <2>1, <2>2, <2>3, ObeysMove, SMTT(30)
  <2> QED
    BY <1>1, <2>4, SMTT(30) DEF Obeys
<1>7. CASE SendCosmos
  <2>1. ASSUME NEW t \in Tokens
        PROVE  /\ \A a \in Blocked : work'[t][a] <= ledger[t][a]
               /\ \A e \in Denoms \ SendEnabled : NativeToken(e) = t => work'[t] = ledger[t]
    <3>1. CASE work'[t] = work[t]
      BY <1>5, <3>1, SMTT(30) DEF Obeys
    <3>2. ASSUME NEW d \in Left("Cosmos"), NativeToken(d) = t,
                 call.coins[d] <= work[t][call.from],
                 work'[t] = Moved(work, t, call.from, call.to, call.coins[d])[t]
          PROVE  /\ \A a \in Blocked : work'[t][a] <= ledger[t][a]
                 /\ \A e \in Denoms \ SendEnabled : NativeToken(e) = t => work'[t] = ledger[t]
      <4>1. d \in SendEnabled /\ call.coins[d] \in Nat
        BY <1>5, SMTT(30) DEF Left, IsSendEnabledCoins
      <4>2. \A e \in Denoms \ SendEnabled : NativeToken(e) # t
        <5>1. \A e \in Denoms \ SendEnabled : NativeToken(e) # NativeToken(d)
          BY <4>1, EnabledToken, SMTT(30)
        <5> QED
          BY <3>2, <5>1, Zenon
      <4>3. Obeys(Moved(work, t, call.from, call.to, call.coins[d]))
        BY <1>5, <3>2, <4>1, <4>2, ObeysMove, Zenon
      <4> QED
        BY <3>2, <4>2, <4>3, Zenon DEF Obeys
    <3> QED
      BY <1>7, <3>1, <3>2, SendCosmosRows, ZenonT(30)
  <2>2. \A e \in Denoms : NativeToken(e) \in Tokens
    BY TokenFacts, SMTT(30)
  <2>3. Obeys(work')
    BY <2>1, <2>2, SMTT(30) DEF Obeys
  <2> QED
    BY <1>1, <2>3 DEF Obeys
<1> QED
  BY <1>6, <1>7, SMTT(30)

\* MsgMultiSend, which applies the policy itself.
LEMMA PolicyMultiSend ==
  ASSUME Inv, PolicyInv, NEW from \in Accounts, NEW a \in Accounts, NEW b \in Accounts,
         NEW d \in Denoms, NEW n \in Int, NEW tos, tos = <<a>> \/ tos = <<a, b>>,
         MultiSend(from, tos, d, n)
  PROVE  PolicyInv'
<1> DEFINE t == NativeToken(d)
           once == Moved(work, t, from, a, n)
<1>1. /\ tx = "msg" /\ call = NoCall /\ IsSendEnabledCoins([e \in {d} |-> n])
      /\ \A i \in DOMAIN tos : tos[i] \notin Blocked
      /\ UNCHANGED <<ledger, tx, call>>
  BY SMTT(30) DEF MultiSend, Open
<1>2. Obeys(work) /\ work \in Balances /\ ledger \in Balances /\ t \in Tokens
  BY <1>1, TokenFacts, ZenonT(30) DEF PolicyInv, Inv, TypeOK
<1>3. n \in Nat \ {0} /\ n <= work[t][from]
  BY MultiSendMoves
<1>4. TokenType(d) = "Cosmos"
  <2>1. work[t][from] # 0
    BY <1>2, <1>3, SMTT(30) DEF Balances
  <2> QED
    BY <2>1 DEF Inv, Clean
<1>5. d \in SendEnabled
  BY <1>1, <1>4 DEF IsSendEnabledCoins
<1>6. \A e \in Denoms \ SendEnabled : NativeToken(e) # t
  BY <1>5, EnabledToken
<1>7. a \notin Blocked
  BY <1>1, SMTT(30)
<1>8. Obeys(once)
  <2> HIDE DEF t
  <2> QED
    BY <1>2, <1>3, <1>6, <1>7, ObeysMove, SMTT(30)
<1>9. CASE tos = <<a>>
  <2>1. Obeys(work')
    BY <1>8, <1>9, MultiSendMoves, ZenonT(30)
  <2> QED
    <3>1. Obeys(work)'
      BY <1>1, <2>1, SMTT(30) DEF Obeys
    <3> QED
      BY <1>1, <3>1, Zenon DEF PolicyInv
<1>10. CASE tos = <<a, b>>
  <2>1. once \in Balances /\ n <= once[t][from] /\ work' = Moved(once, t, from, b, n)
    BY <1>10, MultiSendMoves
  <2>2. b \notin Blocked
    BY <1>1, <1>10, SMTT(30)
  <2> HIDE DEF once, t
  <2>3. Obeys(work')
    BY <1>2, <1>3, <1>6, <1>8, <2>1, <2>2, ObeysMove, Zenon
  <2> QED
    BY <1>1, <2>3, Zenon DEF PolicyInv, Obeys
<1> QED
  BY <1>9, <1>10

\* Every step keeps the invariant.
LEMMA PolicyStep == Inv /\ PolicyInv /\ [Next]_vars => PolicyInv'
<1> SUFFICES ASSUME Inv, PolicyInv, [Next]_vars PROVE PolicyInv'
  OBVIOUS
<1>1. ASSUME NEW kind \in {"msg", "evm"}, BeginTx(kind)
      PROVE  PolicyInv'
  <2>1. call' = NoCall /\ work' = ledger /\ ledger' = ledger /\ ledger \in Balances
    BY <1>1 DEF BeginTx, Inv, TypeOK
  <2>2. \A t \in Tokens, a \in Blocked : ledger[t][a] <= ledger[t][a]
    BY <2>1, BankAssumption, SMTT(30) DEF Balances
  <2> QED
    BY <2>1, <2>2, SMTT(30) DEF PolicyInv, Obeys
<1>2. ASSUME NEW from \in Accounts, NEW to \in Accounts, NEW coins \in CoinLists,
             Send(from, to, coins)
      PROVE  PolicyInv'
  <2>1. /\ call'.to = to /\ call'.coins = coins /\ to \notin Blocked /\ IsSendEnabledCoins(coins)
        /\ UNCHANGED <<ledger, work, tx>>
    BY <1>2 DEF Send, StartSend
  <2>2. IsSendEnabledCoins(call.coins)'
    BY <2>1, SMTT(30) DEF IsSendEnabledCoins
  <2> QED
    BY <2>1, <2>2, SMTT(30) DEF PolicyInv, Obeys
<1>3. ASSUME NEW caller, NEW from, NEW to, NEW coins,
             PrecompileSend(caller, from, to, coins) \/ FundContract(caller, from, to, coins)
      PROVE  PolicyInv'
  BY <1>3 DEF PrecompileSend, FundContract, StartSend, PolicyInv
<1>4. CASE SendCosmos \/ \E d \in Denoms : SendErc20(d) \/ SendCw20(d)
  BY <1>4, PolicyInside, SMTT(30)
<1>5. CASE SendReturns
  BY <1>5, Zenon DEF SendReturns, PolicyInv, Obeys
<1>6. CASE SendFails
  BY <1>6, SMTT(30) DEF SendFails, Drop, PolicyInv
<1>7. ASSUME NEW from \in Accounts, NEW a \in Accounts, NEW b \in Accounts,
             NEW d \in Denoms, NEW n \in Int, NEW tos, tos = <<a>> \/ tos = <<a, b>>,
             MultiSend(from, tos, d, n)
      PROVE  PolicyInv'
  BY <1>7, PolicyMultiSend
<1>8. CASE CommitTx \/ AbortTx
  BY <1>8, SMTT(30) DEF CommitTx, AbortTx, Drop, PolicyInv
<1>9. CASE UNCHANGED vars
  BY <1>9 DEF vars, PolicyInv, Obeys, IsSendEnabledCoins
<1>10. \A coins \in CoinLists : \A d \in DOMAIN coins : d \in Denoms /\ coins[d] \in Int
  BY BankAssumption
<1> QED
  BY <1>1, <1>2, <1>3, <1>4, <1>5, <1>6, <1>7, <1>8, <1>9, <1>10, Zenon
     DEF Next, instantiateContract, executeContract

\* Only CommitTx changes the committed balances.
LEMMA LedgerStep == [Next]_vars => ledger' = ledger \/ (ledger' = work /\ call = NoCall)
<1> SUFFICES ASSUME [Next]_vars PROVE ledger' = ledger \/ (ledger' = work /\ call = NoCall)
  OBVIOUS
<1>1. ASSUME NEW kind, BeginTx(kind) PROVE ledger' = ledger
  BY <1>1, SMTT(30) DEF BeginTx
<1>2. ASSUME NEW caller, NEW from, NEW to, NEW coins,
             \/ Send(from, to, coins) \/ PrecompileSend(caller, from, to, coins)
             \/ FundContract(caller, from, to, coins)
      PROVE  ledger' = ledger
  BY <1>2, ZenonT(30) DEF Send, PrecompileSend, FundContract, StartSend
<1>3. ASSUME NEW d, SendErc20(d) \/ SendCw20(d) PROVE ledger' = ledger
  BY <1>3, Zenon DEF SendErc20, SendCw20, Transfer
<1>4. ASSUME SendCosmos \/ SendFails \/ SendReturns \/ AbortTx PROVE ledger' = ledger
  BY <1>4 DEF SendCosmos, SendFails, SendReturns, AbortTx, Drop
<1>5. ASSUME NEW from, NEW tos, NEW d, NEW n, MultiSend(from, tos, d, n) PROVE ledger' = ledger
  BY <1>5, Zenon DEF MultiSend
<1>6. ASSUME CommitTx PROVE ledger' = work /\ call = NoCall
  BY <1>6 DEF CommitTx, Open
<1>7. ASSUME UNCHANGED vars PROVE ledger' = ledger
  BY <1>7 DEF vars
<1> QED
  BY <1>1, <1>2, <1>3, <1>4, <1>5, <1>6, <1>7, Zenon
     DEF Next, instantiateContract, executeContract

\* A committed transaction of messages credits no blocked address and moves no
\* native coin whose transfers are disabled, however MsgSend and MsgMultiSend
\* follow each other in it. (The precompiles are not bound by this.)
THEOREM MessagesObey == Spec => MessagesObeyPolicy
<1> DEFINE Obeyed == tx = "msg" =>
             /\ \A t \in Tokens, a \in Blocked : ledger'[t][a] <= ledger[t][a]
             /\ \A d \in Denoms \ SendEnabled : ledger'[NativeToken(d)] = ledger[NativeToken(d)]
<1>1. Inv /\ PolicyInv /\ [Next]_vars => [Obeyed]_vars
  <2> SUFFICES ASSUME Inv, PolicyInv, [Next]_vars PROVE Obeyed
    OBVIOUS
  <2>1. \A t \in Tokens, a \in Blocked : ledger[t][a] \in Nat
    BY BankAssumption DEF Inv, TypeOK, Balances
  <2>2. CASE ledger' = ledger
    BY <2>1, <2>2, SMTT(30)
  <2>3. CASE ledger' = work
    BY <2>3 DEF PolicyInv, Obeys
  <2> QED
    BY <2>2, <2>3, LedgerStep, SMTT(30)
<1>2. Init => PolicyInv
  BY DEF Init, PolicyInv
<1> QED
  BY <1>1, <1>2, PolicyStep, Invariance, PTL DEF Spec, MessagesObeyPolicy
=============================================================================
