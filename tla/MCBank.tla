------------------------------- MODULE MCBank -------------------------------
(* Denominations and coin lists for the instance of Bank.                  *)
EXTENDS Bank, TLC

Denom(name, prefix, parts, address) ==
  [name |-> name, prefix |-> prefix, parts |-> parts, address |-> address]

axpla == Denom("axpla", "other", 1, "none")
erc == Denom("xerc20:A", "xerc20", 2, "A")
alias == Denom("xerc20x:A", "xerc20", 2, "A")       \* the same contract
cw == Denom("xcw20:C", "xcw20", 2, "C")
noContract == Denom("xcw20:D", "xcw20", 2, "D")
badAddress == Denom("xcw20:?", "xcw20", 2, "?")
threeParts == Denom("xcw20:C:C", "xcw20", 3, "C")   \* native, and disabled

MCDenoms == {axpla, erc, alias, cw, noContract, badAddress, threeParts}
MCDeployed == {<<"Erc20", "A">>, <<"Cw20", "C">>}
MCMalformed == {"?"}
MCSliceAddresses == "slice" :> "contract"
MCSendEnabled == MCDenoms \ {threeParts}

Holds(n) == [a \in Accounts |-> IF a = "alice" THEN n ELSE 0]
MCHoldings ==
  <<"Erc20", "A">> :> Holds(2) @@ <<"Cw20", "C">> :> Holds(1)
  @@ <<"Cosmos", "axpla">> :> Holds(2) @@ <<"Cosmos", "xcw20:C:C">> :> Holds(1)

\* All kinds at once, a contract twice under two names, lists whose last
\* transfer fails, a zero and a negative amount, a disabled coin.
MCCoinLists ==
  {erc :> 1 @@ cw :> 1 @@ axpla :> 1, erc :> 1 @@ alias :> 1,
   erc :> 1 @@ noContract :> 1, cw :> 1 @@ badAddress :> 1,
   cw :> 0 @@ axpla :> 1, axpla :> -1, threeParts :> 1}
=============================================================================
