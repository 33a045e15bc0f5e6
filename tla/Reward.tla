------------------------------- MODULE Reward -------------------------------
(***************************************************************************)
(* x/reward: at every BeginBlock the delegation rewards of the             *)
(* distribution account are withdrawn and split between the reward pool,   *)
(* the community pool and the reserve account, and one block's part of the *)
(* reward pool goes to the fee collector.                                  *)
(*                                                                         *)
(* Denominations are naturals, ordered as their names are. Rates are       *)
(* numerators over Unit, as the decimals of the SDK are over 10^18.        *)
(***************************************************************************)
EXTENDS RewardSplit, FiniteSets

CONSTANTS
  Denoms,
  BlocksPerYear,   \* x/mint's parameter
  Rates,           \* rates governance may choose
  Rewards,         \* amounts of one accrual or one deposit
  Addresses,       \* what an address parameter may hold: "unset" (not set), "valid",
                   \* "malformed"
  InitialAccount,  \* the distribution account's own funds, by denomination
  MaxTotal         \* bound: coins that enter the system, per denomination

ASSUME RewardAssumption ==
  /\ Denoms \subseteq Nat /\ IsFiniteSet(Denoms)
  /\ BlocksPerYear \in Nat \ {0}
  /\ Rates \subseteq 0..Unit
  /\ Rewards \subseteq Nat \ {0}
  /\ Addresses \subseteq {"unset", "valid", "malformed"}
  /\ InitialAccount \in Nat /\ MaxTotal \in Nat

VARIABLES
  params,        \* the rates fee, community and reserve, and the addresses
                 \* reserveAccount and distributeAccount
  redirected,    \* the distribution account withdraws to another account
  pending,       \* delegation rewards not yet withdrawn, by denomination
  account,       \* balance of the distribution account
  pool,          \* balance of the reward module account
  feeCollector, communityPool, reserve, elsewhere,
  entered,       \* coins that entered so far
  halted         \* BeginBlock returned an error: the chain stops

balances == <<account, pool, feeCollector, communityPool, reserve, elsewhere>>
vars == <<params, redirected, pending, account, pool, feeCollector,
          communityPool, reserve, elsewhere, entered, halted>>

Zero == [d \in Denoms |-> 0]
Plus(f, g) == [d \in Denoms |-> f[d] + g[d]]
Minus(f, g) == [d \in Denoms |-> f[d] - g[d]]
Positive(f) == {d \in Denoms : f[d] > 0}

Params == [fee : Rates, community : Rates, reserve : Rates,
           reserveAccount : Addresses, distributeAccount : Addresses]

\* Genesis: the default parameters name no account.
Init ==
  /\ params \in {p \in Params : /\ ValidateBasic(p)
                                /\ p.reserveAccount = "unset" /\ p.distributeAccount = "unset"}
  /\ redirected = FALSE
  /\ pending = Zero
  /\ account = [d \in Denoms |-> InitialAccount]
  /\ pool = Zero /\ feeCollector = Zero /\ communityPool = Zero
  /\ reserve = Zero /\ elsewhere = Zero /\ entered = Zero
  /\ halted = FALSE

-----------------------------------------------------------------------------
(* What happens between two BeginBlocks.                                   *)

\* The distribution module accrues rewards to the account's delegations.
Accrue(d, n) ==
  /\ ~halted /\ entered[d] + n <= MaxTotal
  /\ pending' = [pending EXCEPT ![d] = @ + n]
  /\ entered' = [entered EXCEPT ![d] = @ + n]
  /\ UNCHANGED <<params, redirected, balances, halted>>

\* MsgFundRewardPool.
FundRewardPool(d, n) ==
  /\ ~halted /\ entered[d] + n <= MaxTotal
  /\ pool' = [pool EXCEPT ![d] = @ + n]
  /\ entered' = [entered EXCEPT ![d] = @ + n]
  /\ UNCHANGED <<params, redirected, pending, account, feeCollector,
                 communityPool, reserve, elsewhere, halted>>

\* MsgUpdateParams: SetParams stores what ValidateBasic accepts.
UpdateParams(p) ==
  /\ ~halted
  /\ ValidateBasic(p)
  /\ params' = p
  /\ UNCHANGED <<redirected, pending, balances, entered, halted>>

\* The distribution module's MsgSetWithdrawAddress.
SetWithdrawAddress ==
  /\ ~halted
  /\ redirected' = ~redirected
  /\ UNCHANGED <<params, pending, balances, entered, halted>>

-----------------------------------------------------------------------------
(* BeginBlocker. Coins in the order of the map totalRewards, which Go       *)
(* leaves open, are valid only when they are sorted and all positive.       *)

feePoolRewards == [d \in Denoms |-> FeePoolReward(params, pending[d])]
reserveRewards == [d \in Denoms |-> ReserveReward(params, pending[d])]
communityPoolRewards == [d \in Denoms |-> CommunityPoolReward(params, pending[d])]

\* Coins for the denominations of totalRewards, listed in the order of the map.
IsValid(coins, sorted) ==
  /\ \A d \in Positive(pending) : coins[d] > 0
  /\ sorted \/ Cardinality(Positive(pending)) < 2

Covers(balance, coins) == \A d \in Denoms : coins[d] <= balance[d]

\* One block's part of the reward pool.
perBlock(balance) == [d \in Denoms |-> balance[d] \div BlocksPerYear]

\* The balances after each of the transfers, in order. Withdrawn rewards go to
\* the withdraw address.
withdrawnBefore == account  \* mutant: the balance from before the withdrawal
withdrawn == IF redirected THEN account ELSE Plus(account, pending)
afterFee == Minus(withdrawn, feePoolRewards)
funded == Plus(pool, feePoolRewards)
afterCommunityOnly == Minus(withdrawn, communityPoolRewards)  \* mutant
afterCommunity == Minus(afterFee, communityPoolRewards)

\* The error of the reserve transfer is ignored.
ReservePaid(sorted) ==
  /\ Positive(pending) # {} /\ params.reserveAccount # "unset"
  /\ IsValid(reserveRewards, sorted) /\ Covers(afterCommunity, reserveRewards)

\* BeginBlock returns an error or panics: a parameter that is no address, a
\* transfer of coins that are not valid or not there, or a part of the pool
\* that is zero for one denomination and not for another.
Fails(sorted) ==
  \/ params.distributeAccount = "malformed"
  \/ /\ Positive(pending) # {}
     /\ \/ \E d \in Denoms : communityPoolRewards[d] < 0
        \/ ~IsValid(feePoolRewards, sorted) \/ ~Covers(withdrawn, feePoolRewards)
        \/ ~IsValid(communityPoolRewards, sorted)
        \/ ~Covers(afterFee, communityPoolRewards)
        \/ params.reserveAccount = "malformed"
  \/ LET part == perBlock(funded)
     IN Positive(part) # {} /\ Positive(part) # Positive(funded)

\* Nothing is done without a distribution account, not even the transfer to the
\* fee collector.
BeginBlocker(sorted) ==
  /\ ~halted
  /\ \/ /\ params.distributeAccount = "unset"
        /\ UNCHANGED <<pending, balances, halted>>
     \/ /\ params.distributeAccount # "unset" /\ Fails(sorted)
        /\ halted' = TRUE
        /\ UNCHANGED <<pending, balances>>
     \/ /\ params.distributeAccount # "unset" /\ ~Fails(sorted)
        /\ pending' = Zero
        /\ pool' = Minus(funded, perBlock(funded))
        /\ feeCollector' = Plus(feeCollector, perBlock(funded))
        /\ communityPool' = Plus(communityPool, communityPoolRewards)
        /\ elsewhere' = IF redirected THEN Plus(elsewhere, pending) ELSE elsewhere
        /\ IF ReservePaid(sorted)
           THEN /\ account' = Minus(afterCommunity, reserveRewards)
                /\ reserve' = Plus(reserve, reserveRewards)
           ELSE account' = afterCommunity /\ UNCHANGED reserve
        /\ UNCHANGED halted
  /\ UNCHANGED <<params, redirected, entered>>

Next ==
  \/ \E d \in Denoms, n \in Rewards : Accrue(d, n) \/ FundRewardPool(d, n)
  \/ \E p \in Params : UpdateParams(p)
  \/ SetWithdrawAddress
  \/ \E sorted \in BOOLEAN : BeginBlocker(sorted)

Spec == Init /\ [][Next]_vars

-----------------------------------------------------------------------------
TypeOK ==
  /\ params \in Params /\ ValidateBasic(params)
  /\ \A f \in {pending, account, pool, feeCollector, communityPool, reserve,
               elsewhere} : f \in [Denoms -> Nat]
  /\ redirected \in BOOLEAN /\ halted \in BOOLEAN

\* The two truncated shares never exceed the reward they are shares of, so
\* that NewCoin gets no negative community share: for every pair of rates that
\* ValidateBasic accepts, although each is multiplied by the sum and rounded.
SharesFit ==
  \A d \in Denoms : communityPoolRewards[d] >= 0

\* No coin is lost or made by the chain of transfers, whichever of them fail:
\* every coin that entered is on one of the accounts.
Conserved ==
  \A d \in Denoms :
    entered[d] + InitialAccount =
      pending[d] + account[d] + pool[d] + feeCollector[d] + communityPool[d]
        + reserve[d] + elsewhere[d]

\* BeginBlock pays out no more than it withdrew: as long as rewards arrive in
\* the account its own funds stay, whichever transfer fails or is skipped.
OwnFundsUntouched ==
  [][~redirected => \A d \in Denoms : account'[d] >= account[d]]_vars

\* With rewards in one denomination the ignored error loses nothing: all that
\* is withdrawn is paid on in the same block.
AllPaidOn ==
  [][~redirected /\ Cardinality(Positive(pending)) < 2 => account' = account]_vars

\* With rewards and pool in one denomination, and addresses that parse,
\* BeginBlock fails only on a reward so small, or a rate such, that the fee
\* pool's or the community pool's share of it is zero.
HaltsOnlyOnZeroShare ==
  [][halted' /\ ~redirected
     /\ Cardinality(Positive(pending) \cup Positive(pool)) < 2
     /\ params.reserveAccount # "malformed" /\ params.distributeAccount # "malformed" =>
       \E d \in Denoms : /\ pending[d] > 0
                         /\ feePoolRewards[d] = 0 \/ communityPoolRewards[d] = 0]_vars
=============================================================================
