----------------------------- MODULE BurnEscrow -----------------------------
(***************************************************************************)
(* What the burn module promises for proposals that carry a MsgBurn: the   *)
(* amount is taken from the proposer at submission and held for that       *)
(* proposal alone, and then either destroyed or returned, once. There is   *)
(* no shared module account here: what is held for one proposal cannot pay *)
(* for another.                                                            *)
(***************************************************************************)
EXTENDS Integers

CONSTANTS Proposals, Accounts

VARIABLES
  escrow,    \* "new" | "held" | "burned" | "returned", by proposal
  held,      \* amount held for the proposal
  proposer,  \* who submitted it
  balance, supply

vars == <<escrow, held, proposer, balance, supply>>

Init ==
  /\ escrow = [p \in Proposals |-> "new"]
  /\ held = [p \in Proposals |-> 0]

Submit(p, a, n) ==
  /\ escrow[p] = "new"
  /\ n <= balance[a]
  /\ escrow' = [escrow EXCEPT ![p] = "held"]
  /\ held' = [held EXCEPT ![p] = n]
  /\ proposer' = [proposer EXCEPT ![p] = a]
  /\ balance' = [balance EXCEPT ![a] = @ - n]
  /\ UNCHANGED supply

Burn(p) ==
  /\ escrow[p] = "held"
  /\ escrow' = [escrow EXCEPT ![p] = "burned"]
  /\ held' = [held EXCEPT ![p] = 0]
  /\ supply' = supply - held[p]
  /\ UNCHANGED <<proposer, balance>>

Return(p) ==
  /\ escrow[p] = "held"
  /\ escrow' = [escrow EXCEPT ![p] = "returned"]
  /\ held' = [held EXCEPT ![p] = 0]
  /\ balance' = [balance EXCEPT ![proposer[p]] = @ + held[p]]
  /\ UNCHANGED <<proposer, supply>>

Next ==
  \E p \in Proposals :
    \/ \E a \in Accounts : \E n \in 0..balance[a] : Submit(p, a, n)
    \/ Burn(p)
    \/ Return(p)

Spec == Init /\ [][Next]_vars
=============================================================================
