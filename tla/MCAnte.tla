------------------------------- MODULE MCAnte -------------------------------
(* Transactions and signatures for the instances of Ante.                  *)
EXTENDS Ante, SigGas, TLC

MCCost == "eth" :> 1 @@ "secp256k1" :> 1 @@ "ed25519" :> 1
MCUnsupported == {"ed25519"}
eth == Key("eth")
ed == Key("ed25519")

Tx(signer, sequence, msgs, extension, fee, gas, sig) ==
  [signer |-> signer, sequence |-> sequence, msgs |-> msgs, extension |-> extension,
   fee |-> fee, gas |-> gas, sig |-> sig]

MCTxs == {
  Tx("a", 0, <<"send">>, "none", 3, 2, eth),
  Tx("a", 0, <<"send">>, "none", 2, 2, eth),                  \* another with its sequence
  Tx("a", 1, <<"eth">>, "ethereum", 3, 2, eth),
  Tx("a", 1, <<"eth">>, "none", 3, 2, eth),                   \* the wrong handler
  Tx("a", 2, <<"send">>, "dynamic", 9, 2, eth),               \* cannot pay
  Tx("b", 0, <<"relay", "relay">>, "none", 0, 4, eth),        \* bypasses the fee
  Tx("b", 0, <<"relay">>, "none", 0, 4, eth),                 \* too much gas for it
  Tx("b", 0, <<"exec-eth">>, "none", 3, 2, eth),
  Tx("b", 0, <<"send">>, "unknown", 3, 2, eth),
  Tx("b", 1, <<"send">>, "dynamic", 3, 2,
     Multisig(<<TRUE, FALSE, TRUE>>, <<eth, ed, eth>>)),
  Tx("b", 1, <<"send">>, "none", 3, 2,
     Multisig(<<TRUE, TRUE>>, <<eth, Multisig(<<TRUE, TRUE>>, <<eth, eth>>)>>)),  \* gas
  Tx("b", 1, <<"send">>, "none", 3, 2,
     Multisig(<<TRUE, TRUE>>, <<eth, Multisig(<<TRUE>>, <<ed>>)>>))}

\* Every simple key that signed an executed transaction, at any depth of its
\* multisigs, is of a supported type, and the gas limit covers all of them:
\* SigVerificationGasConsumer skips no member that signed.
KeysPaidFor ==
  \A i \in DOMAIN executed : IsCosmos(executed[i]) =>
    LET sig == executed[i].sig IN
    /\ \A p \in Leaves(sig) : KeyAt(sig, p) \notin Unsupported
    /\ MapThenSumSet(LAMBDA p : Cost[KeyAt(sig, p)], Leaves(sig)) <= executed[i].gas
=============================================================================
