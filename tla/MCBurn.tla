------------------------------- MODULE MCBurn -------------------------------
(* Lists of MsgBurn amounts for the instances of Burn.                     *)
EXTENDS Burn

\* At most one MsgBurn in a proposal; the amount may be an empty list of coins.
SingleBurns == {<<>>, <<0>>, <<1>>, <<2>>}

\* Two MsgBurns in a proposal too.
DoubleBurns == {<<1>>, <<2, 1>>}
=============================================================================
