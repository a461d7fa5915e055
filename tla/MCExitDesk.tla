----------------------------- MODULE MCExitDesk -----------------------------
EXTENDS ExitDesk

\* Two burns that need three units and one; the smaller vault is too small
\* for the first.
TwoBurns ==
    {[ref |-> "b1", height |-> 1, amount |-> 2],
     [ref |-> "b2", height |-> 2, amount |-> 1]}

TwoVaults == (1 :> 3) @@ (2 :> 1)

\* The first burn is paid.
OnePayout == {[tx |-> "t1", ref |-> "b1"]}
=============================================================================
