------------------------------- MODULE MCApp -------------------------------
(* An application with three accounts, and blocks of transactions that       *)
(* succeed, fail in each of the ways runTx knows, or come again.             *)
EXTENDS App

CONSTANTS alice, bob, carol

MCAddrs == {alice, bob, carol}
MCGenesis == <<[addr |-> alice, coins |-> 5]>>

\* One coin for three units of gas.
MCPrice == [gas |-> 3, amount |-> 1]

Send(to, n) == [type |-> "send", to |-> to, amount |-> n, gas |-> 1]
Call == [type |-> "call", gas |-> 2]
Tx(from, seq, fee, gas, msgs) == [from |-> from, seq |-> seq, fee |-> fee, gas |-> gas, msgs |-> msgs]

\* Pays bob and the sender; the second message of the next one fails; a call; one
\* with too little gas for its second message; bob's, who has nothing
\* at first, and one with a fee bob cannot pay.
pays == Tx(alice, 0, 1, 3, <<Send(bob, 1), Send(alice, 1)>>)
fails == Tx(alice, 1, 1, 3, <<Send(bob, 1), Send(bob, 9)>>)
calls == Tx(alice, 1, 0, 3, <<Call>>)
starves == Tx(alice, 0, 1, 2, <<Send(bob, 1), Send(bob, 1)>>)
bobs == Tx(bob, 0, 1, 3, <<Send(alice, 0)>>)
poor == [bobs EXCEPT !.fee = 2]

MCTxs == {pays, fails, calls, starves, bobs, poor}
MCSubmitted == {pays, calls, bobs}
MCBlocks == {<<pays, calls>>, <<starves, calls>>, <<pays, fails, pays>>, <<bobs, pays, poor, bobs>>}
=============================================================================
