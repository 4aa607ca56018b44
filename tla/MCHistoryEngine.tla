-------------------------- MODULE MCHistoryEngine --------------------------
(***************************************************************************)
(* Two wallets on a chain of three blocks, polled by twos.                 *)
(***************************************************************************)
EXTENDS HistoryEngine
CONSTANTS w1, w2

Transfer(i, ws) == [index |-> i, touches |-> ws]
\* A transaction that sends ETH to one wallet and has the first two logs of its block,
\* tokens for the other wallet: two of the three transfers have index 0.
FullBlocks == {{Transfer(0, {w1}), Transfer(0, {w2}), Transfer(1, {w2})}}
=============================================================================
