------------------------------ MODULE MCMarket ------------------------------
(***************************************************************************)
(* The order book of one pair: two users, offers of one or two units at    *)
(* two prices.                                                             *)
(***************************************************************************)
EXTENDS Market
=============================================================================
