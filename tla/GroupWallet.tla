---------------------------- MODULE GroupWallet ----------------------------
(***************************************************************************)
(* What a shared wallet promises its members, with nothing of how the      *)
(* backend keeps the promise: an action is proposed with a number of       *)
(* approvals it needs, members approve it, and its transaction takes       *)
(* effect on chain at most once and never before that many distinct        *)
(* members have approved it.  SharedAccess implements this module.         *)
(***************************************************************************)
EXTENDS Naturals, FiniteSets

CONSTANTS ActionIds,  \* the actions that may be proposed
          Members     \* the addresses that may approve them

VARIABLES need,       \* need[a]: approvals a must collect; 0 while a is not proposed
          approvedBy, \* approvedBy[a]: the members that approved a
          landed      \* the actions whose transaction took effect on chain

gwVars == <<need, approvedBy, landed>>

WalletInit == /\ need = [a \in ActionIds |-> 0]
              /\ approvedBy = [a \in ActionIds |-> {}]
              /\ landed = {}

Propose(a) == /\ need[a] = 0
              /\ need'[a] \in Nat \ {0}
              /\ need' = [need EXCEPT ![a] = need'[a]]
              /\ UNCHANGED <<approvedBy, landed>>

Approve(a) == /\ need[a] # 0
              /\ \E m \in Members \ approvedBy[a] :
                    approvedBy' = [approvedBy EXCEPT ![a] = @ \cup {m}]
              /\ UNCHANGED <<need, landed>>

Land(a) == /\ need[a] # 0
           /\ Cardinality(approvedBy[a]) >= need[a]
           /\ a \notin landed
           /\ landed' = landed \cup {a}
           /\ UNCHANGED <<need, approvedBy>>

WalletNext == \E a \in ActionIds : Propose(a) \/ Approve(a) \/ Land(a)

WalletSpec == WalletInit /\ [][WalletNext]_gwVars
=============================================================================
