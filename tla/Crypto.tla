------------------------------- MODULE Crypto -------------------------------
(***************************************************************************)
(* Crypto deposits and withdrawals through an external provider.  One      *)
(* poller credits the deposits the provider reports with transfers from a  *)
(* treasury; the row of a deposit is created before its credit, and a row  *)
(* that exists is never looked at again.  A withdrawal first has an action *)
(* of the user's own wallet executed, which should be the debit proposed   *)
(* for it, and then asks for the payout.  The group (see SharedAccess)     *)
(* lands an action that calls the Safe at most once and tells one caller   *)
(* so; a "local" action is executed for everyone who read it PENDING.      *)
(* There is one user, one currency, and one deposit on each network.       *)
(***************************************************************************)
EXTENDS FiniteSets, Naturals

CONSTANTS Networks,       \* networks of the currency
          Debits,         \* ids of group actions
          CryptoRequests, \* bound: requests, each served once
          MaxCryptoFaults \* bound: failed calls and statements, and restarts

ASSUME CryptoAssumption == MaxCryptoFaults \in Nat

VARIABLES depositRow,    \* crypto_deposits: "none", "recorded" or "credited"
          addressRow,    \* crypto_deposit_addresses: the networks that have one
          arrived,       \* deposits the provider has completed: external
          credits,       \* treasury transfers sent for each deposit
          limitsRow,     \* withdrawal_networks: are the limits cached
          debit,         \* the group action of each id: its kind and status
          withdrawalRow, \* withdrawal_requests, by the request that makes it: its status
          payouts,       \* what the provider was asked to pay for each row: external
          cryptoPoll,          \* the poller: the deposits of its page still to see
          cryptoRequest, \* the requests under way
          cryptoFaults

cryptoVars == <<depositRow, addressRow, arrived, credits, limitsRow, debit, withdrawalRow, payouts,
                cryptoPoll, cryptoRequest, cryptoFaults>>
depositVars    == <<depositRow, arrived, credits, cryptoPoll>>
withdrawalVars == <<debit, withdrawalRow, payouts>>

AtRest == [pc |-> "rest", page |-> {}, deposit |-> {}]
Fresh  == [pc |-> "fresh", todo |-> {}, debit |-> {}]
Unproposed == [kind |-> "none", status |-> "none"]

CryptoInit ==
  /\ depositRow = [n \in Networks |-> "none"] /\ addressRow = {} /\ arrived = {}
  /\ credits = [n \in Networks |-> 0] /\ limitsRow = FALSE
  /\ debit = [a \in Debits |-> Unproposed] /\ withdrawalRow = [c \in CryptoRequests |-> "none"]
  /\ payouts = [c \in CryptoRequests |-> 0]
  /\ cryptoPoll = AtRest /\ cryptoRequest = [c \in CryptoRequests |-> Fresh] /\ cryptoFaults = 0

CryptoFault     == cryptoFaults < MaxCryptoFaults /\ cryptoFaults' = cryptoFaults + 1
RequestAt(c, pc) == cryptoRequest[c].pc = pc
RequestTo(c, pc) == cryptoRequest' = [cryptoRequest EXCEPT ![c].pc = pc]
TheDebit(c) == CHOOSE a \in Debits : a \in cryptoRequest[c].debit

-----------------------------------------------------------------------------
(* Deposits.                                                               *)
\* Asks the provider for a subwallet when there is no address yet.
EnsureDepositAddresses(c) ==
  /\ RequestAt(c, "fresh")
  /\ cryptoRequest' = [cryptoRequest EXCEPT ![c] =
       [Fresh EXCEPT !.pc = IF addressRow = {} THEN "addresses" ELSE "over", !.todo = Networks]]
  /\ UNCHANGED <<depositVars, addressRow, limitsRow, withdrawalVars, cryptoFaults>>

\* Row by row; the unique index refuses the row another request has created.
SaveDepositAddress(c, n) ==
  /\ RequestAt(c, "addresses") /\ n \in cryptoRequest[c].todo
  /\ addressRow' = addressRow \cup {n}
  /\ cryptoRequest' = [cryptoRequest EXCEPT ![c].todo = @ \ {n},
       ![c].pc = IF n \in addressRow \/ cryptoRequest[c].todo = {n} THEN "over" ELSE @]
  /\ UNCHANGED <<depositVars, limitsRow, withdrawalVars, cryptoFaults>>

Arrive(n) ==
  /\ n \in addressRow \ arrived /\ arrived' = arrived \cup {n}
  /\ UNCHANGED <<depositRow, addressRow, credits, limitsRow, withdrawalVars, cryptoPoll, cryptoRequest, cryptoFaults>>

\* The most recent deposits: more may have arrived than a page holds.
PollNewDeposits ==
  /\ cryptoPoll.pc = "rest" /\ arrived # {}
  /\ \E page \in SUBSET arrived : cryptoPoll' = [pc |-> "next", page |-> page, deposit |-> {}]
  /\ UNCHANGED <<depositRow, addressRow, arrived, credits, limitsRow, withdrawalVars, cryptoRequest, cryptoFaults>>

EndPoll ==
  /\ cryptoPoll.pc = "next" /\ cryptoPoll.page = {} /\ cryptoPoll' = AtRest
  /\ UNCHANGED <<depositRow, addressRow, arrived, credits, limitsRow, withdrawalVars, cryptoRequest, cryptoFaults>>

NextItem(n, pc) == cryptoPoll' = [pc |-> pc, page |-> cryptoPoll.page \ {n}, deposit |-> {n}]
SkipDeposit(n) ==
  /\ cryptoPoll.pc = "next" /\ n \in cryptoPoll.page /\ depositRow[n] # "none" /\ NextItem(n, "next")
  /\ UNCHANGED <<depositRow, addressRow, arrived, credits, limitsRow, withdrawalVars, cryptoRequest, cryptoFaults>>

\* Mutant: the row is created after the credit, with its result.
RecordAfterCredit(n) ==
  /\ cryptoPoll.pc = "next" /\ n \in cryptoPoll.page /\ depositRow[n] = "none" /\ NextItem(n, "credit")
  /\ UNCHANGED <<depositRow, addressRow, arrived, credits, limitsRow, withdrawalVars, cryptoRequest, cryptoFaults>>
RecordDeposit(n) ==
  /\ cryptoPoll.pc = "next" /\ n \in cryptoPoll.page /\ depositRow[n] = "none" /\ NextItem(n, "credit")
  /\ depositRow' = [depositRow EXCEPT ![n] = "recorded"]
  /\ UNCHANGED <<addressRow, arrived, credits, limitsRow, withdrawalVars, cryptoRequest, cryptoFaults>>

\* Without a curated token of that currency the row stays as it is.
CreditDeposit(n) ==
  /\ cryptoPoll.pc = "credit" /\ cryptoPoll.deposit = {n}
  /\ \/ cryptoPoll' = [cryptoPoll EXCEPT !.pc = "next"] /\ UNCHANGED credits
     \/ cryptoPoll' = [cryptoPoll EXCEPT !.pc = "mark"] /\ credits' = [credits EXCEPT ![n] = @ + 1]
  /\ UNCHANGED <<depositRow, addressRow, arrived, limitsRow, withdrawalVars, cryptoRequest, cryptoFaults>>

MarkCredited(n) ==
  /\ cryptoPoll.pc = "mark" /\ cryptoPoll.deposit = {n} /\ cryptoPoll' = [cryptoPoll EXCEPT !.pc = "next"]
  /\ depositRow' = [depositRow EXCEPT ![n] = "credited"]
  /\ UNCHANGED <<addressRow, arrived, credits, limitsRow, withdrawalVars, cryptoRequest, cryptoFaults>>

\* A statement fails, or the call (its answer perhaps lost): the next deposit's turn.
\* A restart drops the page.
FailPoll ==
  /\ cryptoPoll.pc \in {"credit", "mark"} /\ CryptoFault /\ cryptoPoll' \in {[cryptoPoll EXCEPT !.pc = "next"], AtRest}
  /\ UNCHANGED <<depositRow, addressRow, arrived, credits, limitsRow, withdrawalVars, cryptoRequest>>

-----------------------------------------------------------------------------
(* Withdrawals.                                                            *)
\* The cached limits of the currency; they are fetched when there are none.
GetWithdrawalNetworks == limitsRow' = TRUE

ProposeDebit(a, kind) ==
  debit[a] = Unproposed /\ debit' = [debit EXCEPT ![a] = [kind |-> kind, status |-> "PENDING"]]

BuildWithdrawal(c, a) ==
  /\ RequestAt(c, "fresh") /\ GetWithdrawalNetworks /\ ProposeDebit(a, "withdrawal") /\ RequestTo(c, "over")
  /\ UNCHANGED <<depositVars, addressRow, withdrawalRow, payouts, cryptoFaults>>

\* Any other action of the wallet: one that calls its Safe, or one that changes rows only.
ProposeOther(a) ==
  /\ ProposeDebit(a, "call") \/ ProposeDebit(a, "local")
  /\ UNCHANGED <<depositVars, addressRow, limitsRow, withdrawalRow, payouts, cryptoRequest, cryptoFaults>>

\* Up to the status that ApproveAction reads.  The id is the client's, and the kind of the
\* action is not asked for.
ConfirmWithdrawal(c, a) ==
  /\ RequestAt(c, "fresh") /\ debit[a] # Unproposed /\ GetWithdrawalNetworks
  /\ cryptoRequest' = [cryptoRequest EXCEPT ![c] =
       [pc |-> IF debit[a].status = "PENDING" THEN "approve" ELSE "over", todo |-> {}, debit |-> {a}]]
  /\ UNCHANGED <<depositVars, addressRow, withdrawalVars, cryptoFaults>>

\* ApproveAction: executed, or more approvals are missing, or it is refused or fails.
Debit(c) ==
  LET a == TheDebit(c) IN
  /\ RequestAt(c, "approve")
  /\ \/ /\ debit[a].kind = "local" \/ debit[a].status = "PENDING"
        /\ RequestTo(c, "record") /\ debit' = [debit EXCEPT ![a].status = "EXECUTED"]
     \/ RequestTo(c, "over") /\ UNCHANGED debit
  /\ UNCHANGED <<depositVars, addressRow, limitsRow, withdrawalRow, payouts, cryptoFaults>>

\* Every request makes a row of its own.
RecordWithdrawal(c) ==
  /\ RequestAt(c, "record") /\ RequestTo(c, "payout")
  /\ withdrawalRow' = [withdrawalRow EXCEPT ![c] = "PENDING"]
  /\ UNCHANGED <<depositVars, addressRow, limitsRow, debit, payouts, cryptoFaults>>

RequestPayout(c) ==
  /\ RequestAt(c, "payout") /\ RequestTo(c, "save")
  /\ payouts' = [payouts EXCEPT ![c] = @ + 1]
  /\ UNCHANGED <<depositVars, addressRow, limitsRow, debit, withdrawalRow, cryptoFaults>>

SaveWithdrawal(c) ==
  /\ RequestAt(c, "save") /\ RequestTo(c, "over")
  /\ withdrawalRow' = [withdrawalRow EXCEPT ![c] = "ACCEPTED"]
  /\ UNCHANGED <<depositVars, addressRow, limitsRow, debit, payouts, cryptoFaults>>

\* A statement or a call fails or its answer is lost; nothing is tried again.
FailCryptoRequest(c) ==
  /\ cryptoRequest[c].pc \notin {"fresh", "over"} /\ CryptoFault /\ RequestTo(c, "over")
  /\ UNCHANGED <<depositVars, addressRow, limitsRow, withdrawalVars>>

CryptoNext ==
  \/ \E n \in Networks : \/ Arrive(n) \/ SkipDeposit(n) \/ RecordDeposit(n) \/ CreditDeposit(n) \/ MarkCredited(n)
                         \/ \E c \in CryptoRequests : SaveDepositAddress(c, n)
  \/ PollNewDeposits \/ EndPoll \/ FailPoll
  \/ \E c \in CryptoRequests : \/ EnsureDepositAddresses(c) \/ Debit(c) \/ RecordWithdrawal(c) \/ RequestPayout(c)
                               \/ SaveWithdrawal(c) \/ FailCryptoRequest(c)
                               \/ \E a \in Debits : BuildWithdrawal(c, a) \/ ConfirmWithdrawal(c, a)
  \/ \E a \in Debits : ProposeOther(a)

CryptoSpec == CryptoInit /\ [][CryptoNext]_cryptoVars

-----------------------------------------------------------------------------
CryptoTypeOK ==
  /\ depositRow \in [Networks -> {"none", "recorded", "credited"}]
  /\ addressRow \subseteq Networks /\ arrived \subseteq addressRow /\ limitsRow \in BOOLEAN
  /\ debit \in [Debits -> [kind: {"none", "withdrawal", "call", "local"}, status: {"none", "PENDING", "EXECUTED"}]]
  /\ withdrawalRow \in [CryptoRequests -> {"none", "PENDING", "ACCEPTED"}]
  /\ payouts \in [CryptoRequests -> Nat]
  /\ cryptoPoll \in [pc: {"rest", "next", "credit", "mark"}, page: SUBSET Networks, deposit: SUBSET Networks]
  /\ cryptoRequest \in [CryptoRequests -> [pc: {"fresh", "addresses", "approve", "record", "payout", "save", "over"},
                                           todo: SUBSET Networks, debit: SUBSET Debits]]
  /\ cryptoFaults \in 0..MaxCryptoFaults

\* Over failed calls, lost answers, restarts and repeated confirmations a deposit is
\* credited at most once, and what the wallet has executed on the chain is paid out at
\* most once, through however many requests it was confirmed.
PaidOut(c, a) == cryptoRequest[c].debit = {a} /\ payouts[c] > 0
CryptoOnce ==
  /\ \A n \in Networks : credits[n] <= 1
  /\ \A c \in CryptoRequests : payouts[c] <= 1
  /\ \A c, d \in CryptoRequests : \A a \in Debits :
       PaidOut(c, a) /\ PaidOut(d, a) /\ c # d => debit[a].kind = "local"

\* No transfer without its row, no payout without its row, no row without an executed
\* action, and a row that says credited or accepted says what happened.
CryptoRecordsHold ==
  /\ \A n \in Networks : /\ credits[n] > 0 => depositRow[n] # "none"
                         /\ depositRow[n] = "credited" => credits[n] > 0
  /\ \A c \in CryptoRequests :
       /\ withdrawalRow[c] # "none" => \E a \in Debits : cryptoRequest[c].debit = {a} /\ debit[a].status = "EXECUTED"
       /\ payouts[c] > 0 => withdrawalRow[c] # "none"
       /\ withdrawalRow[c] = "ACCEPTED" => payouts[c] > 0

\* Refuted: the comment on BuildWithdrawal wants a proof that the amount has left the
\* user's wallet before a payout is asked for, but any executed action passes for it.
PaidOutIsDebited ==
  \A c \in CryptoRequests : payouts[c] > 0 =>
    \E a \in Debits : cryptoRequest[c].debit = {a} /\ debit[a].kind = "withdrawal"
=============================================================================
