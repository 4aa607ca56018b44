----------------------------- MODULE WalletCalls -----------------------------
(***************************************************************************)
(* The components that spend from a user's wallet: payments, swaps, token  *)
(* approvals, the purchase, early exit and application fee of an asset.    *)
(* Each proposes an action of the wallet's group and hands out the digest  *)
(* to sign; a later call approves an action with the signature and, when   *)
(* it is told that the action was executed, makes a row of its own.  The   *)
(* handlers take the id of any action.  The group (see SharedAccess) lands *)
(* an action that calls the Safe at most once and tells one caller so; an  *)
(* action that changes rows only ("local") is executed for everyone who    *)
(* has read it PENDING.  There is one user, and every amount is 1.         *)
(***************************************************************************)
EXTENDS FiniteSets, Naturals

CONSTANTS Spendings,      \* ids of group actions
          PaymentKeys,    \* idempotency keys
          Cap,            \* of purchases of the asset by this user
          SpendCalls,     \* bound: requests, each served once
          MaxSpendFaults  \* bound: failed statements and calls, and restarts

ASSUME SpendAssumption == IsFiniteSet(PaymentKeys) /\ IsFiniteSet(SpendCalls) /\ MaxSpendFaults \in Nat

VARIABLES spending,   \* the group action of each id: its kind and status
          paymentRow, \* payment_histories, by idempotency key: the action of the row
          bookings,   \* rows of purchases and of early exits made for each action
          interest,   \* expressions_of_interest: does this user have a row
          subscriptions, \* rows of purchases of this user
          sale,       \* the asset: "MINTED", or in a sale with or without a cap
          spendCall,  \* the requests under way
          spendFaults

spendVars  == <<spending, paymentRow, bookings, interest, subscriptions, sale, spendCall, spendFaults>>
recordVars == <<paymentRow, bookings, interest, subscriptions>>

\* In the stages that are left out no route of this module is open.
Stages == {"MINTED", "CAPPED", "OPEN"}
Unbuilt == [kind |-> "none", status |-> "none"]
NewSpendCall == [pc |-> "new", action |-> {}, key |-> {}, by |-> "none"]

SpendInit ==
  /\ spending = [a \in Spendings |-> Unbuilt] /\ paymentRow = [k \in PaymentKeys |-> {}]
  /\ bookings = [a \in Spendings |-> 0] /\ interest = FALSE
  /\ subscriptions = 0 /\ sale = "MINTED"
  /\ spendCall = [c \in SpendCalls |-> NewSpendCall] /\ spendFaults = 0

SpendAt(c, pc)    == spendCall[c].pc = pc
SpendTo(c, pc)    == spendCall' = [spendCall EXCEPT ![c].pc = pc]
TheSpending(c)    == CHOOSE a \in Spendings : a \in spendCall[c].action

-----------------------------------------------------------------------------
(* Building: a proposal that nobody has approved yet.                      *)
Propose(a, kind) ==
  /\ spending[a] = Unbuilt
  /\ spending' = [spending EXCEPT ![a] = [kind |-> kind, status |-> "PENDING"]]
  /\ UNCHANGED <<recordVars, sale, spendCall, spendFaults>>

BuildPaymentTx(a) == Propose(a, "payment")
BuildSwapTx(a)    == Propose(a, "swap")
BuildApproveTx(a) == Propose(a, "approve")
\* Proposed when the application is confirmed: see Tokenization.
ProposeApplicationFee(a) == Propose(a, "fee")

\* Proposed by the group's own routes: any other call of the Safe, or a local change.
ProposeAction(a) == Propose(a, "call") \/ Propose(a, "local")

\* The primary or the secondary sale; a cap counts in its window only.
SaleOpen == sale \in {"CAPPED", "OPEN"}
EnforceCapAndStatus == SaleOpen /\ (sale = "CAPPED" => subscriptions + 1 <= Cap)

BuildCryptoPurchase(a) == EnforceCapAndStatus /\ Propose(a, "purchase")
BuildEarlyExit(a)      == SaleOpen /\ Propose(a, "exit")

\* A purchase with fiat has its row before anything is paid or executed: see Fiat.
SubscribeWithFiat(c) ==
  /\ SpendAt(c, "new") /\ EnforceCapAndStatus /\ SpendTo(c, "subscribe")
  /\ UNCHANGED <<spending, recordVars, sale, spendFaults>>

\* The row is deleted again when its invoice is refused.
RecordFiatSubscription(c) ==
  /\ SpendAt(c, "subscribe") /\ SpendTo(c, "over") /\ subscriptions' \in {subscriptions, subscriptions + 1}
  /\ UNCHANGED <<spending, paymentRow, bookings, interest, sale, spendFaults>>

-----------------------------------------------------------------------------
(* Submitting, up to the status that ApproveAction reads.  The kind of the *)
(* action is not asked for.                                                *)
Submit(c, a, by, key) ==
  /\ SpendAt(c, "new") /\ spending[a] # Unbuilt
  /\ spendCall' = [spendCall EXCEPT ![c] = [pc |-> IF spending[a].status = "PENDING" THEN "approve" ELSE "over",
                                            action |-> {a}, key |-> key, by |-> by]]
  /\ UNCHANGED <<spending, recordVars, sale, spendFaults>>

\* The answer to a key that has a row is that row.
SubmitPayment(c, a, k) == paymentRow[k] = {} /\ Submit(c, a, "payment", {k})

SubmitSwap(c, a)            == Submit(c, a, "swap", {})
SubmitApprove(c, a)         == Submit(c, a, "approve", {})
ConfirmCryptoPurchase(c, a) == Submit(c, a, "purchase", {})
ConfirmEarlyExit(c, a)      == Submit(c, a, "exit", {})
SubmitApplicationFee(c, a)  == Submit(c, a, "fee", {})

Keeps(by) == by \in {"payment", "purchase", "exit"}
Executed(c, told) ==
  spendCall' = [spendCall EXCEPT ![c].pc = IF told /\ Keeps(spendCall[c].by) THEN "record" ELSE "over"]

\* Mutant: any answer without an error is taken for an execution.
ApproveUnseen(c) ==
  /\ SpendAt(c, "approve") /\ Executed(c, TRUE)
  /\ spending' \in {spending, [spending EXCEPT ![TheSpending(c)].status = "EXECUTED"]}
  /\ UNCHANGED <<recordVars, sale, spendFaults>>
\* ApproveAction: executed, or more approvals are missing, or it is refused or fails.  The
\* nonce of the Safe lets one call of an action land; a local action is executed again.
ApproveSpending(c) ==
  LET a == TheSpending(c) IN
  /\ SpendAt(c, "approve")
  /\ \/ /\ spending[a].kind = "local" \/ spending[a].status = "PENDING"
        /\ Executed(c, TRUE) /\ spending' = [spending EXCEPT ![a].status = "EXECUTED"]
     \/ Executed(c, FALSE) /\ UNCHANGED spending
  /\ UNCHANGED <<recordVars, sale, spendFaults>>

\* The transactions of all local actions are the same: none.
SameTx(a, b) == a = b \/ (spending[a].kind = "local" /\ spending[b].kind = "local")
\* The unique keys refuse a second row for a key or for a transaction.
RecordPayment(c) ==
  /\ SpendAt(c, "record") /\ spendCall[c].by = "payment" /\ SpendTo(c, "over")
  /\ LET a == TheSpending(c)  free == \A k \in spendCall[c].key : paymentRow[k] = {} IN
     paymentRow' = IF free /\ \A k \in PaymentKeys : \A b \in paymentRow[k] : ~SameTx(a, b)
                     THEN [k \in PaymentKeys |-> IF k \in spendCall[c].key THEN {a} ELSE paymentRow[k]]
                     ELSE paymentRow
  /\ UNCHANGED <<spending, bookings, interest, subscriptions, sale, spendFaults>>

\* Recorded with what the asset is by then; there is no cap and no unique key here.
RecordPurchase(c) ==
  /\ SpendAt(c, "record") /\ spendCall[c].by = "purchase" /\ SpendTo(c, "over")
  /\ bookings' = [bookings EXCEPT ![TheSpending(c)] = @ + 1] /\ subscriptions' = subscriptions + 1
  /\ UNCHANGED <<spending, paymentRow, interest, sale, spendFaults>>

RecordEarlyExit(c) ==
  /\ SpendAt(c, "record") /\ spendCall[c].by = "exit" /\ SpendTo(c, "over")
  /\ bookings' = [bookings EXCEPT ![TheSpending(c)] = @ + 1]
  /\ UNCHANGED <<spending, paymentRow, interest, subscriptions, sale, spendFaults>>

-----------------------------------------------------------------------------
\* The status and an existing row are read, and the row is created or updated.
ExpressInterest(c) ==
  /\ SpendAt(c, "new") /\ sale = "MINTED" /\ SpendTo(c, "interest")
  /\ UNCHANGED <<spending, recordVars, sale, spendFaults>>

SaveInterest(c) ==
  /\ SpendAt(c, "interest") /\ SpendTo(c, "over") /\ interest' = TRUE
  /\ UNCHANGED <<spending, paymentRow, bookings, subscriptions, sale, spendFaults>>

\* Any change: see Tokenization, where a stale save takes a stage back.
OpenOrCloseSale ==
  /\ sale' \in Stages
  /\ UNCHANGED <<spending, recordVars, spendCall, spendFaults>>

\* A statement fails, or the process restarts: nothing is tried again but by its client.
FailSpendCalls ==
  /\ spendFaults < MaxSpendFaults /\ spendFaults' = spendFaults + 1
  /\ \E cs \in {SpendCalls} \cup {{c} : c \in SpendCalls} :
       spendCall' = [c \in SpendCalls |-> IF c \in cs /\ spendCall[c].pc # "new" THEN [spendCall[c] EXCEPT !.pc = "over"]
                                          ELSE spendCall[c]]
  /\ UNCHANGED <<spending, recordVars, sale>>

PaymentRoutes(c, a)  == BuildPaymentTx(a) \/ \E k \in PaymentKeys : SubmitPayment(c, a, k)
SwapRoutes(c, a)     == BuildSwapTx(a) \/ SubmitSwap(c, a)
AssetRoutes(c, a)    == BuildApproveTx(a) \/ SubmitApprove(c, a)
FeeRoutes(c, a)      == ProposeApplicationFee(a) \/ SubmitApplicationFee(c, a)
PurchaseRoutes(c, a) == BuildCryptoPurchase(a) \/ ConfirmCryptoPurchase(c, a)
ExitRoutes(c, a)     == BuildEarlyExit(a) \/ ConfirmEarlyExit(c, a)

SpendNext ==
  \/ \E c \in SpendCalls, a \in Spendings :
       \/ PaymentRoutes(c, a) \/ SwapRoutes(c, a) \/ AssetRoutes(c, a) \/ FeeRoutes(c, a)
       \/ PurchaseRoutes(c, a) \/ ExitRoutes(c, a)
  \/ \E a \in Spendings : ProposeAction(a)
  \/ \E c \in SpendCalls : \/ SubscribeWithFiat(c) \/ RecordFiatSubscription(c) \/ ApproveSpending(c) \/ RecordPayment(c)
                           \/ RecordPurchase(c) \/ RecordEarlyExit(c)
                           \/ ExpressInterest(c) \/ SaveInterest(c)
  \/ OpenOrCloseSale \/ FailSpendCalls

SpendSpec == SpendInit /\ [][SpendNext]_spendVars

-----------------------------------------------------------------------------
SpendTypeOK ==
  /\ spending \in [Spendings -> [kind: {"none", "payment", "swap", "approve", "purchase", "exit", "fee", "call", "local"},
                                 status: {"none", "PENDING", "EXECUTED"}]]
  /\ paymentRow \in [PaymentKeys -> SUBSET Spendings] /\ interest \in BOOLEAN
  /\ bookings \in [Spendings -> Nat] /\ subscriptions \in Nat /\ sale \in Stages
  /\ spendCall \in [SpendCalls -> [pc: {"new", "approve", "record", "interest", "subscribe", "over"},
                                   action: SUBSET Spendings, key: SUBSET PaymentKeys,
                                   by: {"none", "payment", "swap", "approve", "purchase", "exit", "fee"}]]
  /\ spendFaults \in 0..MaxSpendFaults

\* What the wallet has executed on the chain is in the books once at most: over all the
\* tables, and with the requests that are about to record it, however often and through
\* whichever routes and with whatever approver it is submitted.
Booked(a) == Cardinality({k \in PaymentKeys : a \in paymentRow[k]}) + bookings[a]
               + Cardinality({c \in SpendCalls : SpendAt(c, "record") /\ spendCall[c].action = {a}})
SpendOnce == \A a \in Spendings : spending[a].kind # "local" => Booked(a) <= 1

\* What is in the books was executed.
SpendRecordsHold == \A a \in Spendings : Booked(a) > 0 => spending[a].status = "EXECUTED"
=============================================================================
