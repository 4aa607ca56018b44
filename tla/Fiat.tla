------------------------------- MODULE Fiat -------------------------------
(***************************************************************************)
(* Fiat payments.  The provider reports a charge with a webhook, which it  *)
(* may send again, also while the first one is being served.  The charge   *)
(* for an activation makes the faucet dispense; any other charge settles   *)
(* the invoice of that reference, whose transaction is submitted now.  A   *)
(* purchase has it signed with the distribution key when it is built, with *)
(* the nonce that was next at that time; an invoice that a client creates  *)
(* itself may bring a transaction of that client.                          *)
(***************************************************************************)
EXTENDS FiniteSets, Naturals

CONSTANTS Purchases,    \* references of fiat purchases
          Deliveries,   \* bound: webhooks served
          MaxFiatFaults \* bound: failed calls and stopped requests

VARIABLES invoice,   \* fiat_payment_invoices: its status and the nonce it was signed with
          paid,      \* fiat_payments: how many rows each charge has
          charged,   \* what the provider has charged: external
          activated, \* users.activated
          dispensed, \* the faucet's submissions of gas and of the reward
          sender,    \* the distribution key's transactions: the node and the chain
          delivery,  \* the webhooks being served
          fiatFaults

fiatVars == <<invoice, paid, charged, activated, dispensed, sender, delivery, fiatFaults>>

Activation == "activation"
Charges    == Purchases \cup {Activation}
Unsigned   == Cardinality(Purchases) + 1  \* the nonce of an invoice without a transaction
Foreign    == Unsigned + 1                \* and with one that a client has signed
Nonces     == 0..Cardinality(Purchases)
Pause      == "pause"                     \* Sale.setPaused, sent with the same key
NoInvoice  == [status |-> "none", nonce |-> Unsigned]
Waiting    == [pc |-> "waiting", charge |-> Activation]

\* The product of a charge tells an activation from the purchase of a reference.
ASSUME FiatAssumption ==
  /\ IsFiniteSet(Purchases) /\ IsFiniteSet(Deliveries) /\ MaxFiatFaults \in Nat
  /\ {Activation, Pause} \cap Purchases = {}

FiatInit ==
  /\ invoice = [p \in Purchases |-> NoInvoice]
  /\ paid = [c \in Charges |-> 0] /\ charged = {}
  /\ activated = FALSE /\ dispensed = [gas |-> 0, reward |-> 0]
  /\ sender = [mined |-> 0, pool |-> [n \in Nonces |-> {}], accepted |-> {}, landed |-> {}]
  /\ delivery = [d \in Deliveries |-> Waiting] /\ fiatFaults = 0

At(d, pc)  == delivery[d].pc = pc
To(d, pc)  == delivery' = [delivery EXCEPT ![d].pc = pc]
FiatFault  == fiatFaults < MaxFiatFaults /\ fiatFaults' = fiatFaults + 1
\* PendingNonceAt
NextNonces == {n \in Nonces : n >= sender.mined /\ sender.pool[n] = {}
                              /\ \A m \in sender.mined..n : m # n => sender.pool[m] # {}}

-----------------------------------------------------------------------------
\* An invoice of a client: the reference must be new, and the transaction is the client's.
CreateInvoice(p) ==
  /\ invoice[p] = NoInvoice
  /\ \E n \in {Unsigned, Foreign} : invoice' = [invoice EXCEPT ![p] = [status |-> "PENDING", nonce |-> n]]
  /\ UNCHANGED <<paid, charged, activated, dispensed, sender, delivery, fiatFaults>>

\* SignTx takes the next nonce of the distribution key and does not use it yet.
BuildFiatPurchase(p) ==
  /\ invoice[p] = NoInvoice
  /\ \E n \in NextNonces : invoice' = [invoice EXCEPT ![p] = [status |-> "PENDING", nonce |-> n]]
  /\ UNCHANGED <<paid, charged, activated, dispensed, sender, delivery, fiatFaults>>

Charge(c) ==
  /\ c \notin charged /\ (c \in Purchases => invoice[c].status # "none")
  /\ charged' = charged \cup {c}
  /\ UNCHANGED <<invoice, paid, activated, dispensed, sender, delivery, fiatFaults>>

\* Any number of webhooks for one charge.
FlutterwaveWebhook(d, c) ==
  /\ At(d, "waiting") /\ c \in charged
  /\ delivery' = [delivery EXCEPT ![d] = [charge |-> c,
       pc |-> IF c = Activation THEN (IF activated THEN "over" ELSE "gas")
              ELSE IF invoice[c].status = "PENDING" /\ invoice[c].nonce # Unsigned THEN "submit" ELSE "over"]]
  /\ UNCHANGED <<invoice, paid, charged, activated, dispensed, sender, fiatFaults>>

DispenseGas(d) ==
  /\ At(d, "gas") /\ dispensed' = [dispensed EXCEPT !.gas = @ + 1] /\ To(d, "reward")
  /\ UNCHANGED <<invoice, paid, charged, activated, sender, fiatFaults>>

\* Without a rate for the reward token its half is left out.
DispenseReward(d) ==
  /\ At(d, "reward") /\ To(d, "activate")
  /\ dispensed' \in {dispensed, [dispensed EXCEPT !.reward = @ + 1]}
  /\ UNCHANGED <<invoice, paid, charged, activated, sender, fiatFaults>>

ProcessActivation(d) ==
  /\ At(d, "activate") /\ To(d, "over")
  /\ activated' = TRUE /\ paid' = [paid EXCEPT ![Activation] = @ + 1]
  /\ UNCHANGED <<invoice, charged, dispensed, sender, fiatFaults>>

\* A client needs no charge to submit what it has signed itself.
BroadcastOwn(p) ==
  /\ invoice[p].nonce = Foreign /\ p \notin sender.accepted
  /\ sender' = [sender EXCEPT !.accepted = @ \cup {p}]
  /\ UNCHANGED <<invoice, paid, charged, activated, dispensed, delivery, fiatFaults>>

Accept(x, n) == [sender EXCEPT !.pool[n] = {x}, !.accepted = @ \cup {x}]

\* The node refuses a used nonce and what it has already; a transaction with the nonce
\* of a waiting one takes its place if the fees rose enough between the two signatures.
\* A client's transaction may be refused for reasons of its own.
SubmitSignedTransaction(d) ==
  LET p == delivery[d].charge n == invoice[p].nonce
      mayReplace == sender.pool[n] # {} /\ p \notin sender.accepted IN
  /\ At(d, "submit")
  /\ \/ /\ n # Foreign /\ n >= sender.mined /\ (sender.pool[n] = {} \/ mayReplace)
        /\ sender' = Accept(p, n) /\ To(d, "complete")
     \/ /\ n = Foreign /\ p \notin sender.accepted /\ To(d, "complete")
        /\ sender' = [sender EXCEPT !.accepted = @ \cup {p}]
     \/ /\ n # Foreign => n < sender.mined \/ sender.pool[n] # {}
        /\ To(d, "over") /\ UNCHANGED sender
  /\ UNCHANGED <<invoice, paid, charged, activated, dispensed, fiatFaults>>

SettlePendingInvoice(d) ==
  LET p == delivery[d].charge IN
  /\ At(d, "complete") /\ To(d, "over")
  /\ invoice' = [invoice EXCEPT ![p].status = "COMPLETED"]
  /\ paid' = [paid EXCEPT ![p] = @ + 1]
  /\ UNCHANGED <<charged, activated, dispensed, sender, fiatFaults>>

\* A call or a statement fails, or the process stops: what was done stays done.
FailDelivery(d) ==
  /\ ~At(d, "waiting") /\ ~At(d, "over") /\ FiatFault /\ To(d, "over")
  /\ UNCHANGED <<invoice, paid, charged, activated, dispensed, sender>>

\* The worker of tokenization closes a sale with the same key.
SendPause ==
  /\ Pause \notin sender.accepted /\ \E n \in NextNonces : sender' = Accept(Pause, n)
  /\ UNCHANGED <<invoice, paid, charged, activated, dispensed, delivery, fiatFaults>>

MineNext ==
  /\ sender.mined \in Nonces /\ sender.pool[sender.mined] # {}
  /\ sender' = [sender EXCEPT !.mined = @ + 1, !.landed = @ \cup sender.pool[sender.mined]]
  /\ UNCHANGED <<invoice, paid, charged, activated, dispensed, delivery, fiatFaults>>

FiatNext ==
  \/ \E p \in Purchases : CreateInvoice(p) \/ BuildFiatPurchase(p) \/ BroadcastOwn(p)
  \/ \E c \in Charges : Charge(c) \/ \E d \in Deliveries : FlutterwaveWebhook(d, c)
  \/ \E d \in Deliveries : \/ DispenseGas(d) \/ DispenseReward(d) \/ ProcessActivation(d)
                           \/ SubmitSignedTransaction(d) \/ SettlePendingInvoice(d) \/ FailDelivery(d)
  \/ SendPause \/ MineNext

FiatSpec == FiatInit /\ [][FiatNext]_fiatVars

-----------------------------------------------------------------------------
FiatTypeOK ==
  /\ invoice \in [Purchases -> [status: {"none", "PENDING", "COMPLETED"}, nonce: Nonces \cup {Unsigned, Foreign}]]
  /\ paid \in [Charges -> 0..Cardinality(Deliveries)] /\ charged \subseteq Charges /\ activated \in BOOLEAN
  /\ dispensed \in [gas: 0..Cardinality(Deliveries), reward: 0..Cardinality(Deliveries)]
  /\ sender.mined \in 0..(Cardinality(Purchases) + 1) /\ sender.landed \subseteq sender.accepted
  /\ \A n \in Nonces : Cardinality(sender.pool[n]) <= 1
  /\ delivery \in [Deliveries -> [charge: Charges,
       pc: {"waiting", "gas", "reward", "activate", "submit", "complete", "over"}]]
  /\ fiatFaults \in 0..MaxFiatFaults

\* However often its webhook is delivered a purchase is settled once: the node refuses
\* to take its transaction twice, also when another one has taken its place.
SettledOnce == \A p \in Purchases : paid[p] <= 1

\* A settled invoice has its payment row and its transaction was handed over, what the
\* distribution key's account has seen landing was charged, and every recorded activation
\* has had its gas.
FiatRecordsHold ==
  /\ \A p \in Purchases : /\ invoice[p].status = "COMPLETED" <=> paid[p] > 0
                          /\ paid[p] > 0 => p \in sender.accepted
  /\ sender.landed \ {Pause} \subseteq charged
  /\ activated <=> paid[Activation] > 0
  /\ paid[Activation] <= dispensed.gas

\* Refuted: the comment on ProcessActivation says that a duplicate delivery of the webhook
\* never pays out twice, but "activated" is read before the faucet pays and set after.
ActivationPaysOnce == dispensed.gas <= 1
=============================================================================
