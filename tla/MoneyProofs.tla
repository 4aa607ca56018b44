---------------------------- MODULE MoneyProofs ----------------------------
(***************************************************************************)
(* Proofs about the money that leaves the process: fiat purchases, crypto  *)
(* deposits and withdrawals, and the books of what a wallet has spent, for *)
(* any number of purchases, networks, requests and failures.               *)
(***************************************************************************)
EXTENDS Fiat, Crypto, WalletCalls, FiniteSetTheorems, TLAPS

\* How the size of a set changes when one element may come or go.
LEMMA MoveCount ==
  ASSUME NEW D, IsFiniteSet(D), NEW d \in D, NEW S \in SUBSET D, NEW T \in SUBSET D,
         \A e \in D \ {d} : e \in S <=> e \in T
  PROVE  /\ IsFiniteSet(S) /\ IsFiniteSet(T)
         /\ Cardinality(S) \in Nat /\ Cardinality(T) \in Nat
         /\ Cardinality(T) = Cardinality(S) + (IF d \in T THEN 1 ELSE 0) - (IF d \in S THEN 1 ELSE 0)
<1>1. IsFiniteSet(S) /\ IsFiniteSet(T)
  BY FS_Subset
<1>2. Cardinality(S) \in Nat /\ Cardinality(T) \in Nat
  BY <1>1, FS_CardinalityType
<1>3. CASE d \in S <=> d \in T
  <2>1. S = T
    BY <1>3
  <2> QED
    BY <1>1, <1>2, <1>3, <2>1
<1>4. CASE d \in S /\ d \notin T
  <2>1. T = S \ {d}
    BY <1>4
  <2> QED
    BY <1>1, <1>2, <1>4, <2>1, FS_RemoveElement
<1>5. CASE d \notin S /\ d \in T
  <2>1. T = S \cup {d}
    BY <1>5
  <2> QED
    BY <1>1, <1>2, <1>5, <2>1, FS_AddElement
<1> QED
  BY <1>3, <1>4, <1>5

-----------------------------------------------------------------------------
(* Fiat.  The webhooks that have not come to their end, and those on their *)
(* way between two steps, are counted against what has been done.          *)
In(P)  == {d \in Deliveries : delivery[d].pc \in P}
Steps  == {"waiting", "gas", "reward", "activate", "submit", "complete", "over"}
Open   == {"waiting", "gas", "reward", "activate", "submit", "complete"}
Signed == Purchases \cup {Pause}
Sender == [mined: 0..(Cardinality(Purchases) + 1), pool: [Nonces -> SUBSET Signed],
           accepted: SUBSET Signed, landed: SUBSET Signed]

Signable == Nonces \cup {Foreign}

\* A purchase whose transaction was accepted has its nonce taken, for good: no webhook
\* can hand it over again, so that one at most comes to settle it.
PurchaseInv ==
  /\ \A p \in Purchases :
       /\ p \in sender.accepted =>
            /\ invoice[p].nonce \in Signable
            /\ invoice[p].nonce \in Nonces => sender.pool[invoice[p].nonce] # {}
       /\ paid[p] <= 1 /\ (invoice[p].status = "COMPLETED" <=> paid[p] > 0)
       /\ paid[p] > 0 => p \in sender.accepted
  /\ \A d \in Deliveries :
       /\ ~At(d, "waiting") => delivery[d].charge \in charged
       /\ delivery[d].pc \in {"submit", "complete"} =>
            /\ delivery[d].charge \in Purchases
            /\ invoice[delivery[d].charge].status # "none" /\ invoice[delivery[d].charge].nonce \in Signable
       /\ At(d, "complete") =>
            /\ delivery[d].charge \in sender.accepted /\ paid[delivery[d].charge] = 0
            /\ \A e \in Deliveries : At(e, "complete") /\ delivery[e].charge = delivery[d].charge => e = d
  /\ \A n \in Nonces : sender.pool[n] \subseteq sender.accepted /\ sender.pool[n] \ {Pause} \subseteq charged
  /\ sender.landed \ {Pause} \subseteq charged

\* Every recorded activation has had its gas, as have those that wait for the rest.
ActivationInv ==
  /\ activated <=> paid[Activation] > 0
  /\ paid[Activation] + Cardinality(In({"reward", "activate"})) <= dispensed.gas

\* A webhook does each thing once.
CountInv ==
  /\ \A c \in Charges : paid[c] + Cardinality(In(Open)) <= Cardinality(Deliveries)
  /\ dispensed.gas + Cardinality(In({"waiting", "gas"})) <= Cardinality(Deliveries)
  /\ dispensed.reward + Cardinality(In({"waiting", "gas", "reward"})) <= Cardinality(Deliveries)

FiatInv == FiatTypeOK /\ sender \in Sender /\ PurchaseInv /\ ActivationInv /\ CountInv

LEMMA FiatFacts ==
  /\ Cardinality(Purchases) \in Nat /\ Cardinality(Deliveries) \in Nat
  /\ Unsigned \notin Nonces /\ Unsigned \in Nat /\ Nonces \subseteq Nat
  /\ Foreign \notin Nonces /\ Foreign \in Nat /\ Unsigned # Foreign
  /\ Activation \notin Purchases /\ Pause \notin Purchases /\ Activation \in Charges /\ Purchases \subseteq Charges
  /\ \A c \in Charges : c \in Purchases <=> c # Activation
BY FiatAssumption, FS_CardinalityType DEF Unsigned, Foreign, Nonces, Charges

\* The steps of one webhook move it alone.
LEMMA InMoves ==
  ASSUME FiatTypeOK, NEW d \in Deliveries, NEW P, \A e \in Deliveries : e # d => delivery'[e] = delivery[e]
  PROVE  /\ Cardinality(In(P)) \in Nat /\ Cardinality(In(P)') \in Nat
         /\ Cardinality(In(P)') =
              Cardinality(In(P)) + (IF delivery'[d].pc \in P THEN 1 ELSE 0) - (IF delivery[d].pc \in P THEN 1 ELSE 0)
<1>1. In(P) \in SUBSET Deliveries /\ In(P)' \in SUBSET Deliveries
  BY DEF In
<1>2. \A e \in Deliveries \ {d} : e \in In(P) <=> e \in In(P)'
  BY DEF In
<1>3. (d \in In(P) <=> delivery[d].pc \in P) /\ (d \in In(P)' <=> delivery'[d].pc \in P)
  BY DEF In
<1>4. IsFiniteSet(Deliveries)
  BY FiatAssumption
<1> HIDE DEF In
<1>5. /\ Cardinality(In(P)) \in Nat /\ Cardinality(In(P)') \in Nat
      /\ Cardinality(In(P)') = Cardinality(In(P)) + (IF d \in In(P)' THEN 1 ELSE 0) - (IF d \in In(P) THEN 1 ELSE 0)
  BY <1>1, <1>2, <1>4, MoveCount
<1> QED
  BY <1>3, <1>5

LEMMA DeliveryTo ==
  ASSUME FiatTypeOK, NEW d \in Deliveries, NEW pc \in Steps, To(d, pc)
  PROVE  /\ delivery' \in [Deliveries -> [charge: Charges, pc: Steps]]
         /\ delivery'[d].pc = pc /\ delivery'[d].charge = delivery[d].charge
         /\ \A e \in Deliveries : e # d => delivery'[e] = delivery[e]
BY DEF FiatTypeOK, To, Steps

LEMMA FiatInvInit == FiatInit => FiatInv
<1> SUFFICES ASSUME FiatInit PROVE FiatInv
  OBVIOUS
<1>1. In(Open) = Deliveries /\ In({"waiting", "gas"}) = Deliveries
      /\ In({"waiting", "gas", "reward"}) = Deliveries /\ In({"reward", "activate"}) = {}
  BY DEF FiatInit, In, Open, Waiting
<1>2. /\ \A p \in Purchases : invoice[p].status = "none" /\ invoice[p].nonce = Unsigned
      /\ invoice \in [Purchases -> [status: {"none", "PENDING", "COMPLETED"}, nonce: Nonces \cup {Unsigned, Foreign}]]
  BY DEF FiatInit, NoInvoice
<1>3. \A d \in Deliveries : delivery[d].pc = "waiting" /\ delivery[d] = Waiting
  BY DEF FiatInit, Waiting
<1>4. FiatTypeOK
  <2>1. delivery \in [Deliveries -> [charge: Charges,
          pc: {"waiting", "gas", "reward", "activate", "submit", "complete", "over"}]]
    BY FiatFacts DEF FiatInit, Waiting
  <2>2. \A n \in Nonces : sender.pool[n] = {}
    BY DEF FiatInit
  <2>3. \A n \in Nonces : Cardinality(sender.pool[n]) <= 1
    BY <2>2, FS_EmptySet
  <2>4. /\ paid \in [Charges -> 0..Cardinality(Deliveries)] /\ charged \subseteq Charges /\ activated \in BOOLEAN
        /\ dispensed \in [gas: 0..Cardinality(Deliveries), reward: 0..Cardinality(Deliveries)]
    <3>1. 0 \in 0..Cardinality(Deliveries)
      BY FiatFacts
    <3> QED
      BY <3>1 DEF FiatInit
  <2>5. /\ sender.mined \in 0..(Cardinality(Purchases) + 1) /\ sender.landed \subseteq sender.accepted
        /\ fiatFaults \in 0..MaxFiatFaults
    BY FiatFacts, FiatAssumption DEF FiatInit
  <2> QED
    BY <1>2, <2>1, <2>3, <2>4, <2>5 DEF FiatTypeOK
<1>5. sender \in Sender
  BY FiatFacts DEF FiatInit, Sender
<1>6. PurchaseInv
  BY <1>2, <1>3, FiatFacts DEF FiatInit, PurchaseInv, At
<1>7. ActivationInv
  <2>1. Cardinality({}) = 0
    BY FS_EmptySet
  <2>2. paid[Activation] = 0 /\ dispensed.gas = 0 /\ ~activated
    BY FiatFacts DEF FiatInit
  <2>3. Cardinality(In({"reward", "activate"})) = 0
    BY <1>1, <2>1
  <2> QED
    BY <2>2, <2>3 DEF ActivationInv
<1>8. CountInv
  BY <1>1, FiatFacts DEF FiatInit, CountInv
<1> QED
  BY <1>4, <1>5, <1>6, <1>7, <1>8 DEF FiatInv

\* What only one webhook's position and the invoices can change.
LEMMA WebhookCounts ==
  ASSUME FiatInv, NEW d \in Deliveries, \A e \in Deliveries : e # d => delivery'[e] = delivery[e],
         UNCHANGED <<paid, dispensed, activated>>,
         delivery'[d].pc \in Open => delivery[d].pc \in Open,
         delivery'[d].pc \in {"waiting", "gas"} => delivery[d].pc \in {"waiting", "gas"},
         delivery'[d].pc \in {"waiting", "gas", "reward"} => delivery[d].pc \in {"waiting", "gas", "reward"},
         delivery'[d].pc \in {"reward", "activate"} => delivery[d].pc \in {"reward", "activate"}
  PROVE  ActivationInv' /\ CountInv'
<1> DEFINE reward == {"reward", "activate"}
           early == {"waiting", "gas"}
           half == {"waiting", "gas", "reward"}
<1>1. FiatTypeOK
  BY DEF FiatInv
<1>2. Cardinality(In(Open)') <= Cardinality(In(Open)) /\ Cardinality(In(Open)') \in Nat /\ Cardinality(In(Open)) \in Nat
  BY <1>1, InMoves
<1>3. Cardinality(In(reward)') <= Cardinality(In(reward)) /\ Cardinality(In(reward)') \in Nat /\ Cardinality(In(reward)) \in Nat
  BY <1>1, InMoves
<1>4. Cardinality(In(early)') <= Cardinality(In(early)) /\ Cardinality(In(early)') \in Nat /\ Cardinality(In(early)) \in Nat
  BY <1>1, InMoves
<1>5. Cardinality(In(half)') <= Cardinality(In(half)) /\ Cardinality(In(half)') \in Nat /\ Cardinality(In(half)) \in Nat
  BY <1>1, InMoves
<1>6. /\ \A c \in Charges : paid[c] \in Nat
      /\ dispensed.gas \in Nat /\ dispensed.reward \in Nat
  BY <1>1, FiatFacts DEF FiatTypeOK
<1>7. ActivationInv'
  BY <1>3, <1>6, FiatFacts DEF FiatInv, ActivationInv
<1>8. CountInv'
  BY <1>2, <1>4, <1>5, <1>6, FiatFacts DEF FiatInv, CountInv
<1> QED
  BY <1>7, <1>8

LEMMA AcceptEffect ==
  ASSUME sender \in Sender, NEW x \in Signed, NEW n \in Nonces, sender' = Accept(x, n)
  PROVE  /\ sender' \in Sender /\ sender'.accepted = sender.accepted \cup {x}
         /\ sender'.mined = sender.mined /\ sender'.landed = sender.landed
         /\ sender'.pool[n] = {x} /\ \A m \in Nonces : m # n => sender'.pool[m] = sender.pool[m]
<1> DEFINE pool == [sender.pool EXCEPT ![n] = {x}]
           accepted == sender.accepted \cup {x}
<1>1. pool \in [Nonces -> SUBSET Signed] /\ accepted \in SUBSET Signed
  BY DEF Sender
<1>2. pool[n] = {x} /\ \A m \in Nonces : m # n => pool[m] = sender.pool[m]
  BY DEF Sender
<1>3. sender' = [sender EXCEPT !.pool = pool, !.accepted = accepted]
  BY DEF Accept, Sender
<1> HIDE DEF pool, accepted
<1>4. /\ sender' \in Sender /\ sender'.pool = pool /\ sender'.accepted = accepted
      /\ sender'.mined = sender.mined /\ sender'.landed = sender.landed
  BY <1>1, <1>3 DEF Sender
<1> QED
  BY <1>2, <1>4 DEF accepted

\* Invoices, charges and the other transactions of the distribution key.
LEMMA AroundStep ==
  ASSUME FiatInv,
         \/ \E p \in Purchases : CreateInvoice(p) \/ BuildFiatPurchase(p) \/ BroadcastOwn(p)
         \/ \E c \in Charges : Charge(c)
         \/ SendPause \/ MineNext
  PROVE  FiatInv'
<1>1. /\ FiatTypeOK /\ sender \in Sender /\ PurchaseInv
      /\ UNCHANGED <<paid, activated, dispensed, delivery, fiatFaults>>
  BY DEF FiatInv, CreateInvoice, BuildFiatPurchase, BroadcastOwn, Charge, SendPause, MineNext
<1>2. ActivationInv' /\ CountInv'
  BY <1>1 DEF FiatInv, ActivationInv, CountInv, In
<1>3. ASSUME NEW p \in Purchases, NEW n \in Nonces \cup {Unsigned, Foreign}, invoice[p] = NoInvoice,
             invoice' = [invoice EXCEPT ![p] = [status |-> "PENDING", nonce |-> n]],
             UNCHANGED <<charged, sender>>
      PROVE  FiatInv'
  <2>1. invoice[p].status = "none" /\ p \notin sender.accepted
    BY <1>1, <1>3, FiatFacts DEF NoInvoice, PurchaseInv, Signable
  <2>2. /\ invoice'[p].status = "PENDING" /\ invoice'[p] \in [status: {"none", "PENDING", "COMPLETED"}, nonce: Nonces \cup {Unsigned, Foreign}]
        /\ \A q \in Purchases : q # p => invoice'[q] = invoice[q]
    BY <1>1, <1>3 DEF FiatTypeOK
  <2>3. FiatTypeOK'
    BY <1>1, <1>3, <2>2 DEF FiatTypeOK
  <2>4. \A d \in Deliveries : delivery[d].pc \in {"submit", "complete"} => delivery[d].charge # p
    BY <1>1, <2>1 DEF PurchaseInv
  <2>5. PurchaseInv'
    BY <1>1, <1>3, <2>1, <2>2, <2>4 DEF PurchaseInv, At
  <2> QED
    BY <1>1, <1>2, <1>3, <2>3, <2>5 DEF FiatInv
<1>4. ASSUME NEW p \in Purchases, CreateInvoice(p) \/ BuildFiatPurchase(p) PROVE FiatInv'
  <2>1. CASE CreateInvoice(p)
    BY <1>3, <2>1 DEF CreateInvoice
  <2>2. CASE BuildFiatPurchase(p)
    BY <1>3, <2>2 DEF BuildFiatPurchase, NextNonces
  <2> QED
    BY <1>4, <2>1, <2>2
<1>8. ASSUME NEW p \in Purchases, BroadcastOwn(p) PROVE FiatInv'
  <2>1. /\ invoice[p].nonce = Foreign /\ UNCHANGED <<invoice, charged>>
        /\ sender' = [sender EXCEPT !.accepted = @ \cup {p}]
    BY <1>8 DEF BroadcastOwn
  <2>2. p \in Signed /\ invoice[p].nonce \in Signable /\ invoice[p].nonce \notin Nonces
    BY <2>1, FiatFacts DEF Signed, Signable
  <2>3. /\ sender' \in Sender /\ sender'.pool = sender.pool /\ sender'.accepted = sender.accepted \cup {p}
        /\ sender'.landed = sender.landed /\ sender'.mined = sender.mined
    BY <1>1, <2>1, <2>2 DEF Sender
  <2>4. FiatTypeOK'
    BY <1>1, <2>1, <2>3 DEF FiatTypeOK
  <2>5. PurchaseInv'
    BY <1>1, <2>1, <2>2, <2>3 DEF PurchaseInv, At
  <2> QED
    BY <1>1, <1>2, <2>3, <2>4, <2>5 DEF FiatInv
<1>5. ASSUME NEW c \in Charges, Charge(c) PROVE FiatInv'
  <2>1. charged' = charged \cup {c} /\ UNCHANGED <<invoice, sender>>
    BY <1>5 DEF Charge
  <2>2. FiatTypeOK' /\ PurchaseInv'
    BY <1>1, <2>1 DEF FiatTypeOK, PurchaseInv, At
  <2> QED
    BY <1>1, <1>2, <2>1, <2>2 DEF FiatInv
<1>6. CASE SendPause
  <2>1. PICK n \in Nonces : sender.pool[n] = {} /\ sender' = Accept(Pause, n)
    BY <1>6 DEF SendPause, NextNonces
  <2>2. /\ sender' \in Sender /\ sender'.accepted = sender.accepted \cup {Pause}
        /\ sender'.mined = sender.mined /\ sender'.landed = sender.landed
        /\ sender'.pool[n] = {Pause} /\ \A m \in Nonces : m # n => sender'.pool[m] = sender.pool[m]
    BY <1>1, <2>1, AcceptEffect DEF Signed
  <2>3. invoice' = invoice /\ charged' = charged
    BY <1>6 DEF SendPause
  <2>4. \A m \in Nonces : Cardinality(sender'.pool[m]) <= 1
    <3>1. Cardinality({Pause}) = 1 /\ 1 <= 1
      BY FS_Singleton
    <3>2. Cardinality(sender'.pool[n]) <= 1
      BY <2>2, <3>1, Zenon
    <3> QED
      BY <1>1, <2>2, <3>2 DEF FiatTypeOK
  <2>5. FiatTypeOK'
    BY <1>1, <2>2, <2>3, <2>4 DEF FiatTypeOK
  <2>6. \A p \in Purchases : p \in sender'.accepted <=> p \in sender.accepted
    BY <2>2, FiatFacts
  <2>7. PurchaseInv'
    BY <1>1, <2>2, <2>3, <2>6 DEF PurchaseInv, At
  <2> QED
    BY <1>2, <2>2, <2>5, <2>7 DEF FiatInv
<1>7. CASE MineNext
  <2> DEFINE l == sender.landed \cup sender.pool[sender.mined]
  <2>1. sender.mined \in Nonces /\ sender' = [sender EXCEPT !.mined = @ + 1, !.landed = l]
    BY <1>1, <1>7 DEF MineNext, Sender
  <2>2. /\ sender.mined + 1 \in 0..(Cardinality(Purchases) + 1) /\ l \in SUBSET sender.accepted /\ l \in SUBSET Signed
        /\ l \ {Pause} \subseteq charged
    BY <1>1, <2>1, FiatFacts DEF PurchaseInv, FiatTypeOK, Nonces, Sender
  <2> HIDE DEF l
  <2>3. /\ sender' \in Sender /\ sender'.pool = sender.pool /\ sender'.accepted = sender.accepted
        /\ sender'.landed = l /\ sender'.mined = sender.mined + 1
    BY <1>1, <2>1, <2>2 DEF Sender
  <2>4. invoice' = invoice /\ charged' = charged
    BY <1>7 DEF MineNext
  <2>5. FiatTypeOK' /\ PurchaseInv'
    BY <1>1, <2>2, <2>3, <2>4 DEF FiatTypeOK, PurchaseInv, At
  <2> QED
    BY <1>2, <2>3, <2>5 DEF FiatInv
<1> QED
  BY <1>4, <1>5, <1>6, <1>7, <1>8

\* A webhook that starts, submits, or fails.
LEMMA WebhookStep ==
  ASSUME FiatInv, NEW d \in Deliveries,
         (\E c \in Charges : FlutterwaveWebhook(d, c)) \/ SubmitSignedTransaction(d) \/ FailDelivery(d)
  PROVE  FiatInv'
<1>1. /\ FiatTypeOK /\ sender \in Sender /\ PurchaseInv
      /\ UNCHANGED <<invoice, paid, charged, activated, dispensed>>
  BY DEF FiatInv, FlutterwaveWebhook, SubmitSignedTransaction, FailDelivery
<1>2. {"gas", "submit", "complete", "over"} \subseteq Steps
  BY DEF Steps
<1>3. ASSUME NEW c \in Charges, FlutterwaveWebhook(d, c) PROVE FiatInv'
  <2> DEFINE pc == IF c = Activation THEN (IF activated THEN "over" ELSE "gas")
                   ELSE IF invoice[c].status = "PENDING" /\ invoice[c].nonce # Unsigned THEN "submit" ELSE "over"
  <2>1. /\ pc \in {"gas", "submit", "over"}
        /\ pc = "submit" => c \in Purchases /\ invoice[c].status = "PENDING" /\ invoice[c].nonce \in Signable
    BY <1>1, FiatFacts DEF FiatTypeOK, Signable
  <2>2. /\ delivery[d].pc = "waiting" /\ c \in charged /\ sender' = sender /\ fiatFaults' = fiatFaults
        /\ delivery' = [delivery EXCEPT ![d] = [charge |-> c, pc |-> pc]]
    BY <1>3 DEF FlutterwaveWebhook, At
  <2> HIDE DEF pc
  <2>3. /\ delivery' \in [Deliveries -> [charge: Charges, pc: Steps]]
        /\ delivery'[d].pc = pc /\ delivery'[d].charge = c
        /\ \A e \in Deliveries : e # d => delivery'[e] = delivery[e]
    BY <1>1, <2>1, <2>2 DEF FiatTypeOK, Steps
  <2>4. FiatTypeOK'
    BY <1>1, <2>2, <2>3 DEF FiatTypeOK, Steps
  <2>5. PurchaseInv'
    BY <1>1, <2>1, <2>2, <2>3 DEF PurchaseInv, At
  <2>6. ActivationInv' /\ CountInv'
    BY <1>1, <2>1, <2>2, <2>3, WebhookCounts DEF Open
  <2> QED
    BY <1>1, <2>2, <2>4, <2>5, <2>6 DEF FiatInv
<1>4. CASE FailDelivery(d)
  <2>1. To(d, "over") /\ sender' = sender /\ ~At(d, "waiting") /\ fiatFaults' \in 0..MaxFiatFaults
    BY <1>1, <1>4, FiatAssumption DEF FailDelivery, FiatFault, FiatTypeOK
  <2>2. /\ delivery' \in [Deliveries -> [charge: Charges, pc: Steps]]
        /\ delivery'[d].pc = "over" /\ delivery'[d].charge = delivery[d].charge
        /\ \A e \in Deliveries : e # d => delivery'[e] = delivery[e]
    BY <1>1, <1>2, <2>1, DeliveryTo
  <2>3. FiatTypeOK'
    BY <1>1, <2>1, <2>2 DEF FiatTypeOK, Steps
  <2>4. PurchaseInv'
    BY <1>1, <2>1, <2>2 DEF PurchaseInv, At
  <2>5. ActivationInv' /\ CountInv'
    BY <1>1, <2>2, WebhookCounts DEF Open
  <2> QED
    BY <1>1, <2>1, <2>3, <2>4, <2>5 DEF FiatInv
<1>5. CASE SubmitSignedTransaction(d)
  <2> DEFINE p == delivery[d].charge
             n == invoice[p].nonce
  <2>1. /\ delivery[d].pc = "submit" /\ p \in Purchases /\ p \in charged /\ n \in Signable /\ fiatFaults' = fiatFaults
        /\ invoice[p].status # "none" /\ p \in Signed
    BY <1>1, <1>5 DEF SubmitSignedTransaction, At, PurchaseInv, Signed
  <2>2. CASE To(d, "over") /\ sender' = sender
    <3>1. /\ delivery' \in [Deliveries -> [charge: Charges, pc: Steps]]
          /\ delivery'[d].pc = "over" /\ delivery'[d].charge = delivery[d].charge
          /\ \A e \in Deliveries : e # d => delivery'[e] = delivery[e]
      BY <1>1, <1>2, <2>2, DeliveryTo
    <3>2. FiatTypeOK'
      BY <1>1, <2>1, <2>2, <3>1 DEF FiatTypeOK, Steps
    <3>4. PurchaseInv'
      BY <1>1, <2>1, <2>2, <3>1 DEF PurchaseInv, At
    <3>3. ActivationInv' /\ CountInv'
      BY <1>1, <3>1, WebhookCounts DEF Open
    <3> QED
      BY <1>1, <2>2, <3>2, <3>3, <3>4 DEF FiatInv
  <2>3. ASSUME p \notin sender.accepted, sender' \in Sender, To(d, "complete"),
               sender'.accepted = sender.accepted \cup {p}, sender'.mined = sender.mined, sender'.landed = sender.landed,
               \A m \in Nonces : sender'.pool[m] = sender.pool[m] \/ sender'.pool[m] = {p},
               n \in Nonces => sender'.pool[n] = {p}
        PROVE  FiatInv'
    <3>3. /\ delivery' \in [Deliveries -> [charge: Charges, pc: Steps]]
          /\ delivery'[d].pc = "complete" /\ delivery'[d].charge = p
          /\ \A e \in Deliveries : e # d => delivery'[e] = delivery[e]
      BY <1>1, <1>2, <2>3, DeliveryTo
    <3>4. \A m \in Nonces : Cardinality(sender'.pool[m]) <= 1
      <4> SUFFICES ASSUME NEW m \in Nonces PROVE Cardinality(sender'.pool[m]) <= 1
        OBVIOUS
      <4>1. Cardinality({p}) = 1
        BY FS_Singleton, Zenon
      <4>2. CASE sender'.pool[m] = {p}
        BY <4>1, <4>2
      <4>3. CASE sender'.pool[m] = sender.pool[m]
        BY <1>1, <4>3 DEF FiatTypeOK
      <4> QED
        BY <2>3, <4>2, <4>3
    <3>5. FiatTypeOK'
      <4>1. delivery' \in [Deliveries -> [charge: Charges,
              pc: {"waiting", "gas", "reward", "activate", "submit", "complete", "over"}]]
        BY <3>3 DEF Steps
      <4> QED
        BY <1>1, <2>1, <2>3, <3>4, <4>1 DEF FiatTypeOK
    <3>6. paid[p] = 0 /\ \A e \in Deliveries : At(e, "complete") => delivery[e].charge # p
      <4>1. paid[p] \in Nat
        BY <1>1, <2>1, FiatFacts DEF FiatTypeOK
      <4> QED
        BY <1>1, <2>1, <2>3, <4>1 DEF PurchaseInv
    <3>7. PurchaseInv'
      <4>1. \A q \in Purchases :
              /\ q \in sender'.accepted =>
                   /\ invoice'[q].nonce \in Signable
                   /\ invoice'[q].nonce \in Nonces => sender'.pool[invoice'[q].nonce] # {}
              /\ paid'[q] <= 1 /\ (invoice'[q].status = "COMPLETED" <=> paid'[q] > 0)
              /\ paid'[q] > 0 => q \in sender'.accepted
        BY <1>1, <2>1, <2>3 DEF PurchaseInv
      <4>2. /\ \A m \in Nonces : sender'.pool[m] \subseteq sender'.accepted /\ sender'.pool[m] \ {Pause} \subseteq charged'
            /\ sender'.landed \ {Pause} \subseteq charged'
        BY <1>1, <2>1, <2>3 DEF PurchaseInv
      <4>3. \A e \in Deliveries :
              /\ delivery'[e].pc # "waiting" => delivery'[e].charge \in charged'
              /\ delivery'[e].pc \in {"submit", "complete"} =>
                   /\ delivery'[e].charge \in Purchases
                   /\ invoice'[delivery'[e].charge].status # "none" /\ invoice'[delivery'[e].charge].nonce \in Signable
              /\ delivery'[e].pc = "complete" =>
                   /\ delivery'[e].charge \in sender'.accepted /\ paid'[delivery'[e].charge] = 0
                   /\ \A f \in Deliveries : delivery'[f].pc = "complete" /\ delivery'[f].charge = delivery'[e].charge => f = e
        BY <1>1, <2>1, <2>3, <3>3, <3>6 DEF PurchaseInv, At
      <4> QED
        BY <4>1, <4>2, <4>3 DEF PurchaseInv, At
    <3>8. ActivationInv' /\ CountInv'
      BY <1>1, <2>1, <3>3, WebhookCounts DEF Open
    <3> QED
      BY <2>3, <3>5, <3>7, <3>8 DEF FiatInv
  <2>4. CASE /\ n # Foreign /\ (sender.pool[n] = {} \/ p \notin sender.accepted)
             /\ sender' = Accept(p, n) /\ To(d, "complete")
    <3>0. n \in Nonces
      BY <2>1, <2>4 DEF Signable
    <3>1. p \notin sender.accepted
      BY <1>1, <2>1, <2>4, <3>0 DEF PurchaseInv
    <3>2. /\ sender' \in Sender /\ sender'.accepted = sender.accepted \cup {p}
          /\ sender'.mined = sender.mined /\ sender'.landed = sender.landed
          /\ sender'.pool[n] = {p} /\ \A m \in Nonces : m # n => sender'.pool[m] = sender.pool[m]
      BY <1>1, <2>1, <2>4, <3>0, AcceptEffect
    <3> QED
      BY <2>3, <2>4, <3>1, <3>2
  <2>5. CASE /\ n = Foreign /\ p \notin sender.accepted /\ To(d, "complete")
             /\ sender' = [sender EXCEPT !.accepted = @ \cup {p}]
    <3>1. /\ sender' \in Sender /\ sender'.pool = sender.pool /\ sender'.accepted = sender.accepted \cup {p}
          /\ sender'.landed = sender.landed /\ sender'.mined = sender.mined
      BY <1>1, <2>1, <2>5 DEF Sender
    <3>2. n \notin Nonces
      BY <2>5, FiatFacts
    <3> QED
      BY <2>3, <2>5, <3>1, <3>2
  <2> QED
    BY <1>5, <2>2, <2>4, <2>5 DEF SubmitSignedTransaction
<1> QED
  BY <1>3, <1>4, <1>5

\* A webhook that pays an activation out, or settles the purchase it has handed over.
LEMMA PayOutStep ==
  ASSUME FiatInv, NEW d \in Deliveries,
         DispenseGas(d) \/ DispenseReward(d) \/ ProcessActivation(d)
  PROVE  FiatInv'
<1> DEFINE reward == {"reward", "activate"}
           early == {"waiting", "gas"}
           half == {"waiting", "gas", "reward"}
<1>1. /\ FiatTypeOK /\ sender \in Sender /\ PurchaseInv /\ ActivationInv /\ CountInv
      /\ UNCHANGED <<invoice, charged, sender, fiatFaults>>
  BY DEF FiatInv, DispenseGas, DispenseReward, ProcessActivation
<1>2. {"reward", "activate", "over"} \subseteq Steps
  BY DEF Steps
<1>3. /\ \A c \in Charges : paid[c] \in Nat
      /\ dispensed.gas \in Nat /\ dispensed.reward \in Nat
      /\ Cardinality(Deliveries) \in Nat
  BY <1>1, FiatFacts DEF FiatTypeOK
<1>4. ASSUME NEW pc \in {"reward", "activate", "over"}, To(d, pc), delivery[d].pc \in {"gas", "reward", "activate"},
             delivery[d].pc # pc
      PROVE  /\ delivery' \in [Deliveries -> [charge: Charges, pc: Steps]]
             /\ delivery'[d].pc = pc /\ delivery'[d].charge = delivery[d].charge
             /\ \A e \in Deliveries : e # d => delivery'[e] = delivery[e]
             /\ \A e \in Deliveries : delivery'[e].pc \in {"submit", "complete"} <=> delivery[e].pc \in {"submit", "complete"}
  <2>1. /\ delivery' \in [Deliveries -> [charge: Charges, pc: Steps]]
        /\ delivery'[d].pc = pc /\ delivery'[d].charge = delivery[d].charge
        /\ \A e \in Deliveries : e # d => delivery'[e] = delivery[e]
    BY <1>1, <1>2, <1>4, DeliveryTo
  <2> QED
    BY <1>4, <2>1
<1>5. CASE DispenseGas(d)
  <2>1. /\ delivery[d].pc = "gas" /\ To(d, "reward") /\ UNCHANGED <<paid, activated>>
        /\ dispensed' = [dispensed EXCEPT !.gas = @ + 1]
    BY <1>5 DEF DispenseGas, At
  <2>2. /\ dispensed'.gas = dispensed.gas + 1 /\ dispensed'.reward = dispensed.reward
    BY <1>1, <2>1 DEF FiatTypeOK
  <2>3. /\ delivery' \in [Deliveries -> [charge: Charges, pc: Steps]]
        /\ delivery'[d].pc = "reward" /\ delivery'[d].charge = delivery[d].charge
        /\ \A e \in Deliveries : e # d => delivery'[e] = delivery[e]
    BY <1>4, <2>1
  <2>4. /\ Cardinality(In(Open)') = Cardinality(In(Open)) /\ Cardinality(In(Open)) \in Nat
    BY <1>1, <2>1, <2>3, InMoves DEF Open
  <2>5. /\ Cardinality(In(reward)') = Cardinality(In(reward)) + 1 /\ Cardinality(In(reward)) \in Nat
    BY <1>1, <2>1, <2>3, InMoves
  <2>6. /\ Cardinality(In(early)') = Cardinality(In(early)) - 1 /\ Cardinality(In(early)') \in Nat /\ Cardinality(In(early)) \in Nat
    BY <1>1, <2>1, <2>3, InMoves
  <2>7. /\ Cardinality(In(half)') = Cardinality(In(half)) /\ Cardinality(In(half)) \in Nat
    BY <1>1, <2>1, <2>3, InMoves
  <2>8. ActivationInv'
    BY <1>1, <1>3, <2>1, <2>2, <2>5, FiatFacts DEF ActivationInv
  <2>9. CountInv'
    BY <1>1, <1>3, <2>1, <2>2, <2>4, <2>6, <2>7 DEF CountInv
  <2>10. dispensed' \in [gas: 0..Cardinality(Deliveries), reward: 0..Cardinality(Deliveries)]
    <3>1. dispensed.gas + 1 \in 0..Cardinality(Deliveries)
      BY <1>1, <1>3, <2>6 DEF CountInv
    <3> QED
      BY <1>1, <2>1, <3>1 DEF FiatTypeOK
  <2>11. FiatTypeOK'
    BY <1>1, <2>1, <2>3, <2>10 DEF FiatTypeOK, Steps
  <2>12. PurchaseInv'
    BY <1>1, <2>1, <2>3 DEF PurchaseInv, At
  <2> QED
    BY <1>1, <2>8, <2>9, <2>11, <2>12 DEF FiatInv
<1>6. CASE DispenseReward(d)
  <2>1. /\ delivery[d].pc = "reward" /\ To(d, "activate") /\ UNCHANGED <<paid, activated>>
        /\ dispensed' \in {dispensed, [dispensed EXCEPT !.reward = @ + 1]}
    BY <1>6 DEF DispenseReward, At
  <2>2. dispensed'.gas = dispensed.gas /\ dispensed'.reward \in {dispensed.reward, dispensed.reward + 1}
    BY <1>1, <2>1 DEF FiatTypeOK
  <2>3. /\ delivery' \in [Deliveries -> [charge: Charges, pc: Steps]]
        /\ delivery'[d].pc = "activate" /\ delivery'[d].charge = delivery[d].charge
        /\ \A e \in Deliveries : e # d => delivery'[e] = delivery[e]
    BY <1>4, <2>1
  <2>4. /\ Cardinality(In(Open)') = Cardinality(In(Open)) /\ Cardinality(In(Open)) \in Nat
    BY <1>1, <2>1, <2>3, InMoves DEF Open
  <2>5. /\ Cardinality(In(reward)') = Cardinality(In(reward)) /\ Cardinality(In(reward)) \in Nat
    BY <1>1, <2>1, <2>3, InMoves
  <2>6. /\ Cardinality(In(early)') = Cardinality(In(early)) /\ Cardinality(In(early)) \in Nat
    BY <1>1, <2>1, <2>3, InMoves
  <2>7. /\ Cardinality(In(half)') = Cardinality(In(half)) - 1 /\ Cardinality(In(half)') \in Nat /\ Cardinality(In(half)) \in Nat
    BY <1>1, <2>1, <2>3, InMoves
  <2>8. ActivationInv'
    BY <1>1, <1>3, <2>1, <2>2, <2>5, FiatFacts DEF ActivationInv
  <2>9. CountInv'
    BY <1>1, <1>3, <2>1, <2>2, <2>4, <2>6, <2>7 DEF CountInv
  <2>10. dispensed' \in [gas: 0..Cardinality(Deliveries), reward: 0..Cardinality(Deliveries)]
    <3>1. dispensed.reward + 1 \in 0..Cardinality(Deliveries)
      BY <1>1, <1>3, <2>7 DEF CountInv
    <3> QED
      BY <1>1, <2>1, <3>1 DEF FiatTypeOK
  <2>11. FiatTypeOK'
    BY <1>1, <2>1, <2>3, <2>10 DEF FiatTypeOK, Steps
  <2>12. PurchaseInv'
    BY <1>1, <2>1, <2>3 DEF PurchaseInv, At
  <2> QED
    BY <1>1, <2>8, <2>9, <2>11, <2>12 DEF FiatInv
<1>7. CASE ProcessActivation(d)
  <2>1. /\ delivery[d].pc = "activate" /\ To(d, "over") /\ UNCHANGED dispensed
        /\ activated' = TRUE /\ paid' = [paid EXCEPT ![Activation] = @ + 1]
    BY <1>7 DEF ProcessActivation, At
  <2>2. /\ paid'[Activation] = paid[Activation] + 1
        /\ \A c \in Charges : c # Activation => paid'[c] = paid[c]
    BY <1>1, <2>1, FiatFacts DEF FiatTypeOK
  <2>3. /\ delivery' \in [Deliveries -> [charge: Charges, pc: Steps]]
        /\ delivery'[d].pc = "over" /\ delivery'[d].charge = delivery[d].charge
        /\ \A e \in Deliveries : e # d => delivery'[e] = delivery[e]
    BY <1>4, <2>1
  <2>4. /\ Cardinality(In(Open)') = Cardinality(In(Open)) - 1 /\ Cardinality(In(Open)') \in Nat /\ Cardinality(In(Open)) \in Nat
    BY <1>1, <2>1, <2>3, InMoves DEF Open
  <2>5. /\ Cardinality(In(reward)') = Cardinality(In(reward)) - 1
        /\ Cardinality(In(reward)') \in Nat /\ Cardinality(In(reward)) \in Nat
    BY <1>1, <2>1, <2>3, InMoves
  <2>6. /\ Cardinality(In(early)') = Cardinality(In(early)) /\ Cardinality(In(early)) \in Nat
    BY <1>1, <2>1, <2>3, InMoves
  <2>7. /\ Cardinality(In(half)') = Cardinality(In(half)) /\ Cardinality(In(half)) \in Nat
    BY <1>1, <2>1, <2>3, InMoves
  <2>8. ActivationInv'
    BY <1>1, <1>3, <2>1, <2>2, <2>5, FiatFacts DEF ActivationInv
  <2>9. \A c \in Charges : paid'[c] \in Nat /\ paid'[c] <= paid[c] + 1
    BY <1>3, <2>2
  <2>10. CountInv'
    BY <1>1, <1>3, <2>1, <2>4, <2>6, <2>7, <2>9 DEF CountInv
  <2>11. paid' \in [Charges -> 0..Cardinality(Deliveries)]
    <3>1. paid[Activation] + 1 \in 0..Cardinality(Deliveries)
      BY <1>1, <1>3, <2>4, FiatFacts DEF CountInv
    <3> QED
      BY <1>1, <2>1, <3>1 DEF FiatTypeOK
  <2>12. FiatTypeOK'
    BY <1>1, <2>1, <2>3, <2>11 DEF FiatTypeOK, Steps
  <2>13. PurchaseInv'
    BY <1>1, <2>1, <2>2, <2>3, FiatFacts DEF PurchaseInv, At
  <2> QED
    BY <1>1, <2>8, <2>10, <2>12, <2>13 DEF FiatInv
<1> QED
  BY <1>5, <1>6, <1>7

LEMMA SettleStep ==
  ASSUME FiatInv, NEW d \in Deliveries, SettlePendingInvoice(d)
  PROVE  FiatInv'
<1> DEFINE p == delivery[d].charge
           reward == {"reward", "activate"}
           early == {"waiting", "gas"}
           half == {"waiting", "gas", "reward"}
<1>1. /\ FiatTypeOK /\ sender \in Sender /\ PurchaseInv /\ ActivationInv /\ CountInv
      /\ UNCHANGED <<charged, activated, dispensed, sender, fiatFaults>>
  BY DEF FiatInv, SettlePendingInvoice
<1>2. "over" \in Steps
  BY DEF Steps
<1>3. /\ \A c \in Charges : paid[c] \in Nat
      /\ dispensed.gas \in Nat /\ dispensed.reward \in Nat
      /\ Cardinality(Deliveries) \in Nat
  BY <1>1, FiatFacts DEF FiatTypeOK
<1>4. /\ delivery[d].pc = "complete" /\ To(d, "over")
      /\ invoice' = [invoice EXCEPT ![p].status = "COMPLETED"]
      /\ paid' = [paid EXCEPT ![p] = @ + 1]
  BY DEF SettlePendingInvoice, At
<1>5. /\ p \in Purchases /\ p \in sender.accepted /\ paid[p] = 0 /\ invoice[p].nonce \in Signable
      /\ \A e \in Deliveries : At(e, "complete") /\ delivery[e].charge = p => e = d
  BY <1>1, <1>4 DEF PurchaseInv, At
<1>6. /\ delivery' \in [Deliveries -> [charge: Charges, pc: Steps]]
      /\ delivery'[d].pc = "over" /\ delivery'[d].charge = p
      /\ \A e \in Deliveries : e # d => delivery'[e] = delivery[e]
  BY <1>1, <1>2, <1>4, DeliveryTo
<1>7. /\ paid'[p] = 1 /\ \A c \in Charges : c # p => paid'[c] = paid[c]
  BY <1>1, <1>4, <1>5, FiatFacts DEF FiatTypeOK
<1>8. /\ invoice' \in [Purchases -> [status: {"none", "PENDING", "COMPLETED"}, nonce: Nonces \cup {Unsigned, Foreign}]]
      /\ invoice'[p].status = "COMPLETED" /\ invoice'[p].nonce = invoice[p].nonce
      /\ \A q \in Purchases : q # p => invoice'[q] = invoice[q]
  BY <1>1, <1>4, <1>5 DEF FiatTypeOK
<1> HIDE DEF p
<1>9. /\ Cardinality(In(Open)') = Cardinality(In(Open)) - 1 /\ Cardinality(In(Open)') \in Nat /\ Cardinality(In(Open)) \in Nat
  BY <1>1, <1>4, <1>6, InMoves DEF Open
<1>10. /\ Cardinality(In(reward)') = Cardinality(In(reward)) /\ Cardinality(In(reward)) \in Nat
  BY <1>1, <1>4, <1>6, InMoves
<1>11. /\ Cardinality(In(early)') = Cardinality(In(early)) /\ Cardinality(In(early)) \in Nat
       /\ Cardinality(In(half)') = Cardinality(In(half)) /\ Cardinality(In(half)) \in Nat
  <2>1. Cardinality(In(early)') = Cardinality(In(early)) /\ Cardinality(In(early)) \in Nat
    BY <1>1, <1>4, <1>6, InMoves
  <2>2. Cardinality(In(half)') = Cardinality(In(half)) /\ Cardinality(In(half)) \in Nat
    BY <1>1, <1>4, <1>6, InMoves
  <2> QED
    BY <2>1, <2>2
<1>12. ActivationInv'
  <2>1. paid'[Activation] = paid[Activation]
    BY <1>5, <1>7, FiatFacts
  <2> QED
    BY <1>1, <1>10, <2>1 DEF ActivationInv
<1>13. CountInv'
  <2>1. \A c \in Charges : paid'[c] \in Nat /\ paid'[c] <= paid[c] + 1
    BY <1>3, <1>5, <1>7, FiatFacts
  <2> QED
    BY <1>1, <1>3, <1>9, <1>11, <2>1 DEF CountInv
<1>14. FiatTypeOK'
  <2>1. paid[p] + 1 \in 0..Cardinality(Deliveries)
    BY <1>1, <1>3, <1>5, <1>9, FiatFacts DEF CountInv
  <2>2. paid' \in [Charges -> 0..Cardinality(Deliveries)]
    BY <1>1, <1>4, <2>1 DEF FiatTypeOK, p
  <2> QED
    BY <1>1, <1>6, <1>8, <2>2 DEF FiatTypeOK, Steps
<1>15. PurchaseInv'
  <2>1. \A q \in Purchases :
          /\ q \in sender'.accepted =>
               /\ invoice'[q].nonce \in Signable
               /\ invoice'[q].nonce \in Nonces => sender'.pool[invoice'[q].nonce] # {}
          /\ paid'[q] <= 1 /\ (invoice'[q].status = "COMPLETED" <=> paid'[q] > 0)
          /\ paid'[q] > 0 => q \in sender'.accepted
    BY <1>1, <1>5, <1>7, <1>8, FiatFacts DEF PurchaseInv
  <2>2. \A e \in Deliveries :
          /\ delivery'[e].pc # "waiting" => delivery'[e].charge \in charged'
          /\ delivery'[e].pc \in {"submit", "complete"} =>
               /\ delivery'[e].charge \in Purchases
               /\ invoice'[delivery'[e].charge].status # "none" /\ invoice'[delivery'[e].charge].nonce \in Signable
          /\ delivery'[e].pc = "complete" =>
               /\ delivery'[e].charge \in sender'.accepted /\ paid'[delivery'[e].charge] = 0
               /\ \A f \in Deliveries : delivery'[f].pc = "complete" /\ delivery'[f].charge = delivery'[e].charge => f = e
    BY <1>1, <1>4, <1>5, <1>6, <1>7, <1>8, FiatFacts DEF PurchaseInv, At, p
  <2>3. /\ \A m \in Nonces : sender'.pool[m] \subseteq sender'.accepted /\ sender'.pool[m] \ {Pause} \subseteq charged'
        /\ sender'.landed \ {Pause} \subseteq charged'
    BY <1>1 DEF PurchaseInv
  <2> QED
    BY <2>1, <2>2, <2>3 DEF PurchaseInv, At
<1> QED
  BY <1>1, <1>12, <1>13, <1>14, <1>15 DEF FiatInv

LEMMA FiatInvStep == FiatInv /\ [FiatNext]_fiatVars => FiatInv'
<1> SUFFICES ASSUME FiatInv, [FiatNext]_fiatVars PROVE FiatInv'
  OBVIOUS
<1>1. CASE UNCHANGED fiatVars
  BY <1>1 DEF fiatVars, FiatInv, FiatTypeOK, PurchaseInv, ActivationInv, CountInv, In, At
<1>2. CASE \/ \E p \in Purchases : CreateInvoice(p) \/ BuildFiatPurchase(p) \/ BroadcastOwn(p)
           \/ \E c \in Charges : Charge(c)
           \/ SendPause \/ MineNext
  BY <1>2, AroundStep
<1>3. CASE \E d \in Deliveries : \/ \E c \in Charges : FlutterwaveWebhook(d, c)
                                \/ SubmitSignedTransaction(d) \/ FailDelivery(d)
  BY <1>3, WebhookStep
<1>4. CASE \E d \in Deliveries : DispenseGas(d) \/ DispenseReward(d) \/ ProcessActivation(d)
  BY <1>4, PayOutStep
<1>5. CASE \E d \in Deliveries : SettlePendingInvoice(d)
  BY <1>5, SettleStep
<1> QED
  BY <1>1, <1>2, <1>3, <1>4, <1>5 DEF FiatNext

LEMMA FiatInvImplies == FiatInv => FiatTypeOK /\ SettledOnce /\ FiatRecordsHold
<1> SUFFICES ASSUME FiatInv PROVE FiatTypeOK /\ SettledOnce /\ FiatRecordsHold
  OBVIOUS
<1>1. FiatTypeOK /\ sender \in Sender /\ PurchaseInv /\ ActivationInv
  BY DEF FiatInv
<1>2. sender.landed \ {Pause} \subseteq charged
  BY <1>1 DEF PurchaseInv
<1>3. paid[Activation] <= dispensed.gas
  <2>1. Cardinality(In({"reward", "activate"})) \in Nat
    <3>1. In({"reward", "activate"}) \in SUBSET Deliveries
      BY DEF In
    <3>2. IsFiniteSet(In({"reward", "activate"}))
      BY <3>1, FS_Subset, FiatAssumption
    <3> QED
      BY <3>2, FS_CardinalityType
  <2>2. paid[Activation] \in Nat /\ dispensed.gas \in Nat
    BY <1>1, FiatFacts DEF FiatTypeOK
  <2> QED
    BY <1>1, <2>1, <2>2 DEF ActivationInv
<1>4. \A p \in Purchases : /\ invoice[p].status = "COMPLETED" <=> paid[p] > 0
                           /\ paid[p] > 0 => p \in sender.accepted
  BY <1>1 DEF PurchaseInv
<1>5. activated <=> paid[Activation] > 0
  BY <1>1 DEF ActivationInv
<1>6. SettledOnce
  BY <1>1 DEF PurchaseInv, SettledOnce
<1>7. FiatRecordsHold
  BY <1>2, <1>3, <1>4, <1>5, Zenon DEF FiatRecordsHold
<1> QED
  BY <1>1, <1>6, <1>7

-----------------------------------------------------------------------------
(* Crypto.  The row of a deposit is what keeps a second poll away from it; *)
(* of an action on the chain one request at most has the word of its group *)
(* that it was executed, and that request alone goes on to the payout.     *)
DepositInv ==
  /\ credits \in [Networks -> Nat]
  /\ \A n \in Networks :
       /\ credits[n] <= 1
       /\ depositRow[n] = "none" => credits[n] = 0
       /\ depositRow[n] = "credited" => credits[n] > 0
       /\ cryptoPoll.pc = "credit" /\ cryptoPoll.deposit = {n} => depositRow[n] = "recorded" /\ credits[n] = 0
       /\ cryptoPoll.pc = "mark" /\ cryptoPoll.deposit = {n} => depositRow[n] # "none" /\ credits[n] = 1

Told(c) == cryptoRequest[c].pc \in {"record", "payout", "save"}
Names(c, a) == cryptoRequest[c].debit = {a}
Taken(c, a) == Names(c, a) /\ (Told(c) \/ payouts[c] > 0)
CryptoPcs == {"fresh", "addresses", "approve", "record", "payout", "save", "over"}
Actions == [kind: {"none", "withdrawal", "call", "local"}, status: {"none", "PENDING", "EXECUTED"}]
RequestType == [CryptoRequests -> [pc: CryptoPcs, todo: SUBSET Networks, debit: SUBSET Debits]]

\* What a request has done so far, by where it is.
OwnInv(c) ==
  /\ payouts[c] \in Nat /\ payouts[c] <= 1
  /\ RequestAt(c, "approve") => \E a \in Debits : Names(c, a)
  /\ Told(c) \/ withdrawalRow[c] # "none" => \E a \in Debits : Names(c, a) /\ debit[a].status = "EXECUTED"
  /\ payouts[c] > 0 => withdrawalRow[c] # "none"
  /\ withdrawalRow[c] = "ACCEPTED" => payouts[c] > 0
  /\ cryptoRequest[c].pc \in {"fresh", "addresses", "approve", "record"} => withdrawalRow[c] = "none" /\ payouts[c] = 0
  /\ RequestAt(c, "payout") => withdrawalRow[c] = "PENDING" /\ payouts[c] = 0
  /\ RequestAt(c, "save") => withdrawalRow[c] = "PENDING" /\ payouts[c] = 1

WithdrawalInv ==
  /\ \A c \in CryptoRequests : OwnInv(c)
  /\ \A c, e \in CryptoRequests : \A a \in Debits : Taken(c, a) /\ Taken(e, a) /\ c # e => debit[a].kind = "local"

CryptoInv == CryptoTypeOK /\ DepositInv /\ WithdrawalInv

LEMMA CryptoInvInit == CryptoInit => CryptoInv
<1> SUFFICES ASSUME CryptoInit PROVE CryptoInv
  OBVIOUS
<1>1. /\ \A n \in Networks : credits[n] = 0 /\ depositRow[n] = "none"
      /\ \A c \in CryptoRequests : payouts[c] = 0 /\ withdrawalRow[c] = "none" /\ cryptoRequest[c].pc = "fresh"
      /\ cryptoPoll.pc = "rest"
  BY DEF CryptoInit, Fresh, AtRest
<1>2. CryptoTypeOK
  <2>1. limitsRow \in BOOLEAN
    BY DEF CryptoInit
  <2>2. cryptoFaults \in 0..MaxCryptoFaults
    BY CryptoAssumption DEF CryptoInit
  <2>3. debit \in [Debits -> [kind: {"none", "withdrawal", "call", "local"}, status: {"none", "PENDING", "EXECUTED"}]]
    BY DEF CryptoInit, Unproposed
  <2> QED
    BY <2>1, <2>2, <2>3 DEF CryptoInit, CryptoTypeOK, Fresh, AtRest
<1>3. credits \in [Networks -> Nat]
  BY DEF CryptoInit
<1>4. DepositInv
  BY <1>1, <1>3 DEF DepositInv
<1>5. WithdrawalInv
  BY <1>1 DEF WithdrawalInv, OwnInv, Taken, RequestAt, Told
<1> QED
  BY <1>2, <1>4, <1>5 DEF CryptoInv

\* The steps of one request move it alone.
LEMMA CryptoRequestTo ==
  ASSUME CryptoTypeOK, NEW c \in CryptoRequests, NEW pc \in CryptoPcs, RequestTo(c, pc)
  PROVE  /\ cryptoRequest' \in RequestType
         /\ cryptoRequest'[c].pc = pc /\ cryptoRequest'[c].debit = cryptoRequest[c].debit
         /\ \A e \in CryptoRequests : e # c => cryptoRequest'[e] = cryptoRequest[e]
BY DEF CryptoTypeOK, RequestTo, RequestType, CryptoPcs

\* A step of one request keeps what holds of the others, as long as what was executed stays
\* so and the request takes nothing that another has taken.
LEMMA OneRequest ==
  ASSUME CryptoInv, CryptoTypeOK', DepositInv', NEW c \in CryptoRequests,
         \A e \in CryptoRequests : e # c =>
           cryptoRequest'[e] = cryptoRequest[e] /\ withdrawalRow'[e] = withdrawalRow[e] /\ payouts'[e] = payouts[e],
         \A a \in Debits : debit[a].status = "EXECUTED" => debit'[a] = debit[a],
         OwnInv(c)',
         \A a \in Debits : Taken(c, a)' =>
           Taken(c, a) \/ \A e \in CryptoRequests : Taken(e, a) /\ e # c => debit[a].kind = "local"
  PROVE  CryptoInv'
<1>1. WithdrawalInv
  BY DEF CryptoInv
<1>2. \A e \in CryptoRequests : OwnInv(e)'
  <2> SUFFICES ASSUME NEW e \in CryptoRequests, e # c PROVE OwnInv(e)'
    OBVIOUS
  <2>1. OwnInv(e)
    BY <1>1 DEF WithdrawalInv
  <2>2. cryptoRequest'[e] = cryptoRequest[e] /\ withdrawalRow'[e] = withdrawalRow[e] /\ payouts'[e] = payouts[e]
    OBVIOUS
  <2> QED
    BY <2>1, <2>2 DEF OwnInv, Told, RequestAt, Names
<1>3. \A e \in CryptoRequests : \A a \in Debits : Taken(e, a) => debit[a].status = "EXECUTED"
  <2> SUFFICES ASSUME NEW e \in CryptoRequests, NEW a \in Debits, Taken(e, a) PROVE debit[a].status = "EXECUTED"
    OBVIOUS
  <2>1. OwnInv(e)
    BY <1>1 DEF WithdrawalInv
  <2> QED
    BY <2>1 DEF OwnInv, Taken, Names
<1>4. \A e \in CryptoRequests : \A a \in Debits : e # c => (Taken(e, a)' <=> Taken(e, a))
  BY DEF Taken, Told, Names
<1>5. \A e \in CryptoRequests : \A a \in Debits : Taken(e, a) => debit'[a] = debit[a]
  BY <1>3
<1>6. \A e \in CryptoRequests : \A a \in Debits : Taken(c, a)' /\ Taken(e, a)' /\ e # c => debit'[a].kind = "local"
  <2> SUFFICES ASSUME NEW e \in CryptoRequests, NEW a \in Debits, Taken(c, a)', Taken(e, a)', e # c
               PROVE  debit'[a].kind = "local"
    OBVIOUS
  <2>1. Taken(e, a) /\ debit'[a] = debit[a]
    BY <1>4, <1>5
  <2>2. CASE Taken(c, a)
    BY <1>1, <2>1, <2>2 DEF WithdrawalInv
  <2>3. CASE ~Taken(c, a)
    BY <2>1, <2>3
  <2> QED
    BY <2>2, <2>3
<1>7. \A d, e \in CryptoRequests : \A a \in Debits : Taken(d, a)' /\ Taken(e, a)' /\ d # e => debit'[a].kind = "local"
  <2> SUFFICES ASSUME NEW d \in CryptoRequests, NEW e \in CryptoRequests, NEW a \in Debits,
                      Taken(d, a)', Taken(e, a)', d # e
               PROVE  debit'[a].kind = "local"
    OBVIOUS
  <2>1. CASE d = c \/ e = c
    BY <1>6, <2>1
  <2>2. CASE d # c /\ e # c
    BY <1>1, <1>4, <1>5, <2>2 DEF WithdrawalInv
  <2> QED
    BY <2>1, <2>2
<1> QED
  BY <1>2, <1>7 DEF CryptoInv, WithdrawalInv

\* The poller and the arrivals.
LEMMA PollStep ==
  ASSUME CryptoInv,
         \/ \E n \in Networks : Arrive(n) \/ SkipDeposit(n) \/ RecordDeposit(n) \/ CreditDeposit(n) \/ MarkCredited(n)
         \/ PollNewDeposits \/ EndPoll \/ FailPoll
  PROVE  CryptoInv'
<1>1. /\ CryptoTypeOK /\ DepositInv /\ WithdrawalInv
      /\ UNCHANGED <<addressRow, limitsRow, debit, withdrawalRow, payouts, cryptoRequest>>
  BY DEF CryptoInv, Arrive, SkipDeposit, RecordDeposit, CreditDeposit, MarkCredited, PollNewDeposits, EndPoll, FailPoll,
         withdrawalVars
<1>2. WithdrawalInv'
  BY <1>1 DEF WithdrawalInv, OwnInv, Taken, Names, Told, RequestAt
<1>3. ASSUME CryptoTypeOK', DepositInv' PROVE CryptoInv'
  BY <1>2, <1>3 DEF CryptoInv
<1>4. ASSUME NEW n \in Networks, Arrive(n) PROVE CryptoInv'
  <2>1. CryptoTypeOK' /\ DepositInv'
    BY <1>1, <1>4 DEF Arrive, CryptoTypeOK, DepositInv
  <2> QED
    BY <1>3, <2>1
<1>5. ASSUME NEW n \in Networks, SkipDeposit(n) PROVE CryptoInv'
  <2>1. /\ cryptoPoll' = [pc |-> "next", page |-> cryptoPoll.page \ {n}, deposit |-> {n}]
        /\ UNCHANGED <<depositRow, arrived, credits, cryptoFaults>>
    BY <1>5 DEF SkipDeposit, NextItem
  <2>2. CryptoTypeOK' /\ DepositInv'
    BY <1>1, <2>1 DEF CryptoTypeOK, DepositInv
  <2> QED
    BY <1>3, <2>2
<1>6. ASSUME NEW n \in Networks, RecordDeposit(n) PROVE CryptoInv'
  <2>1. /\ cryptoPoll' = [pc |-> "credit", page |-> cryptoPoll.page \ {n}, deposit |-> {n}]
        /\ depositRow[n] = "none" /\ depositRow' = [depositRow EXCEPT ![n] = "recorded"]
        /\ UNCHANGED <<arrived, credits, cryptoFaults>>
    BY <1>6 DEF RecordDeposit, NextItem
  <2>2. depositRow'[n] = "recorded" /\ \A m \in Networks : m # n => depositRow'[m] = depositRow[m]
    BY <1>1, <2>1 DEF CryptoTypeOK
  <2>3. /\ cryptoPoll'.pc = "credit" /\ \A m \in Networks : cryptoPoll'.deposit = {m} => m = n
    BY <2>1
  <2>4. CryptoTypeOK'
    BY <1>1, <2>1 DEF CryptoTypeOK
  <2>5. DepositInv'
    BY <1>1, <2>1, <2>2, <2>3 DEF DepositInv
  <2> QED
    BY <1>3, <2>4, <2>5
<1>7. ASSUME NEW n \in Networks, CreditDeposit(n) PROVE CryptoInv'
  <2>1. /\ cryptoPoll.pc = "credit" /\ cryptoPoll.deposit = {n} /\ UNCHANGED <<depositRow, arrived, cryptoFaults>>
        /\ \/ cryptoPoll' = [cryptoPoll EXCEPT !.pc = "next"] /\ UNCHANGED credits
           \/ cryptoPoll' = [cryptoPoll EXCEPT !.pc = "mark"] /\ credits' = [credits EXCEPT ![n] = @ + 1]
    BY <1>7 DEF CreditDeposit
  <2>2. CryptoTypeOK'
    BY <1>1, <2>1 DEF CryptoTypeOK
  <2>3. depositRow[n] = "recorded" /\ credits[n] = 0
    BY <1>1, <2>1 DEF DepositInv
  <2>4. CASE cryptoPoll' = [cryptoPoll EXCEPT !.pc = "next"] /\ UNCHANGED credits
    <3>1. cryptoPoll'.pc = "next"
      BY <1>1, <2>4 DEF CryptoTypeOK
    <3>2. DepositInv'
      BY <1>1, <2>1, <2>4, <3>1 DEF DepositInv
    <3> QED
      BY <1>3, <2>2, <3>2
  <2>5. CASE cryptoPoll' = [cryptoPoll EXCEPT !.pc = "mark"] /\ credits' = [credits EXCEPT ![n] = @ + 1]
    <3>1. cryptoPoll'.pc = "mark" /\ cryptoPoll'.deposit = {n} /\ \A m \in Networks : cryptoPoll'.deposit = {m} => m = n
      BY <1>1, <2>1, <2>5 DEF CryptoTypeOK
    <3>2. credits'[n] = 1 /\ credits' \in [Networks -> Nat] /\ \A m \in Networks : m # n => credits'[m] = credits[m]
      BY <1>1, <2>3, <2>5 DEF DepositInv
    <3>3. DepositInv'
      BY <1>1, <2>1, <2>3, <3>1, <3>2 DEF DepositInv
    <3> QED
      BY <1>3, <2>2, <3>3
  <2> QED
    BY <2>1, <2>4, <2>5
<1>8. ASSUME NEW n \in Networks, MarkCredited(n) PROVE CryptoInv'
  <2>1. /\ cryptoPoll.pc = "mark" /\ cryptoPoll.deposit = {n} /\ UNCHANGED <<arrived, credits, cryptoFaults>>
        /\ cryptoPoll' = [cryptoPoll EXCEPT !.pc = "next"] /\ depositRow' = [depositRow EXCEPT ![n] = "credited"]
    BY <1>8 DEF MarkCredited
  <2>2. CryptoTypeOK' /\ cryptoPoll'.pc = "next"
    BY <1>1, <2>1 DEF CryptoTypeOK
  <2>3. depositRow'[n] = "credited" /\ \A m \in Networks : m # n => depositRow'[m] = depositRow[m]
    BY <1>1, <2>1 DEF CryptoTypeOK
  <2>4. DepositInv'
    BY <1>1, <2>1, <2>2, <2>3 DEF DepositInv
  <2> QED
    BY <1>3, <2>2, <2>4
<1>9. CASE PollNewDeposits
  <2>1. PICK page \in SUBSET arrived : cryptoPoll' = [pc |-> "next", page |-> page, deposit |-> {}]
    BY <1>9 DEF PollNewDeposits
  <2>2. UNCHANGED <<depositRow, arrived, credits, cryptoFaults>>
    BY <1>9 DEF PollNewDeposits
  <2>3. CryptoTypeOK' /\ DepositInv'
    BY <1>1, <2>1, <2>2 DEF CryptoTypeOK, DepositInv
  <2> QED
    BY <1>3, <2>3
<1>10. CASE EndPoll
  <2>1. CryptoTypeOK' /\ DepositInv'
    BY <1>1, <1>10 DEF EndPoll, AtRest, CryptoTypeOK, DepositInv
  <2> QED
    BY <1>3, <2>1
<1>11. CASE FailPoll
  <2>1. /\ cryptoPoll' \in {[cryptoPoll EXCEPT !.pc = "next"], AtRest} /\ UNCHANGED <<depositRow, arrived, credits>>
        /\ cryptoFaults' \in 0..MaxCryptoFaults
    BY <1>1, <1>11, CryptoAssumption DEF FailPoll, CryptoFault, CryptoTypeOK
  <2>2. CryptoTypeOK' /\ cryptoPoll'.pc \in {"rest", "next"}
    BY <1>1, <2>1 DEF CryptoTypeOK, AtRest
  <2>3. DepositInv'
    BY <1>1, <2>1, <2>2 DEF DepositInv
  <2> QED
    BY <1>3, <2>2, <2>3
<1> QED
  BY <1>4, <1>5, <1>6, <1>7, <1>8, <1>9, <1>10, <1>11

\* The requests for deposit addresses and those that start or end.
LEMMA CryptoRequestStep ==
  ASSUME CryptoInv, NEW c \in CryptoRequests,
         \/ \E n \in Networks : SaveDepositAddress(c, n)
         \/ EnsureDepositAddresses(c) \/ FailCryptoRequest(c)
         \/ \E a \in Debits : BuildWithdrawal(c, a) \/ ConfirmWithdrawal(c, a)
  PROVE  CryptoInv'
<1>1. /\ CryptoTypeOK /\ DepositInv /\ WithdrawalInv /\ OwnInv(c)
      /\ UNCHANGED <<depositRow, arrived, credits, cryptoPoll, withdrawalRow, payouts>>
  BY DEF CryptoInv, WithdrawalInv, SaveDepositAddress, EnsureDepositAddresses, FailCryptoRequest, BuildWithdrawal,
         ConfirmWithdrawal, depositVars, withdrawalVars
<1>2. DepositInv'
  BY <1>1 DEF DepositInv
<1>3. ASSUME cryptoRequest' \in RequestType, \A e \in CryptoRequests : e # c => cryptoRequest'[e] = cryptoRequest[e],
             \/ cryptoRequest'[c].debit = cryptoRequest[c].debit /\ cryptoRequest'[c].pc \in {cryptoRequest[c].pc, "over"}
             \/ /\ cryptoRequest[c].pc = "fresh" /\ cryptoRequest'[c].pc \in {"addresses", "approve", "over"}
                /\ cryptoRequest'[c].pc = "approve" => \E a \in Debits : cryptoRequest'[c].debit = {a},
             debit' \in [Debits -> Actions],
             \A a \in Debits : debit[a].status = "EXECUTED" => debit'[a] = debit[a],
             addressRow' \subseteq Networks, addressRow \subseteq addressRow',
             limitsRow' \in BOOLEAN, cryptoFaults' \in 0..MaxCryptoFaults
      PROVE  CryptoInv'
  <2>1. CryptoTypeOK'
    BY <1>1, <1>3 DEF CryptoTypeOK, RequestType, CryptoPcs, Actions
  <2>2. CASE cryptoRequest'[c].debit = cryptoRequest[c].debit /\ cryptoRequest'[c].pc \in {cryptoRequest[c].pc, "over"}
    <3>1. OwnInv(c)'
      BY <1>1, <1>3, <2>2 DEF OwnInv, Told, RequestAt, Names
    <3>2. \A a \in Debits : Taken(c, a)' => Taken(c, a)
      BY <1>1, <2>2 DEF Taken, Told, Names
    <3> QED
      BY <1>1, <1>2, <1>3, <2>1, <3>1, <3>2, OneRequest
  <2>3. CASE /\ cryptoRequest[c].pc = "fresh" /\ cryptoRequest'[c].pc \in {"addresses", "approve", "over"}
             /\ cryptoRequest'[c].pc = "approve" => \E a \in Debits : cryptoRequest'[c].debit = {a}
    <3>1. withdrawalRow[c] = "none" /\ payouts[c] = 0
      BY <1>1, <2>3 DEF OwnInv
    <3>2. OwnInv(c)'
      BY <1>1, <2>3, <3>1 DEF OwnInv, Told, RequestAt, Names
    <3>3. \A a \in Debits : ~Taken(c, a)'
      BY <1>1, <2>3, <3>1 DEF Taken, Told
    <3> QED
      BY <1>1, <1>2, <1>3, <2>1, <3>2, <3>3, OneRequest
  <2> QED
    BY <1>3, <2>2, <2>3
<1>9. cryptoRequest \in RequestType /\ debit \in [Debits -> Actions] /\ limitsRow \in BOOLEAN /\ addressRow \subseteq Networks
      /\ cryptoFaults \in 0..MaxCryptoFaults
  BY <1>1 DEF CryptoTypeOK, RequestType, CryptoPcs, Actions
<1>4. ASSUME NEW n \in Networks, SaveDepositAddress(c, n) PROVE CryptoInv'
  <2> DEFINE pc == IF n \in addressRow \/ cryptoRequest[c].todo = {n} THEN "over" ELSE cryptoRequest[c].pc
             todo == cryptoRequest[c].todo \ {n}
             new == [cryptoRequest[c] EXCEPT !.todo = todo, !.pc = pc]
  <2>1. /\ cryptoRequest[c].pc = "addresses" /\ pc \in {"addresses", "over"} /\ todo \in SUBSET Networks
        /\ addressRow' = addressRow \cup {n}
        /\ cryptoRequest' = [cryptoRequest EXCEPT ![c].todo = todo, ![c].pc = pc]
        /\ UNCHANGED <<debit, limitsRow, cryptoFaults>>
    BY <1>1, <1>4 DEF SaveDepositAddress, RequestAt, CryptoTypeOK, withdrawalVars
  <2> HIDE DEF pc, todo
  <2>4. /\ cryptoRequest' = [cryptoRequest EXCEPT ![c] = new] /\ new.pc = pc /\ new.debit = cryptoRequest[c].debit
        /\ new \in [pc: CryptoPcs, todo: SUBSET Networks, debit: SUBSET Debits]
    BY <1>9, <2>1 DEF RequestType, CryptoPcs
  <2> HIDE DEF new
  <2>2. /\ cryptoRequest' \in RequestType
        /\ cryptoRequest'[c].pc = pc /\ cryptoRequest'[c].debit = cryptoRequest[c].debit
        /\ \A e \in CryptoRequests : e # c => cryptoRequest'[e] = cryptoRequest[e]
    BY <1>9, <2>4 DEF RequestType
  <2>3. addressRow' \subseteq Networks /\ addressRow \subseteq addressRow'
    BY <1>9, <2>1
  <2> QED
    BY <1>3, <1>9, <2>1, <2>2, <2>3
<1>5. CASE EnsureDepositAddresses(c)
  <2> DEFINE pc == IF addressRow = {} THEN "addresses" ELSE "over"
             new == [Fresh EXCEPT !.pc = pc, !.todo = Networks]
  <2>1. /\ cryptoRequest' = [cryptoRequest EXCEPT ![c] = new] /\ cryptoRequest[c].pc = "fresh"
        /\ pc \in {"addresses", "over"} /\ UNCHANGED <<debit, addressRow, limitsRow, cryptoFaults>>
    BY <1>5 DEF EnsureDepositAddresses, RequestAt, withdrawalVars
  <2> HIDE DEF pc
  <2>4. new \in [pc: CryptoPcs, todo: SUBSET Networks, debit: SUBSET Debits] /\ new.pc = pc
    BY <2>1 DEF Fresh, CryptoPcs
  <2> HIDE DEF new
  <2>2. /\ cryptoRequest' \in RequestType /\ cryptoRequest'[c].pc = pc
        /\ \A e \in CryptoRequests : e # c => cryptoRequest'[e] = cryptoRequest[e]
    BY <1>9, <2>1, <2>4 DEF RequestType
  <2> QED
    BY <1>3, <1>9, <2>1, <2>2
<1>6. CASE FailCryptoRequest(c)
  <2>1. RequestTo(c, "over") /\ UNCHANGED <<debit, addressRow, limitsRow>> /\ cryptoFaults' \in 0..MaxCryptoFaults
    BY <1>1, <1>6, CryptoAssumption DEF FailCryptoRequest, CryptoFault, CryptoTypeOK, withdrawalVars
  <2>2. /\ cryptoRequest' \in RequestType
        /\ cryptoRequest'[c].pc = "over" /\ cryptoRequest'[c].debit = cryptoRequest[c].debit
        /\ \A e \in CryptoRequests : e # c => cryptoRequest'[e] = cryptoRequest[e]
    BY <1>1, <2>1, CryptoRequestTo DEF CryptoPcs
  <2> QED
    BY <1>3, <1>9, <2>1, <2>2
<1>7. ASSUME NEW a \in Debits, BuildWithdrawal(c, a) PROVE CryptoInv'
  <2>1. /\ RequestTo(c, "over") /\ debit[a] = Unproposed /\ limitsRow' = TRUE
        /\ debit' = [debit EXCEPT ![a] = [kind |-> "withdrawal", status |-> "PENDING"]]
        /\ UNCHANGED <<addressRow, cryptoFaults>>
    BY <1>7 DEF BuildWithdrawal, ProposeDebit, GetWithdrawalNetworks
  <2>2. /\ cryptoRequest' \in RequestType
        /\ cryptoRequest'[c].pc = "over" /\ cryptoRequest'[c].debit = cryptoRequest[c].debit
        /\ \A e \in CryptoRequests : e # c => cryptoRequest'[e] = cryptoRequest[e]
    BY <1>1, <2>1, CryptoRequestTo DEF CryptoPcs
  <2>3. debit' \in [Debits -> Actions] /\ \A b \in Debits : debit[b].status = "EXECUTED" => debit'[b] = debit[b]
    BY <1>9, <2>1 DEF Unproposed, Actions
  <2> QED
    BY <1>3, <1>9, <2>1, <2>2, <2>3
<1>8. ASSUME NEW a \in Debits, ConfirmWithdrawal(c, a) PROVE CryptoInv'
  <2> DEFINE pc == IF debit[a].status = "PENDING" THEN "approve" ELSE "over"
  <2>1. /\ cryptoRequest' = [cryptoRequest EXCEPT ![c] = [pc |-> pc, todo |-> {}, debit |-> {a}]]
        /\ cryptoRequest[c].pc = "fresh" /\ limitsRow' = TRUE /\ UNCHANGED <<debit, addressRow, cryptoFaults>>
    BY <1>8 DEF ConfirmWithdrawal, RequestAt, GetWithdrawalNetworks, withdrawalVars
  <2>2. pc \in {"approve", "over"}
    OBVIOUS
  <2> HIDE DEF pc
  <2>3. /\ cryptoRequest' \in RequestType
        /\ cryptoRequest'[c].pc = pc /\ cryptoRequest'[c].debit = {a}
        /\ \A e \in CryptoRequests : e # c => cryptoRequest'[e] = cryptoRequest[e]
    BY <1>9, <2>1, <2>2 DEF RequestType, CryptoPcs
  <2> QED
    BY <1>3, <1>9, <2>1, <2>2, <2>3
<1> QED
  BY <1>4, <1>5, <1>6, <1>7, <1>8

\* Other actions of the wallet are proposed.
LEMMA ProposeStep ==
  ASSUME CryptoInv, NEW a \in Debits, ProposeOther(a)
  PROVE  CryptoInv'
<1>1. /\ CryptoTypeOK /\ DepositInv /\ WithdrawalInv /\ debit[a] = Unproposed
      /\ UNCHANGED <<depositRow, arrived, credits, cryptoPoll, addressRow, limitsRow, withdrawalRow, payouts,
                     cryptoRequest, cryptoFaults>>
  BY DEF CryptoInv, ProposeOther, ProposeDebit, depositVars
<1>2. PICK kind \in {"call", "local"} : debit' = [debit EXCEPT ![a] = [kind |-> kind, status |-> "PENDING"]]
  BY DEF ProposeOther, ProposeDebit
<1>3. /\ debit' \in [Debits -> [kind: {"none", "withdrawal", "call", "local"}, status: {"none", "PENDING", "EXECUTED"}]]
      /\ \A b \in Debits : debit[b].status = "EXECUTED" => debit'[b] = debit[b]
  BY <1>1, <1>2 DEF CryptoTypeOK, Unproposed
<1>4. CryptoTypeOK' /\ DepositInv'
  BY <1>1, <1>3 DEF CryptoTypeOK, DepositInv
<1>5. CASE CryptoRequests = {}
  BY <1>4, <1>5 DEF CryptoInv, WithdrawalInv
<1>6. ASSUME NEW c \in CryptoRequests PROVE CryptoInv'
  <2>1. OwnInv(c)'
    BY <1>1, <1>3 DEF WithdrawalInv, OwnInv, Told, RequestAt, Names
  <2>2. \A b \in Debits : Taken(c, b)' => Taken(c, b)
    BY <1>1 DEF Taken, Told, Names
  <2> QED
    BY <1>1, <1>3, <1>4, <2>1, <2>2, OneRequest
<1> QED
  BY <1>5, <1>6

\* A withdrawal whose action is executed, that is recorded, paid out and saved.
LEMMA WithdrawalStep ==
  ASSUME CryptoInv, NEW c \in CryptoRequests,
         Debit(c) \/ RecordWithdrawal(c) \/ RequestPayout(c) \/ SaveWithdrawal(c)
  PROVE  CryptoInv'
<1>1. /\ CryptoTypeOK /\ DepositInv /\ WithdrawalInv /\ OwnInv(c)
      /\ UNCHANGED <<depositRow, arrived, credits, cryptoPoll, addressRow, limitsRow, cryptoFaults>>
  BY DEF CryptoInv, WithdrawalInv, Debit, RecordWithdrawal, RequestPayout, SaveWithdrawal, depositVars
<1>2. DepositInv'
  BY <1>1 DEF DepositInv
<1>3. PICK a \in Debits : Names(c, a)
  BY <1>1 DEF OwnInv, Debit, RecordWithdrawal, RequestPayout, SaveWithdrawal, RequestAt, Told
<1>4. TheDebit(c) = a
  BY <1>3 DEF TheDebit, Names
<1>5. ASSUME NEW pc \in {"record", "payout", "save", "over"}, RequestTo(c, pc)
      PROVE  /\ cryptoRequest' \in RequestType
             /\ cryptoRequest'[c].pc = pc /\ cryptoRequest'[c].debit = cryptoRequest[c].debit
             /\ \A e \in CryptoRequests : e # c => cryptoRequest'[e] = cryptoRequest[e]
  BY <1>1, <1>5, CryptoRequestTo DEF CryptoPcs
<1>6. CASE Debit(c) /\ RequestTo(c, "over") /\ UNCHANGED debit
  <2>1. /\ UNCHANGED <<withdrawalRow, payouts, debit>> /\ RequestAt(c, "approve")
    BY <1>6 DEF Debit
  <2>2. /\ cryptoRequest' \in RequestType
        /\ cryptoRequest'[c].pc = "over" /\ cryptoRequest'[c].debit = cryptoRequest[c].debit
        /\ \A e \in CryptoRequests : e # c => cryptoRequest'[e] = cryptoRequest[e]
    BY <1>5, <1>6
  <2>3. CryptoTypeOK'
    BY <1>1, <2>1, <2>2 DEF CryptoTypeOK, RequestType, CryptoPcs
  <2>4. OwnInv(c)'
    BY <1>1, <2>1, <2>2 DEF OwnInv, Told, RequestAt, Names
  <2>5. \A b \in Debits : Taken(c, b)' => Taken(c, b)
    BY <2>1, <2>2 DEF Taken, Told, Names
  <2> QED
    BY <1>1, <1>2, <2>1, <2>2, <2>3, <2>4, <2>5, OneRequest
<1>7. CASE /\ Debit(c) /\ (debit[a].kind = "local" \/ debit[a].status = "PENDING")
           /\ RequestTo(c, "record") /\ debit' = [debit EXCEPT ![a].status = "EXECUTED"]
  <2>1. /\ UNCHANGED <<withdrawalRow, payouts>> /\ RequestAt(c, "approve") /\ withdrawalRow[c] = "none" /\ payouts[c] = 0
    BY <1>1, <1>7 DEF Debit, OwnInv, RequestAt
  <2>2. /\ cryptoRequest' \in RequestType
        /\ cryptoRequest'[c].pc = "record" /\ cryptoRequest'[c].debit = cryptoRequest[c].debit
        /\ \A e \in CryptoRequests : e # c => cryptoRequest'[e] = cryptoRequest[e]
    BY <1>5, <1>7
  <2>3. /\ debit' \in [Debits -> [kind: {"none", "withdrawal", "call", "local"}, status: {"none", "PENDING", "EXECUTED"}]]
        /\ debit'[a].status = "EXECUTED" /\ \A b \in Debits : b # a => debit'[b] = debit[b]
    BY <1>1, <1>7 DEF CryptoTypeOK
  <2>4. \A b \in Debits : debit[b].status = "EXECUTED" => debit'[b] = debit[b]
    BY <1>1, <1>7 DEF CryptoTypeOK
  <2>5. CryptoTypeOK'
    BY <1>1, <2>1, <2>2, <2>3 DEF CryptoTypeOK, RequestType, CryptoPcs
  <2>6. OwnInv(c)'
    BY <1>3, <2>1, <2>2, <2>3 DEF OwnInv, Told, RequestAt, Names
  <2>7. ASSUME NEW b \in Debits, Taken(c, b)', NEW e \in CryptoRequests, Taken(e, b), e # c PROVE debit[b].kind = "local"
    <3>1. b = a
      BY <1>3, <2>2, <2>7 DEF Taken, Names
    <3>2. OwnInv(e)
      BY <1>1 DEF WithdrawalInv
    <3>3. debit[a].status = "EXECUTED"
      BY <2>7, <3>1, <3>2 DEF OwnInv, Taken, Names
    <3> QED
      BY <1>7, <3>1, <3>3
  <2> QED
    BY <1>2, <2>1, <2>2, <2>4, <2>5, <2>6, <2>7, OneRequest
<1>8. ASSUME Told(c), NEW pc \in {"payout", "save", "over"}, RequestTo(c, pc), UNCHANGED debit,
             withdrawalRow' \in [CryptoRequests -> {"none", "PENDING", "ACCEPTED"}], payouts' \in [CryptoRequests -> Nat],
             \A e \in CryptoRequests : e # c => withdrawalRow'[e] = withdrawalRow[e] /\ payouts'[e] = payouts[e],
             withdrawalRow'[c] # "none", payouts'[c] <= 1,
             withdrawalRow'[c] = "ACCEPTED" => payouts'[c] > 0,
             pc = "payout" => withdrawalRow'[c] = "PENDING" /\ payouts'[c] = 0,
             pc = "save" => withdrawalRow'[c] = "PENDING" /\ payouts'[c] = 1
      PROVE  CryptoInv'
  <2>2. /\ cryptoRequest' \in RequestType
        /\ cryptoRequest'[c].pc = pc /\ cryptoRequest'[c].debit = cryptoRequest[c].debit
        /\ \A e \in CryptoRequests : e # c => cryptoRequest'[e] = cryptoRequest[e]
    BY <1>5, <1>8
  <2>3. CryptoTypeOK'
    BY <1>1, <1>8, <2>2 DEF CryptoTypeOK, RequestType, CryptoPcs
  <2>4. debit[a].status = "EXECUTED"
    BY <1>1, <1>3, <1>8 DEF OwnInv, Names
  <2>5. OwnInv(c)'
    BY <1>3, <1>8, <2>2, <2>4 DEF OwnInv, Told, RequestAt, Names
  <2>6. \A b \in Debits : Taken(c, b)' => Taken(c, b)
    BY <1>8, <2>2 DEF Taken, Names
  <2> QED
    BY <1>1, <1>2, <1>8, <2>2, <2>3, <2>5, <2>6, OneRequest
<1>9. /\ withdrawalRow \in [CryptoRequests -> {"none", "PENDING", "ACCEPTED"}] /\ payouts \in [CryptoRequests -> Nat]
  BY <1>1 DEF CryptoTypeOK
<1>10. CASE RecordWithdrawal(c)
  <2>1. /\ RequestAt(c, "record") /\ RequestTo(c, "payout") /\ UNCHANGED <<debit, payouts>>
        /\ withdrawalRow' = [withdrawalRow EXCEPT ![c] = "PENDING"]
    BY <1>10 DEF RecordWithdrawal
  <2>2. Told(c) /\ payouts[c] = 0
    BY <1>1, <2>1 DEF OwnInv, Told, RequestAt
  <2>3. /\ withdrawalRow'[c] = "PENDING" /\ withdrawalRow' \in [CryptoRequests -> {"none", "PENDING", "ACCEPTED"}]
        /\ \A e \in CryptoRequests : e # c => withdrawalRow'[e] = withdrawalRow[e]
    BY <1>9, <2>1
  <2> QED
    BY <1>8, <1>9, <2>1, <2>2, <2>3
<1>11. CASE RequestPayout(c)
  <2>1. /\ RequestAt(c, "payout") /\ RequestTo(c, "save") /\ UNCHANGED <<debit, withdrawalRow>>
        /\ payouts' = [payouts EXCEPT ![c] = @ + 1]
    BY <1>11 DEF RequestPayout
  <2>2. Told(c) /\ withdrawalRow[c] = "PENDING" /\ payouts[c] = 0
    BY <1>1, <2>1 DEF OwnInv, Told, RequestAt
  <2>3. /\ payouts'[c] = 1 /\ payouts' \in [CryptoRequests -> Nat]
        /\ \A e \in CryptoRequests : e # c => payouts'[e] = payouts[e]
    BY <1>9, <2>1, <2>2
  <2> QED
    BY <1>8, <1>9, <2>1, <2>2, <2>3
<1>12. CASE SaveWithdrawal(c)
  <2>1. /\ RequestAt(c, "save") /\ RequestTo(c, "over") /\ UNCHANGED <<debit, payouts>>
        /\ withdrawalRow' = [withdrawalRow EXCEPT ![c] = "ACCEPTED"]
    BY <1>12 DEF SaveWithdrawal
  <2>2. Told(c) /\ payouts[c] = 1
    BY <1>1, <2>1 DEF OwnInv, Told, RequestAt
  <2>3. /\ withdrawalRow'[c] = "ACCEPTED" /\ withdrawalRow' \in [CryptoRequests -> {"none", "PENDING", "ACCEPTED"}]
        /\ \A e \in CryptoRequests : e # c => withdrawalRow'[e] = withdrawalRow[e]
    BY <1>9, <2>1
  <2> QED
    BY <1>8, <1>9, <2>1, <2>2, <2>3
<1>13. ASSUME Debit(c) PROVE CryptoInv'
  BY <1>4, <1>6, <1>7, <1>13 DEF Debit
<1> QED
  BY <1>10, <1>11, <1>12, <1>13

LEMMA CryptoInvStep == CryptoInv /\ [CryptoNext]_cryptoVars => CryptoInv'
<1> SUFFICES ASSUME CryptoInv, [CryptoNext]_cryptoVars PROVE CryptoInv'
  OBVIOUS
<1>1. CASE UNCHANGED cryptoVars
  BY <1>1 DEF cryptoVars, CryptoInv, CryptoTypeOK, DepositInv, WithdrawalInv, OwnInv, Taken, Names, Told, RequestAt
<1>2. CASE \/ \E n \in Networks : Arrive(n) \/ SkipDeposit(n) \/ RecordDeposit(n) \/ CreditDeposit(n) \/ MarkCredited(n)
           \/ PollNewDeposits \/ EndPoll \/ FailPoll
  BY <1>2, PollStep
<1>3. CASE \E c \in CryptoRequests : \/ \E n \in Networks : SaveDepositAddress(c, n)
                                     \/ EnsureDepositAddresses(c) \/ FailCryptoRequest(c)
                                     \/ \E a \in Debits : BuildWithdrawal(c, a) \/ ConfirmWithdrawal(c, a)
  BY <1>3, CryptoRequestStep
<1>4. CASE \E c \in CryptoRequests : Debit(c) \/ RecordWithdrawal(c) \/ RequestPayout(c) \/ SaveWithdrawal(c)
  BY <1>4, WithdrawalStep
<1>5. CASE \E a \in Debits : ProposeOther(a)
  BY <1>5, ProposeStep
<1> QED
  BY <1>1, <1>2, <1>3, <1>4, <1>5 DEF CryptoNext

LEMMA CryptoInvImplies == CryptoInv => CryptoTypeOK /\ CryptoOnce /\ CryptoRecordsHold
<1> SUFFICES ASSUME CryptoInv PROVE CryptoTypeOK /\ CryptoOnce /\ CryptoRecordsHold
  OBVIOUS
<1>1. CryptoTypeOK /\ DepositInv /\ WithdrawalInv
  BY DEF CryptoInv
<1>2. \A c \in CryptoRequests : payouts[c] <= 1
  BY <1>1 DEF WithdrawalInv, OwnInv
<1>3. \A c \in CryptoRequests : \A a \in Debits : PaidOut(c, a) => Taken(c, a)
  BY DEF PaidOut, Taken, Names
<1>4. CryptoOnce
  BY <1>1, <1>2, <1>3 DEF DepositInv, WithdrawalInv, CryptoOnce
<1>5. CryptoRecordsHold
  BY <1>1 DEF DepositInv, WithdrawalInv, OwnInv, Names, CryptoRecordsHold
<1> QED
  BY <1>1, <1>4, <1>5

-----------------------------------------------------------------------------
(* The wallet.  The group tells one request that it has executed a call of *)
(* the Safe, and what that request writes is all that is ever written of   *)
(* it; of a local change it tells several.                                 *)
KeyRows(a) == {k \in PaymentKeys : a \in paymentRow[k]}
Tellers(a) == {c \in SpendCalls : SpendAt(c, "record") /\ spendCall[c].action = {a}}

CallInv ==
  \A c \in SpendCalls :
    SpendAt(c, "approve") \/ SpendAt(c, "record") =>
      /\ \E a \in Spendings : spendCall[c].action = {a}
      /\ spendCall[c].by = "payment" => \E k \in PaymentKeys : spendCall[c].key = {k}

BookInv ==
  \A a \in Spendings : /\ spending[a].kind # "local" => Booked(a) <= 1
                       /\ Booked(a) > 0 => spending[a].status = "EXECUTED"

SpendInv == SpendTypeOK /\ CallInv /\ BookInv

CallPcs  == {"new", "approve", "record", "interest", "subscribe", "over"}
Kinds    == {"none", "payment", "swap", "approve", "purchase", "exit", "fee", "call", "local"}
CallWays == {"none", "payment", "swap", "approve", "purchase", "exit", "fee"}
SpendingType == [Spendings -> [kind: Kinds, status: {"none", "PENDING", "EXECUTED"}]]
CallType == [SpendCalls -> [pc: CallPcs, action: SUBSET Spendings, key: SUBSET PaymentKeys, by: CallWays]]

LEMMA BookParts ==
  ASSUME SpendTypeOK, NEW a \in Spendings
  PROVE  /\ Cardinality(KeyRows(a)) \in Nat /\ bookings[a] \in Nat /\ Cardinality(Tellers(a)) \in Nat
         /\ Booked(a) = Cardinality(KeyRows(a)) + bookings[a] + Cardinality(Tellers(a))
<1>1. KeyRows(a) \in SUBSET PaymentKeys /\ Tellers(a) \in SUBSET SpendCalls
  BY DEF KeyRows, Tellers
<1>2. IsFiniteSet(KeyRows(a)) /\ IsFiniteSet(Tellers(a))
  BY <1>1, FS_Subset, SpendAssumption
<1>3. Cardinality(KeyRows(a)) \in Nat /\ Cardinality(Tellers(a)) \in Nat
  BY <1>2, FS_CardinalityType
<1>4. bookings[a] \in Nat
  BY DEF SpendTypeOK
<1>5. Booked(a) = Cardinality(KeyRows(a)) + bookings[a] + Cardinality(Tellers(a))
  BY DEF Booked, KeyRows, Tellers
<1> QED
  BY <1>3, <1>4, <1>5

\* What is in the books stays as it is, or shrinks, or the action is executed.
LEMMA BooksKept ==
  ASSUME SpendInv, SpendTypeOK', CallInv',
         \A a \in Spendings :
           /\ Booked(a)' \in Nat
           /\ \/ /\ Booked(a)' <= Booked(a) /\ (spending[a].status = "EXECUTED" => spending'[a].status = "EXECUTED")
                 /\ spending[a].kind = "local" => spending'[a].kind = "local"
              \/ /\ spending'[a].kind # "local" => Booked(a)' <= 1
                 /\ spending'[a].status = "EXECUTED"
  PROVE  SpendInv'
<1>1. \A a \in Spendings : Booked(a) \in Nat
  BY BookParts DEF SpendInv
<1>2. BookInv'
  <2> SUFFICES ASSUME NEW a \in Spendings
               PROVE  /\ spending'[a].kind # "local" => Booked(a)' <= 1
                      /\ Booked(a)' > 0 => spending'[a].status = "EXECUTED"
    BY DEF BookInv
  <2>1. (spending[a].kind # "local" => Booked(a) <= 1) /\ (Booked(a) > 0 => spending[a].status = "EXECUTED")
    BY DEF SpendInv, BookInv
  <2> QED
    BY <1>1, <2>1
<1> QED
  BY <1>2 DEF SpendInv

\* One request moves: the rows of payments and bookings are the same.
LEMMA OneCall ==
  ASSUME SpendTypeOK, NEW c \in SpendCalls, \A e \in SpendCalls : e # c => spendCall'[e] = spendCall[e],
         NEW a \in Spendings
  PROVE  /\ Cardinality(Tellers(a)') \in Nat
         /\ Cardinality(Tellers(a)') = Cardinality(Tellers(a)) + (IF c \in Tellers(a)' THEN 1 ELSE 0)
                                                               - (IF c \in Tellers(a) THEN 1 ELSE 0)
<1>1. Tellers(a) \in SUBSET SpendCalls /\ Tellers(a)' \in SUBSET SpendCalls
  BY DEF Tellers
<1>2. \A e \in SpendCalls \ {c} : e \in Tellers(a) <=> e \in Tellers(a)'
  BY DEF Tellers, SpendAt
<1>3. IsFiniteSet(SpendCalls)
  BY SpendAssumption
<1> HIDE DEF Tellers
<1> QED
  BY <1>1, <1>2, <1>3, MoveCount

LEMMA BooksUntouched ==
  ASSUME SpendInv, SpendTypeOK', CallInv', UNCHANGED <<paymentRow, bookings>>,
         \A a \in Spendings : /\ spending[a].status = "EXECUTED" => spending'[a].status = "EXECUTED"
                              /\ spending[a].kind = "local" => spending'[a].kind = "local",
         \/ UNCHANGED spendCall
         \/ \E c \in SpendCalls : /\ \A e \in SpendCalls : e # c => spendCall'[e] = spendCall[e]
                                  /\ ~SpendAt(c, "record")'
  PROVE  SpendInv'
<1> SUFFICES ASSUME NEW a \in Spendings PROVE Booked(a)' \in Nat /\ Booked(a)' <= Booked(a)
  BY BooksKept
<1>1. /\ Cardinality(KeyRows(a)) \in Nat /\ bookings[a] \in Nat /\ Cardinality(Tellers(a)) \in Nat
      /\ Booked(a) = Cardinality(KeyRows(a)) + bookings[a] + Cardinality(Tellers(a))
  BY BookParts DEF SpendInv
<1>2. Booked(a)' = Cardinality(KeyRows(a)') + bookings'[a] + Cardinality(Tellers(a)')
  BY DEF Booked, KeyRows, Tellers
<1>3. KeyRows(a)' = KeyRows(a) /\ bookings'[a] = bookings[a]
  BY DEF KeyRows
<1>4. Cardinality(Tellers(a)') \in Nat /\ Cardinality(Tellers(a)') <= Cardinality(Tellers(a))
  <2>1. CASE UNCHANGED spendCall
    <3>1. Tellers(a)' = Tellers(a)
      BY <2>1 DEF Tellers, SpendAt
    <3> QED
      BY <1>1, <3>1
  <2>2. ASSUME NEW c \in SpendCalls, \A e \in SpendCalls : e # c => spendCall'[e] = spendCall[e],
               ~SpendAt(c, "record")'
        PROVE  Cardinality(Tellers(a)') \in Nat /\ Cardinality(Tellers(a)') <= Cardinality(Tellers(a))
    <3>1. c \notin Tellers(a)'
      BY <2>2 DEF Tellers
    <3>2. /\ Cardinality(Tellers(a)') \in Nat
          /\ Cardinality(Tellers(a)') = Cardinality(Tellers(a)) + (IF c \in Tellers(a)' THEN 1 ELSE 0)
                                                                - (IF c \in Tellers(a) THEN 1 ELSE 0)
      BY <2>2, OneCall DEF SpendInv
    <3> QED
      BY <1>1, <3>1, <3>2
  <2> QED
    BY <2>1, <2>2
<1> QED
  BY <1>1, <1>2, <1>3, <1>4

LEMMA SpendInvInit == SpendInit => SpendInv
<1> SUFFICES ASSUME SpendInit PROVE SpendInv
  OBVIOUS
<1>1. SpendTypeOK
  <2>1. interest \in BOOLEAN
    BY DEF SpendInit
  <2>2. spendFaults \in 0..MaxSpendFaults
    BY SpendAssumption DEF SpendInit
  <2>3. spendCall \in CallType
    BY DEF SpendInit, NewSpendCall, CallType, CallPcs, CallWays
  <2>4. /\ spending \in SpendingType
        /\ paymentRow \in [PaymentKeys -> SUBSET Spendings] /\ bookings \in [Spendings -> Nat]
        /\ subscriptions \in Nat /\ sale \in Stages
    BY DEF SpendInit, Unbuilt, SpendingType, Kinds, Stages
  <2> QED
    BY <2>1, <2>2, <2>3, <2>4 DEF SpendTypeOK, SpendingType, Kinds, CallType, CallPcs, CallWays
<1>2. CallInv
  BY DEF SpendInit, CallInv, SpendAt, NewSpendCall
<1>3. BookInv
  <2> SUFFICES \A a \in Spendings : Booked(a) = 0
    BY DEF BookInv
  <2> TAKE a \in Spendings
  <2>1. KeyRows(a) = {} /\ Tellers(a) = {} /\ bookings[a] = 0
    BY DEF SpendInit, KeyRows, Tellers, SpendAt, NewSpendCall
  <2>2. Cardinality({}) = 0
    BY FS_EmptySet
  <2>3. Cardinality(KeyRows(a)) = 0 /\ Cardinality(Tellers(a)) = 0
    BY <2>1, <2>2, Zenon
  <2>4. Booked(a) = Cardinality(KeyRows(a)) + bookings[a] + Cardinality(Tellers(a))
    BY <1>1, BookParts
  <2> QED
    BY <2>1, <2>3, <2>4
<1> QED
  BY <1>1, <1>2, <1>3 DEF SpendInv

\* A proposal, of whatever kind.
LEMMA ProposeSpendStep ==
  ASSUME SpendInv, NEW a \in Spendings, NEW kind \in Kinds, Propose(a, kind)
  PROVE  SpendInv'
<1>1. SpendTypeOK /\ CallInv
  BY DEF SpendInv
<1>2. spendCall \in CallType /\ spending \in SpendingType
  BY <1>1 DEF SpendTypeOK, SpendingType, Kinds, CallType, CallPcs, CallWays
<1>3. /\ spending[a].status = "none" /\ spending[a].kind = "none"
      /\ spending' = [spending EXCEPT ![a] = [kind |-> kind, status |-> "PENDING"]]
      /\ UNCHANGED <<paymentRow, bookings, interest, subscriptions, sale, spendCall, spendFaults>>
  BY DEF Propose, Unbuilt, recordVars
<1>4. /\ spending' \in SpendingType
      /\ \A b \in Spendings : b # a => spending'[b] = spending[b]
  BY <1>2, <1>3 DEF SpendingType
<1>5. SpendTypeOK'
  BY <1>1, <1>3, <1>4 DEF SpendTypeOK, SpendingType, Kinds
<1>6. \A b \in Spendings : /\ spending[b].status = "EXECUTED" => spending'[b].status = "EXECUTED"
                          /\ spending[b].kind = "local" => spending'[b].kind = "local"
  BY <1>3, <1>4
<1>7. CallInv'
  BY <1>1, <1>3 DEF CallInv, SpendAt
<1> QED
  BY <1>3, <1>5, <1>6, <1>7, BooksUntouched

\* Proposals, submissions, the rows of fiat purchases, and the interest of a user.
LEMMA AskStep ==
  ASSUME SpendInv, NEW c \in SpendCalls,
         \/ \E a \in Spendings : \/ PaymentRoutes(c, a) \/ SwapRoutes(c, a) \/ AssetRoutes(c, a) \/ FeeRoutes(c, a)
                                 \/ PurchaseRoutes(c, a) \/ ExitRoutes(c, a)
         \/ SubscribeWithFiat(c) \/ RecordFiatSubscription(c) \/ ExpressInterest(c) \/ SaveInterest(c)
  PROVE  SpendInv'
<1>1. SpendTypeOK /\ CallInv
  BY DEF SpendInv
<1>2. spendCall \in CallType
  BY <1>1 DEF SpendTypeOK, CallType, CallPcs, CallWays
<1>3. ASSUME NEW a \in Spendings, NEW kind \in Kinds, Propose(a, kind) PROVE SpendInv'
  BY <1>3, ProposeSpendStep
<1>4. ASSUME NEW a \in Spendings, NEW by \in CallWays, NEW key \in SUBSET PaymentKeys,
             by = "payment" => \E k \in PaymentKeys : key = {k},
             Submit(c, a, by, key)
      PROVE  SpendInv'
  <2>1. PICK pc \in {"approve", "over"} :
          /\ spendCall' = [spendCall EXCEPT ![c] = [pc |-> pc, action |-> {a}, key |-> key, by |-> by]]
          /\ UNCHANGED <<spending, paymentRow, bookings, interest, subscriptions, sale, spendFaults>>
    BY <1>4 DEF Submit, recordVars
  <2>2. spendCall' \in CallType
    BY <1>2, <2>1 DEF CallType, CallPcs
  <2>3. /\ spendCall'[c] = [pc |-> pc, action |-> {a}, key |-> key, by |-> by]
        /\ \A e \in SpendCalls : e # c => spendCall'[e] = spendCall[e]
    BY <1>2, <2>1 DEF CallType
  <2>4. SpendTypeOK'
    BY <1>1, <2>1, <2>2 DEF SpendTypeOK, CallType, CallPcs, CallWays
  <2>5. CallInv'
    BY <1>1, <1>4, <2>3 DEF CallInv, SpendAt
  <2>6. ~SpendAt(c, "record")'
    BY <2>3 DEF SpendAt
  <2> QED
    BY <2>1, <2>3, <2>4, <2>5, <2>6, BooksUntouched
<1>5. ASSUME NEW pc \in {"interest", "subscribe", "over"}, SpendTo(c, pc), interest' \in BOOLEAN, subscriptions' \in Nat,
             UNCHANGED <<spending, paymentRow, bookings, sale, spendFaults>>
      PROVE  SpendInv'
  <2>1. /\ spendCall' \in CallType /\ spendCall'[c].pc = pc
        /\ \A e \in SpendCalls : e # c => spendCall'[e] = spendCall[e]
    BY <1>2, <1>5 DEF SpendTo, CallType, CallPcs
  <2>2. SpendTypeOK'
    BY <1>1, <1>5, <2>1 DEF SpendTypeOK, CallType, CallPcs, CallWays
  <2>3. CallInv' /\ ~SpendAt(c, "record")'
    BY <1>1, <2>1 DEF CallInv, SpendAt
  <2> QED
    BY <1>5, <2>1, <2>2, <2>3, BooksUntouched
<1>6. interest \in BOOLEAN /\ subscriptions \in Nat
  BY <1>1 DEF SpendTypeOK
<1>7. CASE ExpressInterest(c) \/ SaveInterest(c)
  <2>1. PICK pc \in {"interest", "over"} :
          /\ SpendTo(c, pc) /\ interest' \in BOOLEAN
          /\ UNCHANGED <<spending, paymentRow, bookings, subscriptions, sale, spendFaults>>
    BY <1>6, <1>7 DEF ExpressInterest, SaveInterest, recordVars
  <2> QED
    BY <1>5, <1>6, <2>1
<1>8. CASE SubscribeWithFiat(c) \/ RecordFiatSubscription(c)
  <2>1. PICK pc \in {"subscribe", "over"} :
          /\ SpendTo(c, pc) /\ subscriptions' \in {subscriptions, subscriptions + 1}
          /\ UNCHANGED <<spending, paymentRow, bookings, interest, sale, spendFaults>>
    BY <1>8 DEF SubscribeWithFiat, RecordFiatSubscription, recordVars
  <2>2. subscriptions' \in Nat /\ interest' \in BOOLEAN
    BY <1>6, <2>1
  <2> QED
    BY <1>5, <2>1, <2>2
<1>9. ASSUME NEW a \in Spendings,
             \/ BuildPaymentTx(a) \/ BuildSwapTx(a) \/ BuildApproveTx(a) \/ ProposeApplicationFee(a)
             \/ BuildCryptoPurchase(a) \/ BuildEarlyExit(a)
      PROVE  SpendInv'
  <2>1. PICK kind \in Kinds : Propose(a, kind)
    BY <1>9 DEF BuildPaymentTx, BuildSwapTx, BuildApproveTx, ProposeApplicationFee, BuildCryptoPurchase, BuildEarlyExit, Kinds
  <2> QED
    BY <1>3, <2>1
<1>10. ASSUME NEW a \in Spendings, \E k \in PaymentKeys : SubmitPayment(c, a, k) PROVE SpendInv'
  <2>1. PICK k \in PaymentKeys : Submit(c, a, "payment", {k})
    BY <1>10 DEF SubmitPayment
  <2>2. "payment" \in CallWays /\ {k} \in SUBSET PaymentKeys
    BY DEF CallWays
  <2> QED
    BY <1>4, <2>1, <2>2
<1>11. ASSUME NEW a \in Spendings,
              \/ SubmitSwap(c, a) \/ SubmitApprove(c, a) \/ ConfirmCryptoPurchase(c, a) \/ ConfirmEarlyExit(c, a)
              \/ SubmitApplicationFee(c, a)
       PROVE  SpendInv'
  <2>1. PICK by \in {"swap", "approve", "purchase", "exit", "fee"} : Submit(c, a, by, {})
    BY <1>11 DEF SubmitSwap, SubmitApprove, ConfirmCryptoPurchase, ConfirmEarlyExit, SubmitApplicationFee
  <2>2. by \in CallWays /\ by # "payment" /\ {} \in SUBSET PaymentKeys
    BY DEF CallWays
  <2> QED
    BY <1>4, <2>1, <2>2
<1> QED
  BY <1>7, <1>8, <1>9, <1>10, <1>11
     DEF PaymentRoutes, SwapRoutes, AssetRoutes, FeeRoutes, PurchaseRoutes, ExitRoutes

\* The request that is told of the execution of a call is the only one to hold it.
LEMMA ApproveStep ==
  ASSUME SpendInv, NEW c \in SpendCalls, ApproveSpending(c)
  PROVE  SpendInv'
<1>1. SpendTypeOK /\ CallInv /\ BookInv
  BY DEF SpendInv
<1>2. spendCall \in CallType
  BY <1>1 DEF SpendTypeOK, SpendingType, Kinds, CallType, CallPcs, CallWays
<1>3. SpendAt(c, "approve") /\ UNCHANGED <<paymentRow, bookings, interest, subscriptions, sale, spendFaults>>
  BY DEF ApproveSpending, recordVars
<1>4. PICK a \in Spendings : spendCall[c].action = {a}
  BY <1>1, <1>3 DEF CallInv
<1>5. TheSpending(c) = a
  BY <1>4 DEF TheSpending
<1>6. ASSUME NEW told \in BOOLEAN, Executed(c, told)
      PROVE  /\ spendCall' \in CallType /\ spendCall'[c].pc \in {"record", "over"} /\ spendCall'[c].action = {a}
             /\ ~told => spendCall'[c].pc = "over"
             /\ \A e \in SpendCalls : e # c => spendCall'[e] = spendCall[e]
             /\ CallInv'
  <2> DEFINE pc == IF told /\ Keeps(spendCall[c].by) THEN "record" ELSE "over"
  <2>1. spendCall' = [spendCall EXCEPT ![c].pc = pc] /\ pc \in {"record", "over"} /\ (~told => pc = "over")
    BY <1>6 DEF Executed
  <2> HIDE DEF pc
  <2>2. /\ spendCall' \in CallType /\ spendCall'[c].pc = pc /\ spendCall'[c].action = {a}
        /\ spendCall'[c].key = spendCall[c].key /\ spendCall'[c].by = spendCall[c].by
        /\ \A e \in SpendCalls : e # c => spendCall'[e] = spendCall[e]
    BY <1>2, <1>4, <2>1 DEF CallType, CallPcs
  <2>3. CallInv'
    BY <1>1, <1>3, <1>4, <2>2 DEF CallInv, SpendAt
  <2> QED
    BY <2>1, <2>2, <2>3
<1>7. CASE Executed(c, FALSE) /\ UNCHANGED spending
  <2>1. SpendTypeOK' /\ CallInv' /\ ~SpendAt(c, "record")' /\ \A e \in SpendCalls : e # c => spendCall'[e] = spendCall[e]
    BY <1>1, <1>3, <1>6, <1>7 DEF SpendTypeOK, SpendingType, Kinds, CallType, CallPcs, CallWays, SpendAt
  <2> QED
    BY <1>3, <1>7, <2>1, BooksUntouched
<1>8. CASE /\ spending[a].kind = "local" \/ spending[a].status = "PENDING"
           /\ Executed(c, TRUE) /\ spending' = [spending EXCEPT ![a].status = "EXECUTED"]
  <2>1. /\ spendCall' \in CallType /\ spendCall'[c].action = {a} /\ CallInv'
        /\ \A e \in SpendCalls : e # c => spendCall'[e] = spendCall[e]
    BY <1>6, <1>8
  <2>2. /\ spending' \in SpendingType
        /\ spending'[a].status = "EXECUTED" /\ spending'[a].kind = spending[a].kind
        /\ \A b \in Spendings : b # a => spending'[b] = spending[b]
    BY <1>1, <1>8 DEF SpendTypeOK, SpendingType, Kinds
  <2>3. SpendTypeOK'
    BY <1>1, <1>3, <2>1, <2>2 DEF SpendTypeOK, SpendingType, Kinds, CallType, CallPcs, CallWays
  <2>4. ASSUME NEW b \in Spendings
        PROVE  /\ Booked(b)' \in Nat
               /\ b # a => Booked(b)' <= Booked(b)
               /\ Booked(b)' <= Booked(b) + 1
    <3>1. /\ Cardinality(KeyRows(b)) \in Nat /\ bookings[b] \in Nat /\ Cardinality(Tellers(b)) \in Nat
          /\ Booked(b) = Cardinality(KeyRows(b)) + bookings[b] + Cardinality(Tellers(b))
      BY <1>1, BookParts
    <3>2. Booked(b)' = Cardinality(KeyRows(b)') + bookings'[b] + Cardinality(Tellers(b)')
      BY DEF Booked, KeyRows, Tellers
    <3>3. KeyRows(b)' = KeyRows(b) /\ bookings'[b] = bookings[b]
      BY <1>3 DEF KeyRows
    <3>4. /\ Cardinality(Tellers(b)') \in Nat
          /\ Cardinality(Tellers(b)') = Cardinality(Tellers(b)) + (IF c \in Tellers(b)' THEN 1 ELSE 0)
                                                                - (IF c \in Tellers(b) THEN 1 ELSE 0)
      BY <1>1, <2>1, OneCall
    <3>5. b # a => c \notin Tellers(b)'
      BY <2>1 DEF Tellers
    <3> QED
      BY <3>1, <3>2, <3>3, <3>4, <3>5
  <2>5. spending[a].kind # "local" => Booked(a) = 0
    <3>1. Booked(a) \in Nat
      BY <1>1, BookParts
    <3> QED
      BY <1>1, <1>8, <3>1 DEF BookInv
  <2>6. spending'[a].kind # "local" => Booked(a)' <= 1
    BY <2>2, <2>4, <2>5
  <2> QED
    BY <2>1, <2>2, <2>3, <2>4, <2>6, BooksKept
<1> QED
  BY <1>5, <1>7, <1>8 DEF ApproveSpending

\* Of the request that holds an execution a row remains at most.
LEMMA RecordStep ==
  ASSUME SpendInv, NEW c \in SpendCalls,
         RecordPayment(c) \/ RecordPurchase(c) \/ RecordEarlyExit(c)
  PROVE  SpendInv'
<1>1. SpendTypeOK /\ CallInv /\ BookInv
  BY DEF SpendInv
<1>2. spendCall \in CallType
  BY <1>1 DEF SpendTypeOK, SpendingType, Kinds, CallType, CallPcs, CallWays
<1>3. SpendAt(c, "record") /\ SpendTo(c, "over") /\ UNCHANGED <<spending, interest, sale, spendFaults>>
  BY DEF RecordPayment, RecordPurchase, RecordEarlyExit
<1>4. PICK a \in Spendings : spendCall[c].action = {a}
  BY <1>1, <1>3 DEF CallInv
<1>5. TheSpending(c) = a /\ subscriptions' \in Nat
  BY <1>1, <1>4 DEF TheSpending, RecordPayment, RecordPurchase, RecordEarlyExit, SpendTypeOK
<1>6. /\ spendCall' \in CallType /\ spendCall'[c].pc = "over" /\ spendCall'[c].action = {a}
      /\ \A e \in SpendCalls : e # c => spendCall'[e] = spendCall[e]
  BY <1>2, <1>3, <1>4 DEF SpendTo, CallType, CallPcs
<1>7. CallInv'
  BY <1>1, <1>6 DEF CallInv, SpendAt
<1>8. ASSUME NEW b \in Spendings
      PROVE  /\ Cardinality(KeyRows(b)) \in Nat /\ bookings[b] \in Nat /\ Cardinality(Tellers(b)) \in Nat
             /\ Booked(b) = Cardinality(KeyRows(b)) + bookings[b] + Cardinality(Tellers(b))
             /\ Booked(b)' = Cardinality(KeyRows(b)') + bookings'[b] + Cardinality(Tellers(b)')
             /\ Cardinality(Tellers(b)') \in Nat
             /\ Cardinality(Tellers(b)') = Cardinality(Tellers(b)) - (IF b = a THEN 1 ELSE 0)
  <2>1. /\ Cardinality(KeyRows(b)) \in Nat /\ bookings[b] \in Nat /\ Cardinality(Tellers(b)) \in Nat
        /\ Booked(b) = Cardinality(KeyRows(b)) + bookings[b] + Cardinality(Tellers(b))
    BY <1>1, BookParts
  <2>2. Booked(b)' = Cardinality(KeyRows(b)') + bookings'[b] + Cardinality(Tellers(b)')
    BY DEF Booked, KeyRows, Tellers
  <2>3. /\ Cardinality(Tellers(b)') \in Nat
        /\ Cardinality(Tellers(b)') = Cardinality(Tellers(b)) + (IF c \in Tellers(b)' THEN 1 ELSE 0)
                                                              - (IF c \in Tellers(b) THEN 1 ELSE 0)
    BY <1>1, <1>6, OneCall
  <2>4. c \notin Tellers(b)' /\ (c \in Tellers(b) <=> b = a)
    BY <1>3, <1>4, <1>6 DEF Tellers, SpendAt
  <2> QED
    BY <2>1, <2>2, <2>3, <2>4
<1>9. CASE RecordPurchase(c) \/ RecordEarlyExit(c)
  <2>1. UNCHANGED paymentRow /\ bookings' = [bookings EXCEPT ![a] = @ + 1]
    BY <1>5, <1>9 DEF RecordPurchase, RecordEarlyExit
  <2>2. /\ bookings' \in [Spendings -> Nat]
        /\ bookings'[a] = bookings[a] + 1 /\ \A b \in Spendings : b # a => bookings'[b] = bookings[b]
    BY <1>1, <2>1 DEF SpendTypeOK
  <2>3. SpendTypeOK'
    BY <1>1, <1>3, <1>5, <1>6, <2>1, <2>2 DEF SpendTypeOK, SpendingType, Kinds, CallType, CallPcs, CallWays
  <2>4. \A b \in Spendings : KeyRows(b)' = KeyRows(b)
    BY <2>1 DEF KeyRows
  <2>5. \A b \in Spendings : Booked(b)' \in Nat /\ Booked(b)' <= Booked(b)
    BY <1>8, <2>2, <2>4
  <2> QED
    BY <1>3, <1>7, <2>3, <2>5, BooksKept
<1>10. CASE RecordPayment(c)
  <2>1. PICK k \in PaymentKeys : spendCall[c].key = {k}
    BY <1>1, <1>3, <1>10 DEF CallInv, RecordPayment
  <2>2. UNCHANGED bookings
    BY <1>10 DEF RecordPayment
  <2>3. CASE paymentRow' = paymentRow
    <3>1. SpendTypeOK'
      BY <1>1, <1>3, <1>5, <1>6, <2>2, <2>3 DEF SpendTypeOK, SpendingType, Kinds, CallType, CallPcs, CallWays
    <3>2. \A b \in Spendings : KeyRows(b)' = KeyRows(b)
      BY <2>3 DEF KeyRows
    <3>3. \A b \in Spendings : Booked(b)' \in Nat /\ Booked(b)' <= Booked(b)
      BY <1>8, <2>2, <3>2
    <3> QED
      BY <1>3, <1>7, <3>1, <3>3, BooksKept
  <2>4. CASE /\ paymentRow[k] = {} /\ \A l \in PaymentKeys : a \notin paymentRow[l]
             /\ paymentRow' = [l \in PaymentKeys |-> IF l \in {k} THEN {a} ELSE paymentRow[l]]
    <3>1. /\ paymentRow' \in [PaymentKeys -> SUBSET Spendings] /\ paymentRow'[k] = {a}
          /\ \A l \in PaymentKeys : l # k => paymentRow'[l] = paymentRow[l]
      BY <1>1, <2>4 DEF SpendTypeOK
    <3>2. SpendTypeOK'
      BY <1>1, <1>3, <1>5, <1>6, <2>2, <3>1 DEF SpendTypeOK, SpendingType, Kinds, CallType, CallPcs, CallWays
    <3>3. \A b \in Spendings : b # a => KeyRows(b)' = KeyRows(b)
      BY <2>4, <3>1 DEF KeyRows
    <3>4. KeyRows(a) = {} /\ KeyRows(a)' = {k}
      BY <2>4, <3>1 DEF KeyRows
    <3>5. Cardinality(KeyRows(a)) = 0 /\ Cardinality(KeyRows(a)') = 1
      <4>1. Cardinality({}) = 0
        BY FS_EmptySet
      <4>2. Cardinality({k}) = 1
        BY FS_Singleton, Zenon
      <4> QED
        BY <3>4, <4>1, <4>2
    <3>6. \A b \in Spendings : Booked(b)' \in Nat /\ Booked(b)' <= Booked(b)
      BY <1>8, <2>2, <3>3, <3>5
    <3> QED
      BY <1>3, <1>7, <3>2, <3>6, BooksKept
  <2> QED
    BY <1>5, <1>10, <2>1, <2>3, <2>4 DEF RecordPayment, SameTx
<1> QED
  BY <1>9, <1>10

\* A request that fails, or all at a restart, hold nothing afterwards.
LEMMA FailSpendStep == SpendInv /\ FailSpendCalls => SpendInv'
<1> SUFFICES ASSUME SpendInv, FailSpendCalls PROVE SpendInv'
  OBVIOUS
<1>1. SpendTypeOK /\ CallInv /\ UNCHANGED <<spending, paymentRow, bookings, interest, subscriptions, sale>>
  BY DEF SpendInv, FailSpendCalls, recordVars
<1>2. spendCall \in CallType
  BY <1>1 DEF SpendTypeOK, SpendingType, Kinds, CallType, CallPcs, CallWays
<1>3. PICK cs : spendCall' = [c \in SpendCalls |->
                                IF c \in cs /\ spendCall[c].pc # "new" THEN [spendCall[c] EXCEPT !.pc = "over"]
                                ELSE spendCall[c]]
  BY DEF FailSpendCalls
<1>4. \A c \in SpendCalls :
        \/ spendCall'[c] = spendCall[c]
        \/ spendCall'[c] = [spendCall[c] EXCEPT !.pc = "over"] /\ spendCall'[c].pc = "over"
  BY <1>2, <1>3 DEF CallType
<1>5. spendCall' \in CallType
  BY <1>2, <1>3 DEF CallType, CallPcs
<1>6. spendFaults' \in 0..MaxSpendFaults
  BY <1>1, SpendAssumption DEF FailSpendCalls, SpendTypeOK
<1>7. SpendTypeOK'
  BY <1>1, <1>5, <1>6 DEF SpendTypeOK, SpendingType, Kinds, CallType, CallPcs, CallWays
<1>8. CallInv'
  BY <1>1, <1>4 DEF CallInv, SpendAt
<1>9. ASSUME NEW a \in Spendings PROVE Booked(a)' \in Nat /\ Booked(a)' <= Booked(a)
  <2>1. /\ Cardinality(KeyRows(a)) \in Nat /\ bookings[a] \in Nat /\ Cardinality(Tellers(a)) \in Nat
        /\ Booked(a) = Cardinality(KeyRows(a)) + bookings[a] + Cardinality(Tellers(a))
    BY <1>1, BookParts
  <2>2. Booked(a)' = Cardinality(KeyRows(a)') + bookings'[a] + Cardinality(Tellers(a)')
    BY DEF Booked, KeyRows, Tellers
  <2>3. KeyRows(a)' = KeyRows(a) /\ bookings'[a] = bookings[a]
    BY <1>1 DEF KeyRows
  <2>4. Tellers(a)' \subseteq Tellers(a) /\ Tellers(a) \subseteq SpendCalls
    BY <1>4 DEF Tellers, SpendAt
  <2>5. IsFiniteSet(Tellers(a))
    BY <2>4, FS_Subset, SpendAssumption
  <2>6. IsFiniteSet(Tellers(a)') /\ Cardinality(Tellers(a)') <= Cardinality(Tellers(a))
    BY <2>4, <2>5, FS_Subset
  <2>7. Cardinality(Tellers(a)') \in Nat
    BY <2>6, FS_CardinalityType
  <2> QED
    BY <2>1, <2>2, <2>3, <2>6, <2>7
<1> QED
  BY <1>1, <1>7, <1>8, <1>9, BooksKept

LEMMA SpendInvStep == SpendInv /\ [SpendNext]_spendVars => SpendInv'
<1> SUFFICES ASSUME SpendInv, [SpendNext]_spendVars PROVE SpendInv'
  OBVIOUS
<1>1. CASE UNCHANGED spendVars
  BY <1>1 DEF spendVars, SpendInv, SpendTypeOK, CallInv, BookInv, Booked, SpendAt
<1>2. CASE \E c \in SpendCalls :
             \/ \E a \in Spendings : \/ PaymentRoutes(c, a) \/ SwapRoutes(c, a) \/ AssetRoutes(c, a) \/ FeeRoutes(c, a)
                                     \/ PurchaseRoutes(c, a) \/ ExitRoutes(c, a)
             \/ SubscribeWithFiat(c) \/ RecordFiatSubscription(c) \/ ExpressInterest(c) \/ SaveInterest(c)
  BY <1>2, AskStep
<1>3. CASE \E c \in SpendCalls : ApproveSpending(c)
  BY <1>3, ApproveStep
<1>4. CASE \E c \in SpendCalls : RecordPayment(c) \/ RecordPurchase(c) \/ RecordEarlyExit(c)
  BY <1>4, RecordStep
<1>5. CASE FailSpendCalls
  BY <1>5, FailSpendStep
<1>6. CASE OpenOrCloseSale
  <2>1. UNCHANGED <<spending, paymentRow, bookings, interest, subscriptions, spendCall, spendFaults>> /\ sale' \in Stages
    BY <1>6 DEF OpenOrCloseSale, recordVars
  <2>2. SpendTypeOK' /\ CallInv'
    BY <2>1 DEF SpendInv, SpendTypeOK, CallInv, SpendAt
  <2> QED
    BY <2>1, <2>2, BooksUntouched
<1>7. CASE \E a \in Spendings : ProposeAction(a)
  BY <1>7, ProposeSpendStep DEF ProposeAction, Kinds
<1> QED
  BY <1>1, <1>2, <1>3, <1>4, <1>5, <1>6, <1>7 DEF SpendNext

LEMMA SpendInvImplies == SpendInv => SpendTypeOK /\ SpendOnce /\ SpendRecordsHold
BY DEF SpendInv, BookInv, SpendOnce, SpendRecordsHold

-----------------------------------------------------------------------------
\* However often a webhook is delivered, a poll repeated, a confirmation sent again, and
\* whatever fails in between: a purchase is settled once, a deposit credited once, and an
\* executed call of the Safe is paid out once and booked once, whichever requests name it
\* (ProcessActivation, SettlePendingInvoice, CreditDeposit, RequestPayout, ApproveSpending).
\* Nothing is said of local changes: for these the group tells several requests.
THEOREM MoneyMovesOnce ==
  /\ FiatSpec => [](FiatTypeOK /\ SettledOnce)
  /\ CryptoSpec => [](CryptoTypeOK /\ CryptoOnce)
  /\ SpendSpec => [](SpendTypeOK /\ SpendOnce)
<1>1. FiatSpec => [](FiatTypeOK /\ SettledOnce)
  <2>1. FiatInv => FiatTypeOK /\ SettledOnce
    BY FiatInvImplies
  <2> QED
    BY <2>1, FiatInvInit, FiatInvStep, PTL DEF FiatSpec
<1>2. CryptoSpec => [](CryptoTypeOK /\ CryptoOnce)
  <2>1. CryptoInv => CryptoTypeOK /\ CryptoOnce
    BY CryptoInvImplies
  <2> QED
    BY <2>1, CryptoInvInit, CryptoInvStep, PTL DEF CryptoSpec
<1>3. SpendSpec => [](SpendTypeOK /\ SpendOnce)
  <2>1. SpendInv => SpendTypeOK /\ SpendOnce
    BY SpendInvImplies
  <2> QED
    BY <2>1, SpendInvInit, SpendInvStep, PTL DEF SpendSpec
<1> QED
  BY <1>1, <1>2, <1>3

\* The rows agree with what was done: no settlement of what was not handed over, no landed
\* transaction of the distribution key that was not charged, no credit and no payout
\* without its row, and nothing in the books that was not executed.
THEOREM MoneyIsRecorded ==
  /\ FiatSpec => []FiatRecordsHold
  /\ CryptoSpec => []CryptoRecordsHold
  /\ SpendSpec => []SpendRecordsHold
<1>1. FiatSpec => []FiatRecordsHold
  <2>1. FiatInv => FiatRecordsHold
    BY FiatInvImplies
  <2> QED
    BY <2>1, FiatInvInit, FiatInvStep, PTL DEF FiatSpec
<1>2. CryptoSpec => []CryptoRecordsHold
  <2>1. CryptoInv => CryptoRecordsHold
    BY CryptoInvImplies
  <2> QED
    BY <2>1, CryptoInvInit, CryptoInvStep, PTL DEF CryptoSpec
<1>3. SpendSpec => []SpendRecordsHold
  <2>1. SpendInv => SpendRecordsHold
    BY SpendInvImplies
  <2> QED
    BY <2>1, SpendInvInit, SpendInvStep, PTL DEF SpendSpec
<1> QED
  BY <1>1, <1>2, <1>3
=============================================================================
