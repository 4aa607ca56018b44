---------------------------- MODULE MarketProofs ----------------------------
(***************************************************************************)
(* Theorems about Market, for any number of matchers and cancelers.        *)
(***************************************************************************)
EXTENDS Market, TLAPS

Settling == {"base", "quote", "buyRow", "sellRow", "tradeRow", "reload"}

\* Two placed offers of a book that may be matched with one another.
PlacedIn(book, o) == o \in OfferIds /\ book[o].status # "NONE"
Matchable(book, o, c) ==
  /\ PlacedIn(book, o) /\ PlacedIn(book, c)
  /\ book[o].type # book[c].type /\ book[o].user # book[c].user
  /\ IF book[o].type = "BUY" THEN book[c].price <= book[o].price
                             ELSE book[c].price >= book[o].price

\* A goroutine at work has a placed offer, and one that settles a match has
\* found a counter offer for it.
Matched == \A g \in Matchers \cup Cancelers :
  /\ proc[g].pc # "idle" => PlacedIn(offer, proc[g].o)
  /\ proc[g].pc \in Settling => Matchable(offer, proc[g].o, proc[g].counter)

\* Traded offers were placed, and within their limits.
TradesMatched ==
  \A i \in DOMAIN trades : PlacedIn(offer, trades[i].buy) /\ PlacedIn(offer, trades[i].sell)

MarketInv == MarketTypeOK /\ Matched /\ TradesMatched /\ LimitsRespected

\* What an offer was placed with never changes.
Immutable == \A o \in OfferIds : PlacedIn(offer, o) => /\ PlacedIn(offer', o)
                                                      /\ offer'[o].type = offer[o].type
                                                      /\ offer'[o].user = offer[o].user
                                                      /\ offer'[o].price = offer[o].price
-----------------------------------------------------------------------------
\* Rows are updated in their status and remaining quantity only.
LEMMA RowUpdate ==
  ASSUME MarketTypeOK, NEW o \in OfferIds, PlacedIn(offer, o),
         NEW s \in Statuses \ {"NONE"}, NEW n \in Nat
  PROVE  LET st == [offer EXCEPT ![o].status = s]
             up == [offer EXCEPT ![o].remaining = n, ![o].status = s]
         IN  /\ st \in [OfferIds -> Offer \cup {NoRow}]
             /\ up \in [OfferIds -> Offer \cup {NoRow}]
             /\ offer' = st => Immutable
             /\ offer' = up => Immutable
<1>1. offer[o] \in Offer
  BY DEF MarketTypeOK, PlacedIn, NoRow
<1> DEFINE st == [offer EXCEPT ![o].status = s]
           up == [offer EXCEPT ![o].remaining = n, ![o].status = s]
<1>2. [offer[o] EXCEPT !.status = s] \in Offer /\ [offer[o] EXCEPT !.remaining = n, !.status = s] \in Offer
  BY <1>1 DEF Offer
<1>3. /\ st = [offer EXCEPT ![o] = [offer[o] EXCEPT !.status = s]]
      /\ up = [offer EXCEPT ![o] = [offer[o] EXCEPT !.remaining = n, !.status = s]]
  BY <1>1, o \in OfferIds DEF MarketTypeOK, Offer
<1>4. st \in [OfferIds -> Offer \cup {NoRow}] /\ up \in [OfferIds -> Offer \cup {NoRow}]
  BY <1>2, <1>3 DEF MarketTypeOK
<1>5. ASSUME offer' = st PROVE Immutable
  BY <1>1, <1>3, <1>5 DEF MarketTypeOK, Immutable, PlacedIn, Offer, Statuses
<1>6. ASSUME offer' = up PROVE Immutable
  BY <1>1, <1>3, <1>6 DEF MarketTypeOK, Immutable, PlacedIn, Offer, Statuses
<1> QED
  BY <1>4, <1>5, <1>6

\* A settling goroutine's two offers: one is the buyer's, the other the seller's.
LEMMA Sides ==
  ASSUME MarketTypeOK, NEW g \in Matchers, Matchable(offer, proc[g].o, proc[g].counter)
  PROVE  /\ PlacedIn(offer, BuyOf(g)) /\ offer[BuyOf(g)].type = "BUY"
         /\ PlacedIn(offer, SellOf(g)) /\ offer[SellOf(g)].type = "SELL"
         /\ offer[BuyOf(g)].user # offer[SellOf(g)].user
         /\ offer[SellOf(g)].price <= offer[proc[g].counter].price
         /\ offer[proc[g].counter].price <= offer[BuyOf(g)].price
         /\ offer[proc[g].counter].price \in Prices
         /\ MatchQty(g) \in Nat
         /\ \A o \in {BuyOf(g), SellOf(g)} : CopyOf(g, o) - MatchQty(g) \in Nat
<1>1. /\ offer[proc[g].o] \in Offer /\ offer[proc[g].counter] \in Offer
      /\ proc[g].remaining \in Nat /\ proc[g].counterRemaining \in Nat
  BY DEF MarketTypeOK, Matchable, PlacedIn, NoRow, Proc
<1>2. /\ offer[proc[g].o].type \in {"BUY", "SELL"} /\ offer[proc[g].counter].type \in {"BUY", "SELL"}
      /\ offer[proc[g].o].price \in Prices /\ offer[proc[g].counter].price \in Prices
  BY <1>1 DEF Offer
<1>3. Prices \subseteq Nat
  BY MarketAssumption
<1>4. /\ MatchQty(g) \in Nat
      /\ \A o \in {BuyOf(g), SellOf(g)} : CopyOf(g, o) - MatchQty(g) \in Nat
  BY <1>1 DEF MatchQty, CopyOf, Lower
<1>5. offer[proc[g].o].price \in Nat /\ offer[proc[g].counter].price \in Nat
  BY <1>2, <1>3
<1>6. CASE offer[proc[g].o].type = "BUY"
  <2>1. BuyOf(g) = proc[g].o /\ SellOf(g) = proc[g].counter
    BY <1>6 DEF BuyOf, SellOf
  <2>2. offer[proc[g].counter].price <= offer[proc[g].o].price
    BY <1>6 DEF Matchable
  <2>3. offer[proc[g].counter].type = "SELL"
    BY <1>2, <1>6 DEF Matchable
  <2> QED
    BY <1>2, <1>4, <1>5, <1>6, <2>1, <2>2, <2>3 DEF Matchable
<1>7. CASE offer[proc[g].o].type # "BUY"
  <2>1. BuyOf(g) = proc[g].counter /\ SellOf(g) = proc[g].o
    BY <1>7 DEF BuyOf, SellOf
  <2>2. offer[proc[g].o].price <= offer[proc[g].counter].price
    BY <1>5, <1>7 DEF Matchable
  <2>3. offer[proc[g].o].type = "SELL" /\ offer[proc[g].counter].type = "BUY"
    BY <1>2, <1>7 DEF Matchable
  <2> QED
    BY <1>2, <1>4, <1>5, <2>1, <2>2, <2>3 DEF Matchable
<1> QED
  BY <1>6, <1>7

\* Who can be matched with whom outlives a step, since nothing it depends on changes.
LEMMA MatchableStays ==
  ASSUME Immutable, NEW o, NEW c, Matchable(offer, o, c)
  PROVE  Matchable(offer', o, c)
<1>1. /\ o \in OfferIds /\ c \in OfferIds
      /\ PlacedIn(offer', o) /\ offer'[o].type = offer[o].type /\ offer'[o].user = offer[o].user
      /\ offer'[o].price = offer[o].price
      /\ PlacedIn(offer', c) /\ offer'[c].type = offer[c].type /\ offer'[c].user = offer[c].user
      /\ offer'[c].price = offer[c].price
  BY DEF Immutable, Matchable, PlacedIn
<1> QED
  BY <1>1 DEF Matchable

\* Recorded trades stay within the limits of their offers.
LEMMA TradesStay ==
  ASSUME MarketTypeOK, TradesMatched, LimitsRespected, Immutable, UNCHANGED trades
  PROVE  TradesMatched' /\ LimitsRespected'
<1> SUFFICES ASSUME NEW i \in DOMAIN trades
             PROVE  /\ PlacedIn(offer', trades[i].buy) /\ PlacedIn(offer', trades[i].sell)
                    /\ LET buy == offer'[trades[i].buy]
                           sell == offer'[trades[i].sell]
                       IN  /\ buy.type = "BUY" /\ sell.type = "SELL" /\ buy.user # sell.user
                           /\ sell.price <= trades[i].price /\ trades[i].price <= buy.price
  BY DEF TradesMatched, LimitsRespected
<1>1. trades[i].buy \in OfferIds /\ trades[i].sell \in OfferIds
  <2>1. trades[i] \in Trade
    BY DEF MarketTypeOK
  <2> QED
    BY <2>1 DEF Trade
<1>2. PlacedIn(offer, trades[i].buy) /\ PlacedIn(offer, trades[i].sell)
  BY DEF TradesMatched
<1> QED
  BY <1>1, <1>2 DEF LimitsRespected, Immutable

\* One goroutine moves, to a state with the offers it needs.
LEMMA ProcStep ==
  ASSUME MarketTypeOK, Matched, Immutable,
         NEW g \in Matchers \cup Cancelers, NEW p \in Proc, proc' = [proc EXCEPT ![g] = p],
         p.pc # "idle" => PlacedIn(offer', p.o),
         p.pc \in Settling => Matchable(offer', p.o, p.counter)
  PROVE  proc' \in [Matchers \cup Cancelers -> Proc] /\ Matched'
<1>1. proc' \in [Matchers \cup Cancelers -> Proc]
  BY DEF MarketTypeOK
<1>2. ASSUME NEW k \in Matchers \cup Cancelers
      PROVE  /\ proc'[k].pc # "idle" => PlacedIn(offer', proc'[k].o)
             /\ proc'[k].pc \in Settling => Matchable(offer', proc'[k].o, proc'[k].counter)
  <2>1. CASE k = g
    <3>1. proc'[k] = p
      BY <2>1 DEF MarketTypeOK
    <3> QED
      BY <3>1
  <2>2. CASE k # g
    <3>1. proc'[k] = proc[k]
      BY <2>2 DEF MarketTypeOK
    <3>2. proc[k].pc # "idle" => PlacedIn(offer', proc[k].o)
      BY DEF Matched, Immutable, PlacedIn
    <3>3. proc[k].pc \in Settling => Matchable(offer', proc[k].o, proc[k].counter)
      BY MatchableStays DEF Matched
    <3> QED
      BY <3>1, <3>2, <3>3
  <2> QED
    BY <2>1, <2>2
<1> QED
  BY <1>1, <1>2 DEF Matched

\* A settling goroutine goes on with the same two offers.
LEMMA GotoStep ==
  ASSUME MarketTypeOK, Matched, Immutable, NEW g \in Matchers, NEW pc \in Settling,
         proc[g].pc \in Settling, Goto(g, pc)
  PROVE  proc' \in [Matchers \cup Cancelers -> Proc] /\ Matched'
<1> DEFINE p == [proc[g] EXCEPT !.pc = pc]
<1>1. p \in Proc /\ p.o = proc[g].o /\ p.counter = proc[g].counter /\ p.pc = pc
  BY DEF MarketTypeOK, Proc, Settling
<1>2. proc' = [proc EXCEPT ![g] = p]
  BY DEF Goto
<1>3. Matchable(offer', p.o, p.counter)
  BY <1>1, MatchableStays DEF Matched
<1>4. PlacedIn(offer', p.o)
  BY <1>3 DEF Matchable
<1> HIDE DEF p
<1> QED
  BY <1>1, <1>2, <1>3, <1>4, ProcStep

\* A goroutine that ends needs no offer.
LEMMA DoneStep ==
  ASSUME MarketTypeOK, Matched, Immutable, NEW g \in Matchers \cup Cancelers, Done(g)
  PROVE  proc' \in [Matchers \cup Cancelers -> Proc] /\ Matched'
<1>1. IdleProc \in Proc /\ IdleProc.pc = "idle"
  BY DEF IdleProc, Proc, NoOffer
<1>2. IdleProc.pc \notin Settling
  BY <1>1 DEF Settling
<1> QED
  BY <1>1, <1>2, ProcStep DEF Done
-----------------------------------------------------------------------------
LEMMA MarketInitially == MarketInit => MarketInv
<1> SUFFICES ASSUME MarketInit PROVE MarketInv
  OBVIOUS
<1>1. IdleProc \in Proc /\ IdleProc.pc = "idle"
  BY DEF IdleProc, Proc, NoOffer
<1>2. MarketTypeOK
  BY <1>1 DEF MarketInit, MarketTypeOK
<1>3. Matched
  BY <1>1 DEF MarketInit, Matched, Settling
<1>4. TradesMatched /\ LimitsRespected
  BY DEF MarketInit, TradesMatched, LimitsRespected
<1> QED
  BY <1>2, <1>3, <1>4 DEF MarketInv

\* A step that records no trade keeps the invariant if the rows keep their shape
\* and what they were placed with, and the goroutines theirs.
LEMMA QuietStep ==
  ASSUME MarketInv, Immutable, UNCHANGED trades, offer' \in [OfferIds -> Offer \cup {NoRow}],
         proc' \in [Matchers \cup Cancelers -> Proc], Matched', failures' \in Nat
  PROVE  MarketInv'
<1>1. MarketTypeOK'
  BY DEF MarketTypeOK, MarketInv
<1> QED
  BY <1>1, TradesStay DEF MarketInv

\* What is placed stays as placed in a step that leaves the book alone.
LEMMA SameBook == UNCHANGED offer => Immutable
BY DEF Immutable, PlacedIn

\* A settling goroutine goes on, and the book keeps its shape.
LEMMA SettlingStep ==
  ASSUME MarketInv, Immutable, UNCHANGED trades, offer' \in [OfferIds -> Offer \cup {NoRow}],
         failures' \in Nat, NEW g \in Matchers, NEW pc \in Settling, proc[g].pc \in Settling, Goto(g, pc)
  PROVE  MarketInv'
BY GotoStep, QuietStep DEF MarketInv

\* The status of either side may become CANCELED.
LEMMA CancelStep ==
  ASSUME MarketTypeOK, NEW o \in OfferIds, PlacedIn(offer, o), CancelForFailedSettlement(o)
  PROVE  Immutable /\ offer' \in [OfferIds -> Offer \cup {NoRow}]
<1>1. "CANCELED" \in Statuses \ {"NONE"} /\ 0 \in Nat
  BY DEF Statuses
<1> QED
  BY <1>1, RowUpdate DEF CancelForFailedSettlement

\* Either side's row may be updated with what is left of it.
LEMMA UpdateStep ==
  ASSUME MarketTypeOK, NEW g \in Matchers, NEW o \in OfferIds, PlacedIn(offer, o),
         CopyOf(g, o) - MatchQty(g) \in Nat, UpdateRow(g, o)
  PROVE  Immutable /\ offer' \in [OfferIds -> Offer \cup {NoRow}]
<1> DEFINE left == CopyOf(g, o) - MatchQty(g)
<1>1. StatusFor(left) \in Statuses \ {"NONE"}
  BY DEF StatusFor, Statuses
<1>2. offer' = [offer EXCEPT ![o].remaining = left, ![o].status = StatusFor(left)]
  BY DEF UpdateRow
<1> HIDE DEF left
<1> QED
  BY <1>1, <1>2, RowUpdate DEF left

LEMMA MarketStep == MarketInv /\ [MarketNext]_marketVars => MarketInv'
<1> SUFFICES ASSUME MarketInv, [MarketNext]_marketVars
             PROVE  MarketInv'
  OBVIOUS
<1>0. failures \in Nat
  BY DEF MarketInv, MarketTypeOK
<1> USE DEF MarketInv
<1>1. ASSUME NEW g \in Matchers, NEW u \in Users, NEW type \in {"BUY", "SELL"},
             NEW price \in Prices, NEW quantity \in Quantities, PlaceOffer(g, u, type, price, quantity)
      PROVE  MarketInv'
  <2>1. PICK o \in OfferIds :
          /\ offer[o].status = "NONE"
          /\ offer' = [offer EXCEPT ![o] = [status |-> "OPEN", type |-> type, user |-> u, price |-> price,
                                           quantity |-> quantity, remaining |-> quantity]]
          /\ proc' = [proc EXCEPT ![g] = [IdleProc EXCEPT !.pc = "finding", !.o = o, !.remaining = quantity]]
    BY <1>1 DEF PlaceOffer, Placed
  <2> DEFINE row == [status |-> "OPEN", type |-> type, user |-> u, price |-> price,
                     quantity |-> quantity, remaining |-> quantity]
             p == [IdleProc EXCEPT !.pc = "finding", !.o = o, !.remaining = quantity]
  <2>2. quantity \in Nat
    BY MarketAssumption
  <2>3. row \in Offer
    BY <2>2 DEF Offer, Statuses
  <2>4. offer' \in [OfferIds -> Offer \cup {NoRow}]
    BY <2>1, <2>3 DEF MarketTypeOK
  <2>5. Immutable
    BY <2>1 DEF Immutable, PlacedIn, MarketTypeOK
  <2>6. p \in Proc /\ p.o = o /\ p.pc = "finding" /\ p.pc \notin Settling
    BY <2>2 DEF IdleProc, Proc, NoOffer, Settling
  <2>7. PlacedIn(offer', o)
    BY <2>1 DEF PlacedIn, MarketTypeOK
  <2>8. proc' = [proc EXCEPT ![g] = p]
    BY <2>1
  <2> HIDE DEF p, row
  <2>9. proc' \in [Matchers \cup Cancelers -> Proc] /\ Matched'
    BY <2>5, <2>6, <2>7, <2>8, ProcStep
  <2>10. UNCHANGED trades /\ failures' \in Nat
    BY <1>0, <1>1 DEF PlaceOffer
  <2> QED
    BY <2>4, <2>5, <2>9, <2>10, QuietStep
<1>2. ASSUME NEW g \in Matchers, FindBestCounterOffer(g), UNCHANGED failures
      PROVE  MarketInv'
  <2>1. UNCHANGED <<offer, trades>> /\ proc[g].pc = "finding" /\ g \in Matchers \cup Cancelers
    BY <1>2 DEF FindBestCounterOffer
  <2>2. Immutable
    BY <2>1, SameBook
  <2>3. proc' \in [Matchers \cup Cancelers -> Proc] /\ Matched'
    <3>1. CASE Done(g)
      BY <2>1, <2>2, <3>1, DoneStep
    <3>2. CASE ~Done(g)
      <4>1. PICK c \in BestCounters(proc[g].o) :
              proc' = [proc EXCEPT ![g].pc = "base", ![g].counter = c,
                                   ![g].counterRemaining = offer[c].remaining]
        BY <1>2, <3>2 DEF FindBestCounterOffer
      <4> DEFINE p == [proc[g] EXCEPT !.pc = "base", !.counter = c, !.counterRemaining = offer[c].remaining]
      <4>2. c \in OfferIds /\ Crosses(proc[g].o, c)
        BY <4>1 DEF BestCounters
      <4>3. offer[c] \in Offer /\ offer[c].status # "NONE"
        BY <4>2 DEF MarketTypeOK, Crosses, Open, NoRow
      <4>4. /\ p \in Proc /\ p.o = proc[g].o /\ p.counter = c
            /\ proc' = [proc EXCEPT ![g] = p]
        BY <2>1, <4>1, <4>2, <4>3 DEF MarketTypeOK, Proc, Offer
      <4>5. Matchable(offer, proc[g].o, c)
        <5>1. PlacedIn(offer, proc[g].o) /\ PlacedIn(offer, c)
          BY <2>1, <4>2, <4>3 DEF Matched, PlacedIn
        <5> QED
          BY <4>2, <5>1 DEF Crosses, Matchable
      <4>6. Matchable(offer', p.o, p.counter) /\ PlacedIn(offer', p.o)
        BY <2>1, <4>4, <4>5 DEF Matchable
      <4> HIDE DEF p
      <4> QED
        BY <2>1, <2>2, <4>4, <4>6, ProcStep
    <3> QED
      BY <3>1, <3>2
  <2> QED
    BY <1>0, <1>2, <2>1, <2>2, <2>3, QuietStep DEF MarketTypeOK
<1>3. ASSUME NEW g \in Matchers, TransferBase(g), UNCHANGED failures
      PROVE  MarketInv'
  <2>1. /\ proc[g].pc \in Settling /\ UNCHANGED trades /\ g \in Matchers \cup Cancelers
        /\ "quote" \in Settling /\ "reload" \in Settling
    BY <1>3 DEF TransferBase, Settling
  <2>2. CASE Goto(g, "quote") /\ UNCHANGED offer
    BY <1>0, <1>3, <2>1, <2>2, SameBook, SettlingStep DEF MarketTypeOK
  <2>3. CASE Goto(g, "reload") /\ CancelForFailedSettlement(SellOf(g))
    <3>1. SellOf(g) \in OfferIds /\ PlacedIn(offer, SellOf(g))
      BY <2>1, Sides DEF Matched, PlacedIn
    <3> QED
      BY <1>0, <1>3, <2>1, <2>3, <3>1, CancelStep, SettlingStep
  <2> QED
    BY <1>3, <2>2, <2>3 DEF TransferBase
<1>4. ASSUME NEW g \in Matchers, TransferQuote(g), UNCHANGED failures
      PROVE  MarketInv'
  <2>1. /\ proc[g].pc \in Settling /\ UNCHANGED trades /\ g \in Matchers \cup Cancelers
        /\ "buyRow" \in Settling /\ "reload" \in Settling
    BY <1>4 DEF TransferQuote, Settling
  <2>2. CASE Goto(g, "buyRow") /\ UNCHANGED offer
    BY <1>0, <1>4, <2>1, <2>2, SameBook, SettlingStep DEF MarketTypeOK
  <2>3. CASE Goto(g, "reload") /\ CancelForFailedSettlement(BuyOf(g))
    <3>1. BuyOf(g) \in OfferIds /\ PlacedIn(offer, BuyOf(g))
      BY <2>1, Sides DEF Matched, PlacedIn
    <3> QED
      BY <1>0, <1>4, <2>1, <2>3, <3>1, CancelStep, SettlingStep
  <2> QED
    BY <1>4, <2>2, <2>3 DEF TransferQuote
<1>5. ASSUME NEW g \in Matchers, RecordBuy(g), UNCHANGED failures
      PROVE  MarketInv'
  <2>1. /\ proc[g].pc \in Settling /\ UNCHANGED trades /\ "sellRow" \in Settling
        /\ Goto(g, "sellRow") /\ UpdateRow(g, BuyOf(g)) /\ g \in Matchers \cup Cancelers
    BY <1>5 DEF RecordBuy, Settling
  <2>2. BuyOf(g) \in OfferIds /\ PlacedIn(offer, BuyOf(g)) /\ CopyOf(g, BuyOf(g)) - MatchQty(g) \in Nat
    BY <2>1, Sides DEF Matched, PlacedIn
  <2> QED
    BY <1>0, <1>5, <2>1, <2>2, UpdateStep, SettlingStep
<1>6. ASSUME NEW g \in Matchers, RecordSell(g), UNCHANGED failures
      PROVE  MarketInv'
  <2>1. /\ proc[g].pc \in Settling /\ UNCHANGED trades /\ "tradeRow" \in Settling
        /\ Goto(g, "tradeRow") /\ UpdateRow(g, SellOf(g)) /\ g \in Matchers \cup Cancelers
    BY <1>6 DEF RecordSell, Settling
  <2>2. SellOf(g) \in OfferIds /\ PlacedIn(offer, SellOf(g)) /\ CopyOf(g, SellOf(g)) - MatchQty(g) \in Nat
    BY <2>1, Sides DEF Matched, PlacedIn
  <2> QED
    BY <1>0, <1>6, <2>1, <2>2, UpdateStep, SettlingStep
<1>7. ASSUME NEW g \in Matchers, RecordTrade(g), UNCHANGED failures
      PROVE  MarketInv'
  <2> DEFINE t == [buy |-> BuyOf(g), sell |-> SellOf(g),
                   price |-> offer[proc[g].counter].price, quantity |-> MatchQty(g)]
  <2>1. /\ proc[g].pc \in Settling /\ UNCHANGED offer /\ "reload" \in Settling
        /\ Goto(g, "reload") /\ trades' = Append(trades, t) /\ g \in Matchers \cup Cancelers
    BY <1>7 DEF RecordTrade, Settling
  <2>2. /\ PlacedIn(offer, BuyOf(g)) /\ offer[BuyOf(g)].type = "BUY"
        /\ PlacedIn(offer, SellOf(g)) /\ offer[SellOf(g)].type = "SELL"
        /\ offer[BuyOf(g)].user # offer[SellOf(g)].user
        /\ offer[SellOf(g)].price <= t.price /\ t.price <= offer[BuyOf(g)].price
        /\ t.price \in Prices /\ MatchQty(g) \in Nat
    BY <2>1, Sides DEF Matched
  <2>3. t \in Trade /\ t.buy = BuyOf(g) /\ t.sell = SellOf(g)
    BY <2>2 DEF Trade, PlacedIn
  <2>4. proc' \in [Matchers \cup Cancelers -> Proc] /\ Matched'
    BY <2>1, SameBook, GotoStep
  <2> HIDE DEF t
  <2>5. MarketTypeOK'
    BY <1>0, <1>7, <2>1, <2>3, <2>4 DEF MarketTypeOK
  <2>6. ASSUME NEW i \in DOMAIN trades'
        PROVE  (i \in DOMAIN trades /\ trades'[i] = trades[i]) \/ trades'[i] = t
    BY <2>1, <2>3 DEF MarketTypeOK
  <2>7. TradesMatched'
    BY <2>1, <2>2, <2>3, <2>6 DEF TradesMatched, PlacedIn
  <2>8. LimitsRespected'
    BY <2>1, <2>2, <2>3, <2>6 DEF LimitsRespected
  <2> QED
    BY <2>4, <2>5, <2>7, <2>8
<1>8. ASSUME NEW g \in Matchers, Reload(g), UNCHANGED failures
      PROVE  MarketInv'
  <2> DEFINE p == [IdleProc EXCEPT !.pc = "finding", !.o = proc[g].o,
                                   !.remaining = offer[proc[g].o].remaining]
  <2>1. /\ UNCHANGED <<offer, trades>> /\ proc[g].pc = "reload" /\ g \in Matchers \cup Cancelers
        /\ proc' = [proc EXCEPT ![g] = p]
    BY <1>8 DEF Reload
  <2>2. PlacedIn(offer, proc[g].o) /\ offer[proc[g].o].remaining \in Nat
    BY <2>1 DEF Matched, PlacedIn, MarketTypeOK, Offer, NoRow
  <2>3. p \in Proc /\ p.o = proc[g].o /\ p.pc \notin Settling
    BY <2>2 DEF Proc, IdleProc, NoOffer, Settling, PlacedIn
  <2>4. PlacedIn(offer', p.o) /\ Immutable
    BY <2>1, <2>2, <2>3, SameBook
  <2> HIDE DEF p
  <2>5. proc' \in [Matchers \cup Cancelers -> Proc] /\ Matched'
    BY <2>1, <2>3, <2>4, ProcStep
  <2> QED
    BY <1>0, <1>8, <2>1, <2>4, <2>5, QuietStep DEF MarketTypeOK
<1>9. ASSUME NEW g \in Cancelers, NEW u \in Users, NEW o \in OfferIds, CancelOffer(g, u, o)
      PROVE  MarketInv'
  <2> DEFINE p == [proc[g] EXCEPT !.pc = "canceling", !.o = o]
  <2>1. /\ UNCHANGED <<offer, trades>> /\ g \in Matchers \cup Cancelers
        /\ proc' = [proc EXCEPT ![g] = p] /\ Open(o)
    BY <1>9 DEF CancelOffer
  <2>2. p \in Proc /\ p.o = o /\ p.pc \notin Settling
    BY <2>1 DEF Proc, Settling, MarketTypeOK
  <2>3. PlacedIn(offer', p.o) /\ Immutable
    BY <2>1, <2>2, SameBook DEF PlacedIn, Open
  <2> HIDE DEF p
  <2>4. proc' \in [Matchers \cup Cancelers -> Proc] /\ Matched'
    BY <2>1, <2>2, <2>3, ProcStep
  <2> QED
    BY <1>0, <1>9, <2>1, <2>3, <2>4, QuietStep DEF CancelOffer, MarketTypeOK
<1>10. ASSUME NEW g \in Cancelers, SaveCanceled(g)
       PROVE  MarketInv'
  <2>1. /\ proc[g].pc = "canceling" /\ g \in Matchers \cup Cancelers /\ UNCHANGED trades
        /\ Done(g) /\ CancelForFailedSettlement(proc[g].o)
    BY <1>10 DEF SaveCanceled, CancelForFailedSettlement
  <2>2. PlacedIn(offer, proc[g].o) /\ proc[g].o \in OfferIds
    BY <2>1 DEF Matched, PlacedIn
  <2>3. Immutable /\ offer' \in [OfferIds -> Offer \cup {NoRow}]
    BY <2>1, <2>2, CancelStep
  <2> QED
    BY <1>0, <1>10, <2>1, <2>3, DoneStep, QuietStep DEF SaveCanceled
<1>11. CASE UNCHANGED marketVars
  <2>1. UNCHANGED <<offer, trades, proc, failures>>
    BY <1>11 DEF marketVars
  <2> QED
    BY <2>1 DEF MarketTypeOK, Matched, TradesMatched, LimitsRespected, Matchable, PlacedIn
<1>12. ASSUME NEW g \in Matchers, StatementFails(g)
       PROVE  MarketInv'
  <2>1. /\ UNCHANGED <<offer, trades>> /\ failures' \in Nat /\ g \in Matchers \cup Cancelers
        /\ offer' \in [OfferIds -> Offer \cup {NoRow}]
    BY <1>0, <1>12 DEF StatementFails, MarketTypeOK
  <2>2. Immutable
    BY <2>1, SameBook
  <2>3. CASE Done(g)
    BY <2>1, <2>2, <2>3, DoneStep, QuietStep
  <2>4. ASSUME NEW pc \in Settling, proc[g].pc \in Settling, Goto(g, pc) PROVE MarketInv'
    BY <2>1, <2>2, <2>4, SettlingStep
  <2> QED
    BY <1>12, <2>3, <2>4 DEF StatementFails, Settling
<1> QED
  BY <1>1, <1>2, <1>3, <1>4, <1>5, <1>6, <1>7, <1>8, <1>9, <1>10, <1>11, <1>12 DEF MarketNext, Match
-----------------------------------------------------------------------------
LEMMA MarketInvariant == MarketSpec => []MarketInv
<1> QED
  BY MarketInitially, MarketStep, PTL DEF MarketSpec

\* Rows, trades and goroutines of the order book always have their shape; in
\* particular no remaining quantity is ever negative, however many matchers and
\* cancelers there are, whichever leg of a settlement fails and whichever statement.
THEOREM MarketTyping == MarketSpec => []MarketTypeOK
<1>1. MarketInv => MarketTypeOK
  BY DEF MarketInv
<1> QED
  BY <1>1, MarketInvariant, PTL

\* Every trade is between different users and within both limits, even when
\* matchers race with one another and with cancellations: what settleMatch
\* computes from stale copies never concerns a price or an owner.
THEOREM TradesWithinLimits == MarketSpec => []LimitsRespected
<1>1. MarketInv => LimitsRespected
  BY DEF MarketInv
<1> QED
  BY <1>1, MarketInvariant, PTL

=============================================================================
