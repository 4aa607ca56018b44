------------------------------- MODULE Market -------------------------------
(***************************************************************************)
(* The order book of one trading pair: offers that rest in the database,   *)
(* the goroutine that serves each PlaceOffer and matches its offer against *)
(* the book, and requests that cancel offers.  A match is two transfers    *)
(* that are submitted one after the other, then three database statements, *)
(* none of them in a transaction: each is a step.                          *)
(*                                                                         *)
(* A matcher works on copies of the two offers' remaining quantities, its  *)
(* own as of the last reload and the counter offer's as of the query.      *)
(***************************************************************************)
EXTENDS Integers, Sequences, FiniteSetsExt

CONSTANTS Users,      \* makers of offers
          MaxOffers,  \* bound: rows of market_offers
          MaxTrades,  \* bound: rows of market_trades
          Prices,     \* limit prices
          Quantities, \* offered quantities
          Matchers,   \* goroutines serving PlaceOffer
          Cancelers,  \* goroutines serving CancelOffer
          MaxFailures \* bound: database statements of the matching that fail

OfferIds == 1..MaxOffers  \* in the order of created_at
NoOffer  == 0
Statuses == {"NONE", "OPEN", "PARTIALLY_FILLED", "FILLED", "CANCELED"}

ASSUME MarketAssumption == /\ MaxOffers \in Nat /\ MaxTrades \in Nat /\ MaxFailures \in Nat
                           /\ Prices \subseteq Nat \ {0} /\ Quantities \subseteq Nat \ {0}
                           /\ Matchers \cap Cancelers = {}

VARIABLES offer,   \* market_offers
          trades,  \* market_trades
          proc,    \* the goroutines
          failures \* failed statements so far (bound only)

marketVars == <<offer, trades, proc, failures>>

Offer   == [status: Statuses \ {"NONE"}, type: {"BUY", "SELL"}, user: Users, price: Prices,
            quantity: Quantities, remaining: Nat]
NoRow   == [status |-> "NONE"]
Trade   == [buy: OfferIds, sell: OfferIds, price: Prices, quantity: Nat]
Proc    == [pc: {"idle", "finding", "base", "quote", "buyRow", "sellRow", "tradeRow", "reload",
                 "canceling"},
            o: OfferIds \cup {NoOffer}, counter: OfferIds \cup {NoOffer},
            remaining: Nat, counterRemaining: Nat]
IdleProc == [pc |-> "idle", o |-> NoOffer, counter |-> NoOffer, remaining |-> 0, counterRemaining |-> 0]

MarketInit == /\ offer = [o \in OfferIds |-> NoRow]
              /\ trades = <<>>
              /\ proc = [g \in Matchers \cup Cancelers |-> IdleProc]
              /\ failures = 0

Goto(g, pc) == proc' = [proc EXCEPT ![g].pc = pc]
Done(g)     == proc' = [proc EXCEPT ![g] = IdleProc]

Placed(o) == offer[o].status # "NONE"
Open(o)   == offer[o].status \in {"OPEN", "PARTIALLY_FILLED"}
Lower(x, y) == IF x <= y THEN x ELSE y

-----------------------------------------------------------------------------
\* PlaceOffer inserts the row; its ids follow the clock.
PlaceOffer(g, u, type, price, quantity) ==
  /\ proc[g].pc = "idle"
  /\ \E o \in OfferIds :
        /\ ~Placed(o) /\ \A p \in 1..(o - 1) : Placed(p)
        /\ offer' = [offer EXCEPT ![o] = [status |-> "OPEN", type |-> type, user |-> u, price |-> price,
                                          quantity |-> quantity, remaining |-> quantity]]
        /\ proc' = [proc EXCEPT ![g] = [IdleProc EXCEPT !.pc = "finding", !.o = o, !.remaining = quantity]]
  /\ UNCHANGED <<trades, failures>>

\* Mutant: the prices are compared as if every taker bought.
CrossesAsBuyer(o, c) == /\ Open(c)
                        /\ offer[c].user # offer[o].user
                        /\ offer[c].type # offer[o].type
                        /\ offer[c].price <= offer[o].price
\* What findBestCounterOffer's query selects, and in which order.
Crosses(o, c) == /\ Open(c)
                 /\ offer[c].user # offer[o].user
                 /\ offer[c].type # offer[o].type
                 /\ IF offer[o].type = "BUY" THEN offer[c].price <= offer[o].price
                                             ELSE offer[c].price >= offer[o].price
Before(o, c, d) == \/ IF offer[o].type = "BUY" THEN offer[c].price < offer[d].price
                                               ELSE offer[c].price > offer[d].price
                   \/ offer[c].price = offer[d].price /\ c < d
\* Mutant: the query has no ORDER BY.
UnorderedCounters(o) == {c \in OfferIds : Crosses(o, c)}
BestCounters(o) == {c \in OfferIds : /\ Crosses(o, c)
                                     /\ \A d \in OfferIds \ {c} : Crosses(o, d) => Before(o, c, d)}

\* One turn of matchOffer's loop: it ends when nothing remains or nothing crosses.
FindBestCounterOffer(g) ==
  LET o == proc[g].o IN
  /\ proc[g].pc = "finding"
  /\ \/ /\ proc[g].remaining = 0 \/ BestCounters(o) = {}
        /\ Done(g)
     \/ /\ proc[g].remaining > 0
        /\ \E c \in BestCounters(o) :
              proc' = [proc EXCEPT ![g].pc = "base", ![g].counter = c,
                                   ![g].counterRemaining = offer[c].remaining]
  /\ UNCHANGED <<offer, trades>>

BuyOf(g)  == IF offer[proc[g].o].type = "BUY" THEN proc[g].o ELSE proc[g].counter
SellOf(g) == IF offer[proc[g].o].type = "BUY" THEN proc[g].counter ELSE proc[g].o
CopyOf(g, o)  == IF o = proc[g].o THEN proc[g].remaining ELSE proc[g].counterRemaining
\* Mutant: the taker gets all it asks for.
TakerQty(g)   == proc[g].remaining
MatchQty(g)   == Lower(proc[g].remaining, proc[g].counterRemaining)

\* Mutant: an underfunded side stays in the book.
LeaveInBook(o) == UNCHANGED offer
CancelForFailedSettlement(o) == offer' = [offer EXCEPT ![o].status = "CANCELED"]

\* Leg 1.  Whether the transfer can be submitted depends on the seller's balance
\* and allowance and on the network.
TransferBase(g) ==
  /\ proc[g].pc = "base"
  /\ \/ Goto(g, "quote") /\ UNCHANGED offer
     \/ Goto(g, "reload") /\ CancelForFailedSettlement(SellOf(g))
  /\ UNCHANGED trades

\* Leg 2, likewise for the buyer.
TransferQuote(g) ==
  /\ proc[g].pc = "quote"
  /\ \/ Goto(g, "buyRow") /\ UNCHANGED offer
     \/ Goto(g, "reload") /\ CancelForFailedSettlement(BuyOf(g))
  /\ UNCHANGED trades

StatusFor(remaining) == IF remaining = 0 THEN "FILLED" ELSE "PARTIALLY_FILLED"
\* Mutant: what is left is computed from the offered quantity.
UpdateFromQuantity(g, o) ==
  LET left == offer[o].quantity - MatchQty(g) IN
  offer' = [offer EXCEPT ![o].remaining = left, ![o].status = StatusFor(left)]
UpdateRow(g, o) ==
  LET left == CopyOf(g, o) - MatchQty(g) IN
  offer' = [offer EXCEPT ![o].remaining = left, ![o].status = StatusFor(left)]

RecordBuy(g)  == /\ proc[g].pc = "buyRow"
                 /\ UpdateRow(g, BuyOf(g))
                 /\ Goto(g, "sellRow")
                 /\ UNCHANGED trades
RecordSell(g) == /\ proc[g].pc = "sellRow"
                 /\ UpdateRow(g, SellOf(g))
                 /\ Goto(g, "tradeRow")
                 /\ UNCHANGED trades
RecordTrade(g) == /\ proc[g].pc = "tradeRow"
                  /\ Len(trades) < MaxTrades
                  /\ trades' = Append(trades, [buy |-> BuyOf(g), sell |-> SellOf(g),
                                               price |-> offer[proc[g].counter].price,
                                               quantity |-> MatchQty(g)])
                  /\ Goto(g, "reload")
                  /\ UNCHANGED offer

\* Mutant: an offer is matched once.
ReloadAndStop(g) == proc[g].pc = "reload" /\ Done(g) /\ UNCHANGED <<offer, trades>>
Reload(g) == /\ proc[g].pc = "reload"
             /\ proc' = [proc EXCEPT ![g] = [IdleProc EXCEPT !.pc = "finding", !.o = proc[g].o,
                                               !.remaining = offer[proc[g].o].remaining]]
             /\ UNCHANGED <<offer, trades>>

Match(g) == /\ \/ FindBestCounterOffer(g) \/ TransferBase(g) \/ TransferQuote(g)
               \/ RecordBuy(g) \/ RecordSell(g) \/ RecordTrade(g) \/ Reload(g)
            /\ UNCHANGED failures

\* The database refuses a statement.  Without the counter offer or the offer's
\* own row the loop ends; without a token's decimals settleMatch returns before
\* it sends anything, and the loop goes on; the errors of a cancellation and of
\* recordTrade's three statements are not looked at.
StatementFails(g) ==
  /\ failures < MaxFailures
  /\ failures' = failures + 1
  /\ \/ proc[g].pc \in {"finding", "reload"} /\ Done(g)
     \/ proc[g].pc \in {"base", "quote"} /\ Goto(g, "reload")
     \/ proc[g].pc = "buyRow" /\ Goto(g, "sellRow")
     \/ proc[g].pc = "sellRow" /\ Goto(g, "tradeRow")
     \/ proc[g].pc = "tradeRow" /\ Goto(g, "reload")
  /\ UNCHANGED <<offer, trades>>

-----------------------------------------------------------------------------
\* CancelOffer reads the caller's offer, and then writes its status whatever it is by then.
CancelOffer(g, u, o) == /\ proc[g].pc = "idle"
                        /\ Open(o) /\ offer[o].user = u
                        /\ proc' = [proc EXCEPT ![g].pc = "canceling", ![g].o = o]
                        /\ UNCHANGED <<offer, trades, failures>>
SaveCanceled(g) == /\ proc[g].pc = "canceling"
                   /\ offer' = [offer EXCEPT ![proc[g].o].status = "CANCELED"]
                   /\ Done(g)
                   /\ UNCHANGED <<trades, failures>>

MarketNext ==
  \/ \E g \in Matchers, u \in Users, type \in {"BUY", "SELL"}, price \in Prices, quantity \in Quantities :
        PlaceOffer(g, u, type, price, quantity)
  \/ \E g \in Matchers : Match(g) \/ StatementFails(g)
  \/ \E g \in Cancelers, u \in Users, o \in OfferIds : CancelOffer(g, u, o)
  \/ \E g \in Cancelers : SaveCanceled(g)

MarketSpec == MarketInit /\ [][MarketNext]_marketVars
FairMarketSpec == MarketSpec /\ \A g \in Matchers : WF_marketVars(Match(g))
-----------------------------------------------------------------------------
\* Rows, trades and goroutines have the shape of their records.
MarketTypeOK == /\ offer \in [OfferIds -> Offer \cup {NoRow}]
                /\ trades \in Seq(Trade)
                /\ proc \in [Matchers \cup Cancelers -> Proc]
                /\ failures \in Nat

Quiet == \A g \in Matchers : proc[g].pc = "idle"
TradesOf(o) == {i \in DOMAIN trades : o \in {trades[i].buy, trades[i].sell}}
Traded(o)   == MapThenSumSet(LAMBDA i : trades[i].quantity, TradesOf(o))

\* When no placement is being matched, no two open offers of different users
\* cross: matchOffer leaves nothing behind that it could have settled, whatever
\* legs failed and whatever was canceled in the meantime, as long as the database
\* has answered.
BookUncrossed ==
  Quiet /\ failures = 0 => \A o, c \in OfferIds : Placed(o) /\ Open(o) => ~Crosses(o, c)

\* When no placement is being matched, what remains of an offer is what it
\* offered less what market_trades says was traded of it, as long as the database
\* has answered: no leg that fails and no cancellation comes between recordTrade's
\* three statements.
RemainingIsUntraded ==
  Quiet /\ failures = 0 =>
    \A o \in OfferIds : Placed(o) => offer[o].remaining = offer[o].quantity - Traded(o)

\* A trade is between different users' offers of the two types, and its price is
\* within both limits: settleMatch never sells below or buys above a limit.
LimitsRespected ==
  \A i \in DOMAIN trades :
    LET buy == offer[trades[i].buy]
        sell == offer[trades[i].sell]
    IN  /\ buy.type = "BUY" /\ sell.type = "SELL" /\ buy.user # sell.user
        /\ sell.price <= trades[i].price /\ trades[i].price <= buy.price

\* Price-time priority: when a trade is recorded, no offer that is still open
\* and that the taker could have had instead is better priced, or as well
\* priced and older, than the one it traded with.
PriceTimePriority ==
  [][\A g \in Matchers : RecordTrade(g) =>
       ~\E d \in OfferIds : /\ Crosses(proc[g].o, d)
                            /\ Before(proc[g].o, d, proc[g].counter)]_marketVars

\* A request to place an offer is answered, or the offer is canceled: each turn
\* of matchOffer's loop fills something, cancels one of the two offers or meets a
\* statement that failed, and then it tries again.
MatchingEnds ==
  \A g \in Matchers :
    proc[g].pc # "idle" ~> proc[g].pc = "idle" \/ offer[proc[g].o].status = "CANCELED"

\* "Canceling the buyer's remaining offer stops it from being matched again"
\* (settleMatch): no counter offer is taken for a buy offer that is canceled.
CanceledBuyerIsNotMatched ==
  [][\A g \in Matchers :
       /\ proc[g].pc = "finding" /\ proc'[g].pc = "base"
       /\ offer[proc[g].o].type = "BUY"
       => offer[proc[g].o].status # "CANCELED"]_marketVars
=============================================================================
