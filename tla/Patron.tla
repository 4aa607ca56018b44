------------------------------- MODULE Patron -------------------------------
(***************************************************************************)
(* Patron memberships of one user.  A subscription is quoted from the      *)
(* membership as it is, recorded later in one transaction, and takes       *)
(* effect at once or when the paid-up time of the membership is over; a    *)
(* worker then writes the entry of the log that is due into the            *)
(* membership.  Days stand for dates; a month is one day.                  *)
(***************************************************************************)
EXTENDS FiniteSets, Naturals

CONSTANTS Grades,         \* <<package, tier>> pairs on offer
          PatronRequests, \* bound: subscriptions confirmed
          MaxDay          \* bound: the clock

\* A grade is one of a package, for a month, a year or for ever.
ASSUME PatronAssumption ==
  MaxDay \in Nat /\ \A grade \in Grades : grade[2] \in {"MONTHLY", "ANNUAL", "LIFETIME"}

VARIABLES membership,    \* user_patron_memberships
          patronLog,     \* user_patron_subscription_logs
          subscriber,    \* the requests under way with their quote
          promotion,     \* the worker with the entry it has chosen
          day

patronVars == <<membership, patronLog, subscriber, promotion, day>>

Forever == MaxDay + 10
NoEntry == [grade |-> <<"none", "none">>, from |-> 0, till |-> 0]
Days    == 0..Forever
Entry   == [grade: Grades, from: Days, till: 0..(Forever + 12)]
Asking  == [pc |-> "asking", entry |-> NoEntry]

PatronInit ==
  /\ membership = NoEntry /\ patronLog = {} /\ promotion = NoEntry /\ day = 0
  /\ subscriber = [c \in PatronRequests |-> Asking]

Package(grade) == grade[1]
Tier(grade)    == grade[2]
TierValidTill(from, tier) ==
  CASE tier = "LIFETIME" -> Forever [] tier = "ANNUAL" -> from + 12 [] tier = "MONTHLY" -> from + 1
Expired == membership.till < day

\* A lifetime member is kept from a grade of the same package or a lower one.
ValidUpgrade(grade) ==
  \/ membership = NoEntry \/ Expired \/ Tier(membership.grade) # "LIFETIME"
  \/ Package(membership.grade) = "PLATINUM" /\ Package(grade) \notin {"GOLD", "PLATINUM"}
  \/ Package(membership.grade) = "GOLD" /\ Package(grade) # "GOLD"

Pending == \E e \in patronLog : e.from > day

\* From when the subscription holds: now, unless a month is still running.
EffectiveFrom ==
  IF membership = NoEntry \/ membership.till <= day \/ Tier(membership.grade) \in {"ANNUAL", "LIFETIME"}
    THEN day ELSE membership.till + 1

Quoted(grade) == [grade |-> grade, from |-> EffectiveFrom, till |-> TierValidTill(EffectiveFrom, Tier(grade))]

-----------------------------------------------------------------------------
\* ConfirmSubscription, its quote: the payment was made before.
QuoteSubscription(c, grade) ==
  /\ subscriber[c] = Asking /\ ValidUpgrade(grade) /\ ~Pending
  /\ subscriber' = [subscriber EXCEPT ![c] = [pc |-> IF EffectiveFrom = day THEN "instant" ELSE "deferred",
                                              entry |-> Quoted(grade)]]
  /\ UNCHANGED <<membership, patronLog, promotion, day>>

RecordSubscription(c) ==
  LET q == subscriber[c] IN
  /\ q.pc \in {"instant", "deferred"} /\ subscriber' = [subscriber EXCEPT ![c] = [Asking EXCEPT !.pc = "over"]]
  /\ patronLog' = patronLog \cup {q.entry}
  /\ membership' = IF q.pc = "instant" THEN q.entry ELSE membership
  /\ UNCHANGED <<promotion, day>>

\* The due entry with the latest date; the first one found of several.
PromotePendingMemberships ==
  /\ promotion = NoEntry
  /\ \E e \in patronLog : /\ e.from <= day /\ promotion' = e
                          /\ \A f \in patronLog : f.from <= day => f.from <= e.from
  /\ UNCHANGED <<membership, patronLog, subscriber, day>>

\* By then the membership may have been written by a confirmation.
SavePromotion ==
  /\ promotion # NoEntry /\ promotion' = NoEntry /\ membership' = promotion
  /\ UNCHANGED <<patronLog, subscriber, day>>

NextDay == day < MaxDay /\ day' = day + 1 /\ UNCHANGED <<membership, patronLog, subscriber, promotion>>

PatronNext ==
  \/ \E c \in PatronRequests : RecordSubscription(c) \/ \E g \in Grades : QuoteSubscription(c, g)
  \/ PromotePendingMemberships \/ SavePromotion \/ NextDay

PatronSpec == PatronInit /\ [][PatronNext]_patronVars

-----------------------------------------------------------------------------
PatronTypeOK ==
  /\ membership \in Entry \cup {NoEntry} /\ promotion \in Entry \cup {NoEntry}
  /\ patronLog \subseteq Entry /\ day \in 0..MaxDay
  /\ \A c \in PatronRequests : subscriber[c].pc \in {"asking", "instant", "deferred", "over"}

\* A membership is one that was subscribed to and has begun: no sweep, however late it
\* writes what it chose, brings in an upgrade before its time or one nobody logged.
MembershipIsDue == membership = NoEntry \/ (membership \in patronLog /\ membership.from <= day)
=============================================================================
