-------------------------------- MODULE Kyc --------------------------------
(***************************************************************************)
(* Identity verification of one user by two vendors.  Each vendor's        *)
(* webhooks, and the start of a Sumsub level by the user, read a whole     *)
(* progress row and write it back in a later step; a webhook writes it and *)
(* the user's level in one transaction, but does not lock what it read, so *)
(* an older copy may come last.  Webhooks may come in any order and more   *)
(* than once.  Completed Dojah level 1 starts the onboarding of StableRail *)
(* after the commit.  A partner may set the level of a user it created.    *)
(***************************************************************************)
EXTENDS StableRail

CONSTANTS Levels,      \* the first levels of both vendors, 1..n
          KycCalls     \* bound: webhooks and requests, each served once

ASSUME KycAssumption == 1 \in Levels /\ Levels \subseteq Nat \ {0}

VARIABLES partnerUser, \* was the user created by a partner
          sumsub,      \* user_sumsub_progresses: initiated and done levels, and is there a row
          doja,        \* user_doja_progresses
          level,       \* users.kyc_verified_level
          reviewed,    \* levels a vendor has reported as passed
          kycCall      \* the requests under way with their copy of a row

kycOwn  == <<partnerUser, sumsub, doja, level, reviewed, kycCall>>
kycVars == <<kycOwn, railVars>>

Unseen     == [pc |-> "unseen"]
Served     == [pc |-> "served"]
NoProgress == [row |-> FALSE, begun |-> {}, passed |-> {}]

\* A new user, or one who has passed the first level.
KycInit ==
  /\ partnerUser \in BOOLEAN /\ doja = NoProgress
  /\ \/ sumsub = NoProgress /\ level = 0 /\ reviewed = {}
     \/ sumsub = [row |-> TRUE, begun |-> {1}, passed |-> {1}] /\ level = 1 /\ reviewed = {1}
  /\ kycCall = [k \in KycCalls |-> Unseen]

Copied(k, pc, n, progress) ==
  kycCall' = [kycCall EXCEPT ![k] = [pc |-> pc, level |-> n, copy |-> progress]]
ServedNow(k) == kycCall' = [kycCall EXCEPT ![k] = Served]
\* Save of a copy: a row that was absent is created, and that fails when another
\* request has created it meanwhile.
Saves(current, copy) == copy.row \/ ~current.row
Written(copy) == [copy EXCEPT !.row = TRUE]

-----------------------------------------------------------------------------
(* Sumsub.                                                                 *)
\* applySumsubLevelOrdering, with what it sets.
MayTouch(progress, n) == n \notin progress.passed /\ \A m \in 1..(n - 1) : m \in progress.passed

\* Three calls to the vendor come between the read and the save.
InitiateSumsubLevel(k, n) ==
  /\ kycCall[k] = Unseen /\ MayTouch(sumsub, n)
  /\ Copied(k, "save", n, [sumsub EXCEPT !.begun = @ \cup {n}])
  /\ UNCHANGED <<partnerUser, sumsub, doja, level, reviewed, railVars>>

SaveSumsub(k) ==
  /\ kycCall[k].pc = "save" /\ ServedNow(k)
  /\ sumsub' = IF Saves(sumsub, kycCall[k].copy) THEN Written(kycCall[k].copy) ELSE sumsub
  /\ UNCHANGED <<partnerUser, doja, level, reviewed, railVars>>

\* The vendor passed the level; out of order, or twice, that is only logged.
SumsubGreen(k, n) ==
  /\ kycCall[k] = Unseen
  /\ IF MayTouch(sumsub, n)
       THEN Copied(k, "green", n, [sumsub EXCEPT !.passed = @ \cup {n}]) /\ reviewed' = reviewed \cup {n}
       ELSE ServedNow(k) /\ UNCHANGED reviewed
  /\ UNCHANGED <<partnerUser, sumsub, doja, level, railVars>>

\* "kyc_verified_level < ?" is looked at by the UPDATE itself.
RaiseLevel(n) == level' = IF level < n THEN n ELSE level

CommitGreen(k) ==
  LET c == kycCall[k] IN
  /\ c.pc = "green" /\ ServedNow(k)
  /\ IF Saves(sumsub, c.copy) THEN sumsub' = Written(c.copy) /\ RaiseLevel(c.level)
     ELSE UNCHANGED <<sumsub, level>>
  /\ UNCHANGED <<partnerUser, doja, reviewed, railVars>>

\* resetSumsubLevel
SumsubRed(k, n) ==
  /\ kycCall[k] = Unseen
  /\ Copied(k, "save", n, [sumsub EXCEPT !.begun = @ \ {n}, !.passed = @ \ {n}])
  /\ UNCHANGED <<partnerUser, sumsub, doja, level, reviewed, railVars>>

-----------------------------------------------------------------------------
(* Dojah: no order is required of the levels.                              *)
DojaPending(k, n) ==
  /\ kycCall[k] = Unseen /\ Copied(k, "doja", n, [doja EXCEPT !.begun = @ \cup {n}])
  /\ UNCHANGED <<partnerUser, sumsub, doja, level, reviewed, railVars>>

DojaFailed(k, n) ==
  /\ kycCall[k] = Unseen /\ Copied(k, "doja", n, [doja EXCEPT !.begun = @ \ {n}, !.passed = @ \ {n}])
  /\ UNCHANGED <<partnerUser, sumsub, doja, level, reviewed, railVars>>

DojaCompleted(k, n) ==
  /\ kycCall[k] = Unseen /\ reviewed' = reviewed \cup {n}
  /\ Copied(k, IF n \in doja.passed THEN "doja" ELSE "completed", n,
            [doja EXCEPT !.begun = @ \cup {n}, !.passed = @ \cup {n}])
  /\ UNCHANGED <<partnerUser, sumsub, doja, level, railVars>>

\* Mutant: the level is set, not raised.
CommitByAssignment(k) ==
  LET c == kycCall[k] IN
  /\ c.pc \in {"doja", "completed"}
  /\ IF Saves(doja, c.copy)
       THEN doja' = Written(c.copy) /\ level' = IF c.pc = "completed" THEN c.level ELSE level
       ELSE UNCHANGED <<doja, level>>
  /\ kycCall' = [kycCall EXCEPT ![k] =
       IF c.pc = "completed" /\ c.level = 1 /\ Saves(doja, c.copy) THEN [c EXCEPT !.pc = "onboard"] ELSE Served]
  /\ UNCHANGED <<partnerUser, sumsub, reviewed, railVars>>
CommitDoja(k) ==
  LET c == kycCall[k] IN
  /\ c.pc \in {"doja", "completed"}
  /\ IF Saves(doja, c.copy)
       THEN doja' = Written(c.copy) /\ (IF c.pc = "completed" THEN RaiseLevel(c.level) ELSE UNCHANGED level)
       ELSE UNCHANGED <<doja, level>>
  /\ kycCall' = [kycCall EXCEPT ![k] =
       IF c.pc = "completed" /\ c.level = 1 /\ Saves(doja, c.copy) THEN [c EXCEPT !.pc = "onboard"] ELSE Served]
  /\ UNCHANGED <<partnerUser, sumsub, reviewed, railVars>>

\* OnBVNVerified; a user who is onboarded is left alone, and an error is only logged.
OnBVNVerified(k) ==
  /\ kycCall[k].pc = "onboard" /\ ServedNow(k)
  /\ (\E b \in Boardings : InitiateOnboarding(b)) \/ UNCHANGED railVars
  /\ UNCHANGED <<partnerUser, sumsub, doja, level, reviewed>>

-----------------------------------------------------------------------------
\* A partner's own verification, any level.
UpdateKYCStatus(n) ==
  /\ partnerUser /\ level' = n
  /\ UNCHANGED <<partnerUser, sumsub, doja, reviewed, kycCall, railVars>>

FailKycCall(k) ==
  /\ kycCall[k] \notin {Unseen, Served} /\ RailFault /\ ServedNow(k)
  /\ UNCHANGED <<partnerUser, sumsub, doja, level, reviewed, boarding, railUser, rampVars, sweep>>

KycNext ==
  \/ \E k \in KycCalls :
       \/ SaveSumsub(k) \/ CommitGreen(k) \/ CommitDoja(k) \/ OnBVNVerified(k) \/ FailKycCall(k)
       \/ \E n \in Levels : \/ InitiateSumsubLevel(k, n) \/ SumsubGreen(k, n) \/ SumsubRed(k, n)
                            \/ DojaPending(k, n) \/ DojaFailed(k, n) \/ DojaCompleted(k, n)
  \/ \E n \in Levels \cup {0} : UpdateKYCStatus(n)
  \/ RailNext /\ UNCHANGED kycOwn

KycSpec == RailInit /\ KycInit /\ [][KycNext]_kycVars

-----------------------------------------------------------------------------
KycTypeOK ==
  /\ {sumsub, doja} \subseteq [row: BOOLEAN, begun: SUBSET Levels, passed: SUBSET Levels]
  /\ level \in Levels \cup {0} /\ reviewed \subseteq Levels
  /\ \A k \in KycCalls : kycCall[k] \in {Unseen, Served} \cup
       [pc: {"save", "green", "doja", "completed", "onboard"}, level: Levels,
        copy: [row: BOOLEAN, begun: SUBSET Levels, passed: SUBSET Levels]]
  /\ partnerUser \in BOOLEAN

\* Unless a partner looks after the user, the verified level is one a vendor passed and
\* at least as high as every level the progress rows show as passed, in whatever order
\* the webhooks come and however old the rows are that requests write back.
LevelIsEarned ==
  ~partnerUser => /\ level = 0 \/ level \in reviewed
                  /\ \A n \in sumsub.passed \cup doja.passed : n <= level

\* Refuted: the comment on ProcessSumsubWebhook says that its reviews alone raise the level.
\* The other vendor's webhooks do it as well (and a partner's calls, which are left aside).
SumsubAloneRaises ==
  [][~partnerUser /\ level' > level => \E k \in KycCalls : CommitGreen(k)]_kycVars
=============================================================================
