---------------------------- MODULE ServicesProofs ----------------------------
(***************************************************************************)
(* Proofs about the components around the group wallet, for any number of  *)
(* requests, levels, grades, documents and failures, and about all of them *)
(* together.  Accounts and the movements of money have modules of their    *)
(* own.                                                                    *)
(***************************************************************************)
EXTENDS Services, AccountsProofs, MoneyProofs, TLAPS

(* StableRail.  The row of a request has the status it was created with    *)
(* until the one poll that acts on it, and what that poll does next it     *)
(* does for this on-ramp alone.                                            *)
Sweeps == [pc: {"rest", "user", "onramp", "withdrawal", "ask", "mark"},
           boarding: SUBSET Boardings, onramp: SUBSET Onramps]

BoardingInv ==
  /\ \A b \in railUser : boarding[b] = "completed"
  /\ sweep.pc = "user" => \A b \in sweep.boarding : boarding[b] = "completed"

RampInv(o) ==
  /\ asked[o] <= 1
  /\ onramp[o] = "none" => rampRequest[o] = "none"
  /\ rampRequest[o] # "funded" => withdrawal[o] = "none"
  /\ asked[o] > 0 => rampRequest[o] = "funded" /\ onramp[o] = "funded" /\ withdrawal[o] # "none"
  /\ withdrawal[o] = "funded" => asked[o] > 0

SweepInv ==
  /\ \A o, p \in sweep.onramp : o = p
  /\ \A o \in Onramps : o \in sweep.onramp =>
       /\ sweep.pc \in {"onramp", "withdrawal", "ask", "mark"} => rampRequest[o] = "funded"
       /\ sweep.pc \in {"withdrawal", "ask", "mark"} => onramp[o] = "funded"
       /\ sweep.pc = "ask" => withdrawal[o] = "pending" /\ asked[o] = 0
       /\ sweep.pc = "mark" => withdrawal[o] # "none" /\ asked[o] = 1

RailInv == RailTypeOK /\ sweep \in Sweeps /\ asked \in [Onramps -> Nat] /\ BoardingInv
             /\ (\A o \in Onramps : RampInv(o)) /\ SweepInv

LEMMA RailInvInit == RailInit => RailInv
<1> SUFFICES ASSUME RailInit PROVE RailInv
  OBVIOUS
<1>1. RailTypeOK
  BY RailAssumption DEF RailInit, RailTypeOK
<1>2. sweep \in Sweeps /\ asked \in [Onramps -> Nat] /\ BoardingInv
  BY DEF RailInit, Resting, Sweeps, BoardingInv
<1>3. (\A o \in Onramps : RampInv(o)) /\ SweepInv
  BY DEF RailInit, Resting, RampInv, SweepInv
<1> QED
  BY <1>1, <1>2, <1>3 DEF RailInv

\* Requests and polls of the onboarding.
LEMMA BoardingStep ==
  ASSUME RailInv,
         \/ \E b \in Boardings : InitiateOnboarding(b) \/ PollOnboarding(b)
         \/ CreateStablerailUser \/ FailSweep
  PROVE  RailInv'
<1>1. /\ RailTypeOK /\ sweep \in Sweeps /\ asked \in [Onramps -> Nat] /\ BoardingInv
      /\ (\A o \in Onramps : RampInv(o)) /\ SweepInv
      /\ UNCHANGED <<onramp, rampRequest, withdrawal, asked>>
  BY DEF RailInv, InitiateOnboarding, PollOnboarding, CreateStablerailUser, FailSweep, rampVars
<1>2. \A o \in Onramps : RampInv(o)'
  BY <1>1 DEF RampInv
<1>3. ASSUME boarding' \in [Boardings -> {"none", "processing", "completed", "declined"}],
             \A b \in Boardings : boarding[b] = "completed" => boarding'[b] = "completed",
             railUser' \subseteq Boardings, \A b \in railUser' : boarding'[b] = "completed",
             sweep' = sweep \/ (/\ sweep'.onramp = {} /\ sweep' \in Sweeps
                                /\ sweep'.pc = "user" => \A b \in sweep'.boarding : boarding'[b] = "completed"),
             railFaults' \in 0..MaxRailFaults
      PROVE  RailInv'
  <2>1. RailTypeOK' /\ sweep' \in Sweeps /\ asked' \in [Onramps -> Nat]
    BY <1>1, <1>3 DEF RailTypeOK
  <2>2. BoardingInv'
    BY <1>1, <1>3 DEF BoardingInv, Sweeps
  <2>3. SweepInv'
    BY <1>1, <1>3 DEF SweepInv
  <2> QED
    BY <1>2, <2>1, <2>2, <2>3 DEF RailInv
<1>4. Resting \in Sweeps /\ Resting.onramp = {} /\ Resting.pc # "user" /\ Resting.boarding = {}
  BY DEF Resting, Sweeps
<1>5. ASSUME NEW b \in Boardings, InitiateOnboarding(b) PROVE RailInv'
  <2>1. /\ boarding[b] = "none" /\ UNCHANGED <<railUser, sweep, railFaults>>
        /\ \E status \in {"processing", "declined"} : boarding' = [boarding EXCEPT ![b] = status]
    BY <1>5 DEF InitiateOnboarding
  <2>2. /\ boarding' \in [Boardings -> {"none", "processing", "completed", "declined"}]
        /\ \A d \in Boardings : boarding[d] = "completed" => boarding'[d] = "completed"
    BY <1>1, <2>1 DEF RailTypeOK
  <2>3. railUser' \subseteq Boardings /\ (\A d \in railUser' : boarding'[d] = "completed") /\ railFaults' \in 0..MaxRailFaults
    BY <1>1, <2>1, <2>2 DEF RailTypeOK, BoardingInv
  <2> QED
    BY <1>3, <2>1, <2>2, <2>3
<1>6. ASSUME NEW b \in Boardings, PollOnboarding(b) PROVE RailInv'
  <2>1. PICK status \in {"completed", "declined"} :
          /\ boarding' = [boarding EXCEPT ![b] = status]
          /\ sweep' = IF status = "completed" THEN [pc |-> "user", boarding |-> {b}, onramp |-> {}] ELSE sweep
    BY <1>6 DEF PollOnboarding
  <2>2. boarding[b] = "processing" /\ UNCHANGED <<railUser, railFaults>>
    BY <1>6 DEF PollOnboarding
  <2>3. /\ boarding' \in [Boardings -> {"none", "processing", "completed", "declined"}] /\ boarding'[b] = status
        /\ \A d \in Boardings : boarding[d] = "completed" => boarding'[d] = "completed"
    BY <1>1, <2>1, <2>2 DEF RailTypeOK
  <2>4. railUser' \subseteq Boardings /\ (\A d \in railUser' : boarding'[d] = "completed") /\ railFaults' \in 0..MaxRailFaults
    BY <1>1, <2>2, <2>3 DEF RailTypeOK, BoardingInv
  <2>5. sweep' = sweep \/ (/\ sweep'.onramp = {} /\ sweep' \in Sweeps
                           /\ sweep'.pc = "user" => \A d \in sweep'.boarding : boarding'[d] = "completed")
    BY <2>1, <2>3 DEF Sweeps
  <2> QED
    BY <1>3, <2>3, <2>4, <2>5
<1>7. CASE CreateStablerailUser
  <2>1. /\ sweep.pc = "user" /\ sweep' = Resting /\ UNCHANGED <<boarding, railFaults>>
        /\ railUser' = IF railUser = {} THEN sweep.boarding ELSE railUser
    BY <1>7 DEF CreateStablerailUser
  <2>2. railUser' \subseteq Boardings /\ \A b \in railUser' : boarding'[b] = "completed"
    BY <1>1, <2>1 DEF RailTypeOK, BoardingInv, Sweeps
  <2>3. boarding' \in [Boardings -> {"none", "processing", "completed", "declined"}] /\ railFaults' \in 0..MaxRailFaults
    BY <1>1, <2>1 DEF RailTypeOK
  <2> QED
    BY <1>3, <1>4, <2>1, <2>2, <2>3
<1>8. CASE FailSweep
  <2>1. sweep' = Resting /\ UNCHANGED <<boarding, railUser>> /\ railFaults' \in 0..MaxRailFaults
    BY <1>1, <1>8, RailAssumption DEF FailSweep, RailFault, RailTypeOK
  <2>2. boarding' \in [Boardings -> {"none", "processing", "completed", "declined"}] /\ railUser' \subseteq Boardings
        /\ \A b \in railUser' : boarding'[b] = "completed"
    BY <1>1, <2>1 DEF RailTypeOK, BoardingInv
  <2> QED
    BY <1>3, <1>4, <2>1, <2>2
<1> QED
  BY <1>5, <1>6, <1>7, <1>8

\* An on-ramp, from its request to the withdrawal.
LEMMA RampStep ==
  ASSUME RailInv, NEW o \in Onramps,
         \/ InitiateOnramp(o) \/ PollOnramp(o) \/ SaveOnramp(o) \/ CreateAssetWithdrawal(o)
         \/ AskForWithdrawal(o) \/ MarkWithdrawal(o)
  PROVE  RailInv'
<1>1. /\ RailTypeOK /\ sweep \in Sweeps /\ asked \in [Onramps -> Nat] /\ BoardingInv
      /\ (\A p \in Onramps : RampInv(p)) /\ SweepInv
      /\ UNCHANGED <<boarding, railUser>>
  BY DEF RailInv, InitiateOnramp, PollOnramp, SaveOnramp, CreateAssetWithdrawal, AskForWithdrawal, MarkWithdrawal
<1> DEFINE Same(p) == /\ onramp'[p] = onramp[p] /\ rampRequest'[p] = rampRequest[p]
                      /\ withdrawal'[p] = withdrawal[p] /\ asked'[p] = asked[p]
           Kept == /\ onramp' \in [Onramps -> {"none", "created", "funded"}]
                   /\ rampRequest' \in [Onramps -> {"none", "created", "swapping", "funded"}]
                   /\ withdrawal' \in [Onramps -> {"none", "pending", "funded"}]
                   /\ asked' \in [Onramps -> Nat]
                   /\ \A p \in Onramps : p # o => Same(p)
<1>2. ASSUME Kept, railFaults' \in 0..MaxRailFaults, sweep' \in Sweeps,
             sweep'.pc = "user" => sweep' = sweep, RampInv(o)', SweepInv'
      PROVE  RailInv'
  <2>1. RailTypeOK'
    BY <1>1, <1>2 DEF RailTypeOK
  <2>2. BoardingInv'
    BY <1>1, <1>2 DEF BoardingInv
  <2>3. \A p \in Onramps : RampInv(p)'
    <3>1. \A p \in Onramps : p # o => RampInv(p)'
      BY <1>1, <1>2 DEF RampInv
    <3> QED
      BY <1>2, <3>1
  <2> QED
    BY <1>2, <2>1, <2>2, <2>3 DEF RailInv
<1>3. /\ RampInv(o) /\ asked[o] \in Nat /\ railFaults \in 0..MaxRailFaults
      /\ onramp \in [Onramps -> {"none", "created", "funded"}]
      /\ rampRequest \in [Onramps -> {"none", "created", "swapping", "funded"}]
      /\ withdrawal \in [Onramps -> {"none", "pending", "funded"}]
  BY <1>1 DEF RailTypeOK
<1>4. Resting \in Sweeps /\ Resting.onramp = {} /\ Resting.pc = "rest"
  BY DEF Resting, Sweeps
<1>5. CASE InitiateOnramp(o)
  <2>1. /\ onramp[o] = "none" /\ onramp' = [onramp EXCEPT ![o] = "created"] /\ UNCHANGED <<withdrawal, asked, sweep>>
        /\ rampRequest' = [rampRequest EXCEPT ![o] = "created"] \/ UNCHANGED rampRequest
        /\ railFaults' \in 0..MaxRailFaults
    BY <1>3, <1>5, RailAssumption DEF InitiateOnramp, RailFault
  <2>2. Kept /\ onramp'[o] = "created" /\ rampRequest'[o] \in {"created", "none"}
    BY <1>1, <1>3, <2>1 DEF RampInv
  <2>3. rampRequest[o] = "none" /\ asked[o] = 0
    BY <1>3, <2>1 DEF RampInv
  <2>4. RampInv(o)'
    BY <1>3, <2>1, <2>2, <2>3 DEF RampInv
  <2>5. SweepInv'
    BY <1>1, <2>1, <2>2, <2>3 DEF SweepInv
  <2> QED
    BY <1>1, <1>2, <2>1, <2>2, <2>4, <2>5
<1>6. CASE PollOnramp(o)
  <2>1. PICK status \in {"swapping", "funded"} :
          /\ rampRequest' = [rampRequest EXCEPT ![o] = status]
          /\ sweep' = IF status = "funded" THEN [pc |-> "onramp", boarding |-> {}, onramp |-> {o}] ELSE sweep
    BY <1>6 DEF PollOnramp
  <2>2. rampRequest[o] = "created" /\ sweep = Resting /\ UNCHANGED <<onramp, withdrawal, asked, railFaults>>
    BY <1>6 DEF PollOnramp
  <2>3. Kept /\ rampRequest'[o] = status
    BY <1>1, <1>3, <2>1, <2>2
  <2>4. /\ sweep' \in Sweeps /\ sweep'.pc # "user"
        /\ \/ sweep'.onramp = {}
           \/ status = "funded" /\ sweep'.pc = "onramp" /\ sweep'.onramp = {o}
    BY <1>4, <2>1, <2>2 DEF Sweeps
  <2>5. RampInv(o)'
    BY <1>3, <2>2, <2>3 DEF RampInv
  <2>6. SweepInv'
    BY <2>3, <2>4 DEF SweepInv
  <2> QED
    BY <1>2, <1>3, <2>2, <2>3, <2>4, <2>5, <2>6
<1>7. CASE SaveOnramp(o)
  <2>1. /\ sweep.pc = "onramp" /\ o \in sweep.onramp /\ sweep' = [sweep EXCEPT !.pc = "withdrawal"]
        /\ onramp' = [onramp EXCEPT ![o] = "funded"] /\ UNCHANGED <<rampRequest, withdrawal, asked, railFaults>>
    BY <1>7 DEF SaveOnramp
  <2>2. Kept /\ onramp'[o] = "funded"
    BY <1>1, <1>3, <2>1
  <2>3. sweep' \in Sweeps /\ sweep'.pc = "withdrawal" /\ sweep'.onramp = sweep.onramp
    BY <1>1, <2>1 DEF Sweeps
  <2>4. rampRequest[o] = "funded"
    BY <1>1, <2>1 DEF SweepInv
  <2>5. RampInv(o)'
    BY <1>3, <2>1, <2>2 DEF RampInv
  <2>6. SweepInv'
    BY <1>1, <2>1, <2>2, <2>3, <2>4 DEF SweepInv
  <2> QED
    BY <1>2, <1>3, <2>1, <2>2, <2>3, <2>5, <2>6
<1>8. CASE CreateAssetWithdrawal(o)
  <2>1. /\ sweep.pc = "withdrawal" /\ o \in sweep.onramp /\ UNCHANGED <<onramp, rampRequest, asked, railFaults>>
    BY <1>8 DEF CreateAssetWithdrawal
  <2>2. rampRequest[o] = "funded" /\ onramp[o] = "funded"
    BY <1>1, <2>1 DEF SweepInv
  <2>3. CASE withdrawal[o] = "none"
    <3>1. withdrawal' = [withdrawal EXCEPT ![o] = "pending"] /\ sweep' = [sweep EXCEPT !.pc = "ask"]
      BY <1>8, <2>3 DEF CreateAssetWithdrawal
    <3>2. Kept /\ withdrawal'[o] = "pending"
      BY <1>1, <1>3, <2>1, <3>1
    <3>3. sweep' \in Sweeps /\ sweep'.pc = "ask" /\ sweep'.onramp = sweep.onramp
      BY <1>1, <3>1 DEF Sweeps
    <3>4. asked[o] = 0
      BY <1>3, <2>3 DEF RampInv
    <3>5. RampInv(o)'
      BY <1>3, <2>1, <2>2, <3>2, <3>4 DEF RampInv
    <3>6. SweepInv'
      BY <1>1, <2>1, <2>2, <3>2, <3>3, <3>4 DEF SweepInv
    <3> QED
      BY <1>2, <1>3, <2>1, <3>2, <3>3, <3>5, <3>6
  <2>4. CASE withdrawal[o] # "none"
    <3>1. sweep' = Resting /\ UNCHANGED withdrawal
      BY <1>8, <2>4 DEF CreateAssetWithdrawal
    <3>2. Kept /\ RampInv(o)'
      BY <1>1, <1>3, <2>1, <3>1 DEF RampInv
    <3>3. SweepInv'
      BY <1>4, <3>1 DEF SweepInv
    <3> QED
      BY <1>2, <1>3, <1>4, <2>1, <3>1, <3>2, <3>3
  <2> QED
    BY <2>3, <2>4
<1>9. CASE AskForWithdrawal(o)
  <2>1. /\ sweep.pc = "ask" /\ o \in sweep.onramp /\ UNCHANGED <<onramp, rampRequest, withdrawal, railFaults>>
        /\ \/ asked' = [asked EXCEPT ![o] = @ + 1] /\ sweep' = [sweep EXCEPT !.pc = "mark"]
           \/ sweep' = Resting /\ UNCHANGED asked
    BY <1>9 DEF AskForWithdrawal
  <2>2. rampRequest[o] = "funded" /\ onramp[o] = "funded" /\ withdrawal[o] = "pending" /\ asked[o] = 0
    BY <1>1, <2>1 DEF SweepInv
  <2>3. CASE asked' = [asked EXCEPT ![o] = @ + 1] /\ sweep' = [sweep EXCEPT !.pc = "mark"]
    <3>1. Kept /\ asked'[o] = 1
      BY <1>1, <1>3, <2>1, <2>2, <2>3
    <3>2. sweep' \in Sweeps /\ sweep'.pc = "mark" /\ sweep'.onramp = sweep.onramp
      BY <1>1, <2>3 DEF Sweeps
    <3>3. RampInv(o)'
      BY <1>3, <2>1, <2>2, <3>1 DEF RampInv
    <3>4. SweepInv'
      BY <1>1, <2>1, <2>2, <3>1, <3>2 DEF SweepInv
    <3> QED
      BY <1>2, <1>3, <2>1, <3>1, <3>2, <3>3, <3>4
  <2>4. CASE sweep' = Resting /\ UNCHANGED asked
    <3>1. Kept /\ RampInv(o)'
      BY <1>1, <1>3, <2>1, <2>4 DEF RampInv
    <3>2. SweepInv'
      BY <1>4, <2>4 DEF SweepInv
    <3> QED
      BY <1>2, <1>3, <1>4, <2>1, <2>4, <3>1, <3>2
  <2> QED
    BY <2>1, <2>3, <2>4
<1>10. CASE MarkWithdrawal(o)
  <2>1. /\ sweep.pc = "mark" /\ o \in sweep.onramp /\ sweep' = Resting
        /\ withdrawal' = [withdrawal EXCEPT ![o] = "funded"] /\ UNCHANGED <<onramp, rampRequest, asked, railFaults>>
    BY <1>10 DEF MarkWithdrawal
  <2>2. rampRequest[o] = "funded" /\ asked[o] = 1
    BY <1>1, <2>1 DEF SweepInv
  <2>3. Kept /\ withdrawal'[o] = "funded"
    BY <1>1, <1>3, <2>1
  <2>4. RampInv(o)'
    BY <1>3, <2>1, <2>2, <2>3 DEF RampInv
  <2>5. SweepInv'
    BY <1>4, <2>1 DEF SweepInv
  <2> QED
    BY <1>2, <1>3, <1>4, <2>1, <2>3, <2>4, <2>5
<1> QED
  BY <1>5, <1>6, <1>7, <1>8, <1>9, <1>10

LEMMA RailInvStep == RailInv /\ RailNext => RailInv'
<1> SUFFICES ASSUME RailInv, RailNext PROVE RailInv'
  OBVIOUS
<1>1. CASE \/ \E b \in Boardings : InitiateOnboarding(b) \/ PollOnboarding(b)
           \/ CreateStablerailUser \/ FailSweep
  BY <1>1, BoardingStep
<1>2. CASE \E o \in Onramps : \/ InitiateOnramp(o) \/ PollOnramp(o) \/ SaveOnramp(o) \/ CreateAssetWithdrawal(o)
                              \/ AskForWithdrawal(o) \/ MarkWithdrawal(o)
  BY <1>2, RampStep
<1> QED
  BY <1>1, <1>2 DEF RailNext

LEMMA RailInvSame == RailInv /\ UNCHANGED railVars => RailInv'
BY DEF railVars, rampVars, RailInv, RailTypeOK, BoardingInv, RampInv, SweepInv

LEMMA RailInvImplies == RailInv => RailTypeOK /\ RailOnce /\ RailRecordsHold
BY DEF RailInv, RailOnce, RailRecordsHold, RampInv, BoardingInv

-----------------------------------------------------------------------------
(* Kyc.  Without a partner the level is only raised, so what a copy of a   *)
(* progress row showed as passed when it was read is passed for good.      *)
Progress == [row: BOOLEAN, begun: SUBSET Levels, passed: SUBSET Levels]
Copies   == [pc: {"save", "green", "doja", "completed", "onboard"}, level: Levels, copy: Progress]

\* What a request shows as passed once it has written its copy.
CopyFits(c) ==
  /\ c.pc \in {"green", "completed"} => c.level \in reviewed /\ \A n \in c.copy.passed : n <= level \/ n = c.level
  /\ c.pc \in {"save", "doja"} => \A n \in c.copy.passed : n <= level

KycInv ==
  /\ KycTypeOK /\ kycCall \in [KycCalls -> {Unseen, Served} \cup Copies]
  /\ LevelIsEarned /\ (~partnerUser => \A k \in KycCalls : CopyFits(kycCall[k]))

LEMMA LevelFacts == Levels \subseteq Nat /\ 0 \notin Levels /\ 1 \in Levels
BY KycAssumption

LEMMA CallKinds ==
  /\ \A c \in Copies : c.pc \in {"save", "green", "doja", "completed", "onboard"} /\ c \notin {Unseen, Served}
  /\ Unseen.pc = "unseen" /\ Served.pc = "served"
  /\ Unseen \notin Copies /\ Served \notin Copies /\ Unseen # Served
<1>1. Unseen.pc = "unseen" /\ Served.pc = "served"
  BY DEF Unseen, Served
<1>2. \A c \in Copies : c.pc \in {"save", "green", "doja", "completed", "onboard"}
  BY DEF Copies
<1> QED
  BY <1>1, <1>2

LEMMA KycInvInit == KycInit => KycInv
<1> SUFFICES ASSUME KycInit PROVE KycInv
  OBVIOUS
<1>1. kycCall \in [KycCalls -> {Unseen, Served} \cup Copies]
  BY DEF KycInit
<1>2. partnerUser \in BOOLEAN
  BY DEF KycInit
<1>3. /\ {sumsub, doja} \subseteq Progress /\ level \in Levels \cup {0} /\ reviewed \subseteq Levels
      /\ level = 0 \/ level \in reviewed
      /\ \A n \in sumsub.passed \cup doja.passed : n <= level
  <2>1. doja = NoProgress /\ NoProgress \in Progress /\ NoProgress.passed = {}
    BY DEF KycInit, NoProgress, Progress
  <2>2. CASE sumsub = NoProgress /\ level = 0 /\ reviewed = {}
    BY <2>1, <2>2
  <2>3. CASE sumsub = [row |-> TRUE, begun |-> {1}, passed |-> {1}] /\ level = 1 /\ reviewed = {1}
    <3>1. sumsub \in Progress /\ sumsub.passed = {1}
      BY <2>3, LevelFacts DEF Progress
    <3> QED
      BY <2>1, <2>3, <3>1, LevelFacts
  <2> QED
    BY <2>2, <2>3 DEF KycInit
<1>4. KycTypeOK
  BY <1>1, <1>2, <1>3 DEF KycTypeOK, Progress, Copies
<1>5. \A k \in KycCalls : CopyFits(kycCall[k])
  <2>1. \A k \in KycCalls : kycCall[k] = Unseen
    BY DEF KycInit
  <2> QED
    BY <2>1, CallKinds DEF CopyFits
<1> QED
  BY <1>1, <1>3, <1>4, <1>5 DEF KycInv, LevelIsEarned

\* A request goes on; the level may rise and more may have been reviewed.
LEMMA KycMoves ==
  ASSUME KycInv, NEW k \in KycCalls, NEW v \in {Served} \cup Copies, kycCall' = [kycCall EXCEPT ![k] = v],
         UNCHANGED partnerUser, sumsub' \in Progress, doja' \in Progress,
         level' \in Levels \cup {0}, reviewed \subseteq reviewed', reviewed' \subseteq Levels,
         ~partnerUser => /\ level <= level' /\ (level' = 0 \/ level' \in reviewed')
                         /\ \A n \in sumsub'.passed \cup doja'.passed : n <= level'
                         /\ v \in Copies => CopyFits(v)'
  PROVE  KycInv'
<1>1. KycTypeOK /\ kycCall \in [KycCalls -> {Unseen, Served} \cup Copies]
  BY DEF KycInv
<1>2. /\ kycCall' \in [KycCalls -> {Unseen, Served} \cup Copies] /\ kycCall'[k] = v
      /\ \A j \in KycCalls : j # k => kycCall'[j] = kycCall[j]
  BY <1>1
<1>3. KycTypeOK'
  <2>1. partnerUser \in BOOLEAN
    BY <1>1 DEF KycTypeOK
  <2>2. partnerUser' \in BOOLEAN
    BY <2>1
  <2>3. {sumsub', doja'} \subseteq Progress
    OBVIOUS
  <2> QED
    BY <1>2, <2>2, <2>3 DEF KycTypeOK, Progress, Copies
<1>4. LevelIsEarned'
  BY DEF LevelIsEarned
<1>5. ASSUME ~partnerUser, NEW j \in KycCalls PROVE CopyFits(kycCall[j])'
  <2>1. level \in Nat /\ level' \in Nat /\ level <= level'
    BY <1>1, <1>5, LevelFacts DEF KycTypeOK
  <2>2. CASE j = k
    <3>1. CASE v = Served
      BY <1>2, <2>2, <3>1, CallKinds DEF CopyFits
    <3>2. CASE v \in Copies
      BY <1>2, <1>5, <2>2, <3>2 DEF CopyFits
    <3> QED
      BY <3>1, <3>2
  <2>3. CASE j # k
    <3>1. CopyFits(kycCall[j]) /\ kycCall'[j] = kycCall[j] /\ kycCall[j] \in {Unseen, Served} \cup Copies
      BY <1>1, <1>2, <1>5, <2>3 DEF KycInv
    <3>2. CASE kycCall[j] \in {Unseen, Served}
      BY <3>1, <3>2, CallKinds DEF CopyFits
    <3>3. CASE kycCall[j] \in Copies
      <4>1. \A n \in kycCall[j].copy.passed : n \in Nat
        BY <3>3, LevelFacts DEF Copies, Progress
      <4>2. kycCall[j].pc \in {"green", "completed"} =>
              kycCall'[j].level \in reviewed' /\ \A n \in kycCall'[j].copy.passed : n <= level' \/ n = kycCall'[j].level
        <5> SUFFICES ASSUME kycCall[j].pc \in {"green", "completed"}
                     PROVE  /\ kycCall[j].level \in reviewed'
                            /\ \A n \in kycCall[j].copy.passed : n <= level' \/ n = kycCall[j].level
          BY <3>1
        <5>1. /\ kycCall[j].level \in reviewed
              /\ \A n \in kycCall[j].copy.passed : n <= level \/ n = kycCall[j].level
          BY <3>1 DEF CopyFits
        <5>2. \A n \in kycCall[j].copy.passed : n <= level => n <= level'
          BY <2>1, <4>1
        <5> QED
          BY <5>1, <5>2
      <4>3. kycCall[j].pc \in {"save", "doja"} => \A n \in kycCall'[j].copy.passed : n <= level'
        BY <2>1, <3>1, <4>1 DEF CopyFits
      <4> QED
        BY <3>1, <4>2, <4>3 DEF CopyFits
    <3> QED
      BY <3>1, <3>2, <3>3
  <2> QED
    BY <2>2, <2>3
<1>6. ~partnerUser' => \A j \in KycCalls : CopyFits(kycCall[j])'
  BY <1>5 DEF CopyFits
<1> QED
  BY <1>2, <1>3, <1>4, <1>6 DEF KycInv

LEMMA KycFacts ==
  ASSUME KycInv
  PROVE  /\ sumsub \in Progress /\ doja \in Progress /\ level \in Levels \cup {0} /\ reviewed \subseteq Levels
         /\ sumsub.passed \subseteq Levels /\ doja.passed \subseteq Levels /\ level \in Nat
         /\ ~partnerUser => /\ level = 0 \/ level \in reviewed
                            /\ \A n \in sumsub.passed \cup doja.passed : n <= level
                            /\ \A k \in KycCalls : CopyFits(kycCall[k])
         /\ \A k \in KycCalls : kycCall[k] \in {Unseen, Served} \cup Copies
BY LevelFacts DEF KycInv, KycTypeOK, LevelIsEarned, Progress

\* What reads a progress row: the copy shows what has been passed, and the new level.
LEMMA KycReads ==
  ASSUME KycInv, NEW k \in KycCalls, NEW n \in Levels,
         \/ InitiateSumsubLevel(k, n) \/ SumsubGreen(k, n) \/ SumsubRed(k, n)
         \/ DojaPending(k, n) \/ DojaFailed(k, n) \/ DojaCompleted(k, n)
  PROVE  KycInv'
<1>1. UNCHANGED <<partnerUser, sumsub, doja, level>>
  BY DEF InitiateSumsubLevel, SumsubGreen, SumsubRed, DojaPending, DojaFailed, DojaCompleted
<1>2. /\ sumsub \in Progress /\ doja \in Progress /\ level \in Levels \cup {0} /\ reviewed \subseteq Levels
      /\ sumsub.passed \subseteq Levels /\ doja.passed \subseteq Levels /\ level \in Nat
      /\ ~partnerUser => /\ level = 0 \/ level \in reviewed
                         /\ \A m \in sumsub.passed \cup doja.passed : m <= level
  BY KycFacts
<1>10. /\ sumsub' \in Progress /\ doja' \in Progress /\ level' \in Levels \cup {0} /\ UNCHANGED partnerUser
       /\ ~partnerUser => /\ level <= level' /\ (reviewed \subseteq reviewed' => level' = 0 \/ level' \in reviewed')
                          /\ \A m \in sumsub'.passed \cup doja'.passed : m <= level'
  BY <1>1, <1>2
<1>3. ASSUME NEW pc \in {"save", "green", "doja", "completed"}, NEW copy \in Progress, NEW base \in {sumsub, doja},
             Copied(k, pc, n, copy),
             \/ pc \in {"save", "doja"} /\ copy.passed \subseteq base.passed /\ reviewed \subseteq reviewed'
             \/ copy.passed \subseteq base.passed \cup {n} /\ pc \in {"green", "completed"} /\ reviewed' = reviewed \cup {n},
             reviewed' \subseteq Levels
      PROVE  KycInv'
  <2>1. PICK v \in Copies : /\ v.pc = pc /\ v.level = n /\ v.copy = copy
                           /\ kycCall' = [kycCall EXCEPT ![k] = v]
    <3> DEFINE w == [pc |-> pc, level |-> n, copy |-> copy]
    <3>1. w \in Copies /\ w.pc = pc /\ w.level = n /\ w.copy = copy
      BY DEF Copies
    <3>2. kycCall' = [kycCall EXCEPT ![k] = w]
      BY <1>3 DEF Copied
    <3> HIDE DEF w
    <3> QED
      BY <3>1, <3>2
  <2>3. ~partnerUser => \A m \in copy.passed : m <= level \/ (pc \in {"green", "completed"} /\ m = n)
    BY <1>2, <1>3
  <2>4. reviewed \subseteq reviewed' /\ (pc \in {"green", "completed"} => n \in reviewed')
    BY <1>3
  <2>5. ~partnerUser => CopyFits(v)'
    BY <1>1, <1>3, <2>1, <2>3, <2>4 DEF CopyFits
  <2> QED
    BY <1>3, <1>10, <2>1, <2>4, <2>5, KycMoves
<1>4. CASE InitiateSumsubLevel(k, n)
  <2> DEFINE copy == [sumsub EXCEPT !.begun = @ \cup {n}]
  <2>1. copy \in Progress /\ copy.passed = sumsub.passed
    BY <1>2 DEF Progress
  <2>2. Copied(k, "save", n, copy) /\ reviewed' = reviewed
    BY <1>4 DEF InitiateSumsubLevel
  <2> QED
    BY <1>2, <1>3, <2>1, <2>2
<1>5. CASE SumsubRed(k, n)
  <2> DEFINE copy == [sumsub EXCEPT !.begun = @ \ {n}, !.passed = @ \ {n}]
  <2>1. copy \in Progress /\ copy.passed \subseteq sumsub.passed
    BY <1>2 DEF Progress
  <2>2. Copied(k, "save", n, copy) /\ reviewed' = reviewed
    BY <1>5 DEF SumsubRed
  <2> QED
    BY <1>2, <1>3, <2>1, <2>2
<1>6. CASE DojaPending(k, n)
  <2> DEFINE copy == [doja EXCEPT !.begun = @ \cup {n}]
  <2>1. copy \in Progress /\ copy.passed = doja.passed
    BY <1>2 DEF Progress
  <2>2. Copied(k, "doja", n, copy) /\ reviewed' = reviewed
    BY <1>6 DEF DojaPending
  <2> QED
    BY <1>2, <1>3, <2>1, <2>2
<1>7. CASE DojaFailed(k, n)
  <2> DEFINE copy == [doja EXCEPT !.begun = @ \ {n}, !.passed = @ \ {n}]
  <2>1. copy \in Progress /\ copy.passed \subseteq doja.passed
    BY <1>2 DEF Progress
  <2>2. Copied(k, "doja", n, copy) /\ reviewed' = reviewed
    BY <1>7 DEF DojaFailed
  <2> QED
    BY <1>2, <1>3, <2>1, <2>2
<1>8. CASE DojaCompleted(k, n)
  <2> DEFINE copy == [doja EXCEPT !.begun = @ \cup {n}, !.passed = @ \cup {n}]
             pc == IF n \in doja.passed THEN "doja" ELSE "completed"
  <2>1. copy \in Progress /\ copy.passed = doja.passed \cup {n}
    BY <1>2 DEF Progress
  <2>2. Copied(k, pc, n, copy) /\ reviewed' = reviewed \cup {n}
    BY <1>8 DEF DojaCompleted
  <2>3. reviewed' \subseteq Levels
    BY <1>2, <2>2
  <2>4. CASE n \in doja.passed
    <3>1. Copied(k, "doja", n, copy) /\ copy.passed \subseteq doja.passed
      BY <2>1, <2>2, <2>4
    <3> HIDE DEF copy
    <3> QED
      BY <1>3, <2>1, <2>2, <2>3, <3>1
  <2>5. CASE n \notin doja.passed
    <3>1. Copied(k, "completed", n, copy)
      BY <2>2, <2>5
    <3> HIDE DEF copy
    <3> QED
      BY <1>3, <2>1, <2>2, <2>3, <3>1
  <2> QED
    BY <2>4, <2>5
<1>9. CASE SumsubGreen(k, n)
  <2> DEFINE copy == [sumsub EXCEPT !.passed = @ \cup {n}]
  <2>1. copy \in Progress /\ copy.passed = sumsub.passed \cup {n}
    BY <1>2 DEF Progress
  <2>2. CASE MayTouch(sumsub, n)
    <3>1. Copied(k, "green", n, copy) /\ reviewed' = reviewed \cup {n}
      BY <1>9, <2>2 DEF SumsubGreen
    <3>2. reviewed' \subseteq Levels
      BY <1>2, <3>1
    <3> HIDE DEF copy
    <3> QED
      BY <1>3, <2>1, <3>1, <3>2
  <2>3. CASE ~MayTouch(sumsub, n)
    <3>1. kycCall' = [kycCall EXCEPT ![k] = Served] /\ reviewed' = reviewed
      BY <1>9, <2>3 DEF SumsubGreen, ServedNow
    <3>2. Served \in Copies => CopyFits(Served)'
      BY CallKinds
    <3> QED
      BY <1>2, <1>10, <3>1, <3>2, KycMoves
  <2> QED
    BY <2>2, <2>3
<1> QED
  BY <1>4, <1>5, <1>6, <1>7, <1>8, <1>9

\* What writes a copy back: the level is raised with what it shows as passed.
LEMMA KycWrites ==
  ASSUME KycInv, NEW k \in KycCalls, SaveSumsub(k) \/ CommitGreen(k) \/ CommitDoja(k)
  PROVE  KycInv'
<1> DEFINE c == kycCall[k]
<1>1. UNCHANGED <<partnerUser, reviewed>>
  BY DEF SaveSumsub, CommitGreen, CommitDoja
<1>2. /\ sumsub \in Progress /\ doja \in Progress /\ level \in Levels \cup {0} /\ reviewed \subseteq Levels
      /\ sumsub.passed \subseteq Levels /\ doja.passed \subseteq Levels /\ level \in Nat
      /\ ~partnerUser => /\ level = 0 \/ level \in reviewed
                         /\ \A m \in sumsub.passed \cup doja.passed : m <= level
      /\ ~partnerUser => CopyFits(c) /\ c \in {Unseen, Served} \cup Copies
  BY KycFacts
<1>3. c \in Copies /\ c.copy \in Progress /\ c.level \in Levels /\ c.copy.passed \subseteq Levels
  <2>1. c \in {Unseen, Served} \cup Copies
    BY KycFacts
  <2>2. c.pc \in {"save", "green", "doja", "completed"}
    BY DEF SaveSumsub, CommitGreen, CommitDoja
  <2>3. c \in Copies
    BY <2>1, <2>2, CallKinds
  <2> QED
    BY <2>3 DEF Copies, Progress
<1>4. Written(c.copy) \in Progress /\ Written(c.copy).passed = c.copy.passed
  BY <1>3 DEF Written, Progress
<1>5. ASSUME NEW top \in {level, c.level}, level <= top, level' = top,
             top = c.level /\ level # c.level => c.pc \in {"green", "completed"},
             \/ UNCHANGED <<sumsub, doja>>
             \/ /\ (sumsub' = Written(c.copy) /\ doja' = doja) \/ (sumsub' = sumsub /\ doja' = Written(c.copy))
                /\ \A m \in c.copy.passed : ~partnerUser => m <= top,
             NEW v \in {Served} \cup Copies, kycCall' = [kycCall EXCEPT ![k] = v], v \in Copies => v.pc = "onboard"
      PROVE  KycInv'
  <2>1. sumsub' \in Progress /\ doja' \in Progress /\ level' \in Levels \cup {0}
    BY <1>2, <1>3, <1>4, <1>5
  <2>2. ~partnerUser => level' = 0 \/ level' \in reviewed'
    BY <1>1, <1>2, <1>5 DEF CopyFits
  <2>3. ~partnerUser => \A m \in sumsub'.passed \cup doja'.passed : m <= level'
    <3>1. level \in Nat /\ level' \in Nat /\ level <= level'
      BY <1>2, <1>3, <1>5, LevelFacts
    <3>2. ~partnerUser => \A m \in sumsub.passed \cup doja.passed : m <= level'
      <4>1. \A m \in sumsub.passed \cup doja.passed : m \in Nat
        BY <1>2, LevelFacts
      <4> QED
        BY <1>2, <3>1, <4>1
    <3>3. \/ UNCHANGED <<sumsub, doja>>
          \/ /\ (sumsub' = Written(c.copy) /\ doja' = doja) \/ (sumsub' = sumsub /\ doja' = Written(c.copy))
             /\ ~partnerUser => \A m \in Written(c.copy).passed : m <= level'
      BY <1>4, <1>5
    <3> QED
      BY <1>5, <3>2, <3>3
  <2>4. v \in Copies => CopyFits(v)'
    BY <1>5 DEF CopyFits
  <2>5. reviewed \subseteq reviewed' /\ reviewed' \subseteq Levels /\ UNCHANGED partnerUser /\ level <= level'
    BY <1>1, <1>2, <1>5
  <2> QED
    BY <1>5, <2>1, <2>2, <2>3, <2>4, <2>5, KycMoves
<1>6. CASE SaveSumsub(k)
  <2>1. /\ c.pc = "save" /\ kycCall' = [kycCall EXCEPT ![k] = Served] /\ level' = level /\ doja' = doja
        /\ sumsub' = sumsub \/ sumsub' = Written(c.copy)
    BY <1>6 DEF SaveSumsub, ServedNow
  <2>2. \A m \in c.copy.passed : ~partnerUser => m <= level
    BY <1>2, <2>1 DEF CopyFits
  <2>3. Served \in Copies => Served.pc = "onboard"
    BY CallKinds
  <2>4. level <= level
    BY <1>2
  <2> HIDE DEF c
  <2> QED
    BY <1>5, <2>1, <2>2, <2>3, <2>4
<1>7. CASE CommitGreen(k)
  <2> DEFINE top == IF level < c.level THEN c.level ELSE level
  <2>1. /\ c.pc = "green" /\ kycCall' = [kycCall EXCEPT ![k] = Served] /\ doja' = doja
        /\ \/ sumsub' = Written(c.copy) /\ level' = top
           \/ sumsub' = sumsub /\ level' = level /\ ~Saves(sumsub, c.copy)
    BY <1>7 DEF CommitGreen, ServedNow, RaiseLevel
  <2>2. c.level \in Nat /\ \A m \in c.copy.passed : m \in Nat
    BY <1>3, LevelFacts
  <2>3. Served \in Copies => Served.pc = "onboard"
    BY CallKinds
  <2>4. top \in {level, c.level} /\ level <= top /\ level <= level
    BY <1>2, <2>2
  <2>5. \A m \in c.copy.passed : ~partnerUser => m <= top
    <3>1. ~partnerUser => \A m \in c.copy.passed : m <= level \/ m = c.level
      BY <1>2, <2>1 DEF CopyFits
    <3> HIDE DEF c
    <3> QED
      BY <1>2, <2>2, <3>1
  <2>6. CASE sumsub' = Written(c.copy) /\ level' = top
    <3> HIDE DEF top, c
    <3> QED
      BY <1>5, <2>1, <2>3, <2>4, <2>5, <2>6
  <2>7. CASE sumsub' = sumsub /\ level' = level
    <3> HIDE DEF top, c
    <3> QED
      BY <1>5, <2>1, <2>3, <2>4, <2>7
  <2> QED
    BY <2>1, <2>6, <2>7
<1>8. CASE CommitDoja(k)
  <2> DEFINE top == IF c.pc = "completed" /\ level < c.level THEN c.level ELSE level
  <2>1. /\ c.pc \in {"doja", "completed"} /\ sumsub' = sumsub
        /\ \/ doja' = Written(c.copy) /\ level' = top
           \/ doja' = doja /\ level' = level
    BY <1>8 DEF CommitDoja, RaiseLevel
  <2>2. c.level \in Nat /\ \A m \in c.copy.passed : m \in Nat
    BY <1>3, LevelFacts
  <2>3. PICK v \in {Served} \cup Copies : kycCall' = [kycCall EXCEPT ![k] = v] /\ (v \in Copies => v.pc = "onboard")
    <3>1. [c EXCEPT !.pc = "onboard"] \in Copies /\ [c EXCEPT !.pc = "onboard"].pc = "onboard"
      BY <1>3 DEF Copies
    <3>2. Served \notin Copies
      BY CallKinds
    <3>3. kycCall' = [kycCall EXCEPT ![k] = [c EXCEPT !.pc = "onboard"]] \/ kycCall' = [kycCall EXCEPT ![k] = Served]
      BY <1>8 DEF CommitDoja
    <3> HIDE DEF c
    <3> QED
      BY <3>1, <3>2, <3>3
  <2>4. /\ top \in {level, c.level} /\ level <= top /\ level <= level
        /\ top = c.level /\ level # c.level => c.pc \in {"green", "completed"}
    BY <1>2, <2>2
  <2>5. \A m \in c.copy.passed : ~partnerUser => m <= top
    <3>1. CASE c.pc = "completed"
      <4>1. ~partnerUser => \A m \in c.copy.passed : m <= level \/ m = c.level
        BY <1>2, <3>1 DEF CopyFits
      <4>2. top = IF level < c.level THEN c.level ELSE level
        BY <3>1
      <4> HIDE DEF c, top
      <4> QED
        BY <1>2, <2>2, <4>1, <4>2
    <3>2. CASE c.pc = "doja"
      <4>1. ~partnerUser => \A m \in c.copy.passed : m <= level
        BY <1>2, <3>2 DEF CopyFits
      <4>2. top = level
        BY <3>2
      <4> QED
        BY <4>1, <4>2
    <3> QED
      BY <2>1, <3>1, <3>2
  <2>6. CASE doja' = Written(c.copy) /\ level' = top
    <3> HIDE DEF top, c
    <3> QED
      BY <1>5, <2>1, <2>3, <2>4, <2>5, <2>6
  <2>7. CASE doja' = doja /\ level' = level
    <3> HIDE DEF top, c
    <3> QED
      BY <1>5, <2>1, <2>3, <2>4, <2>7
  <2> QED
    BY <2>1, <2>6, <2>7
<1> QED
  BY <1>6, <1>7, <1>8

\* A partner's word, the end of a request, and the onboarding that it starts.
LEMMA KycRest ==
  ASSUME KycInv,
         \/ \E n \in Levels \cup {0} : UpdateKYCStatus(n)
         \/ \E k \in KycCalls : OnBVNVerified(k) \/ FailKycCall(k)
         \/ UNCHANGED kycOwn
  PROVE  KycInv'
<1>1. CASE UNCHANGED kycOwn
  BY <1>1 DEF kycOwn, KycInv, KycTypeOK, LevelIsEarned, CopyFits
<1>2. ASSUME NEW n \in Levels \cup {0}, UpdateKYCStatus(n) PROVE KycInv'
  <2>1. /\ partnerUser /\ partnerUser' = partnerUser /\ level' = n /\ UNCHANGED <<sumsub, doja, reviewed, kycCall>>
    BY <1>2 DEF UpdateKYCStatus
  <2>2. KycTypeOK'
    BY <2>1 DEF KycInv, KycTypeOK
  <2> QED
    BY <2>1, <2>2 DEF KycInv, LevelIsEarned
<1>3. ASSUME NEW k \in KycCalls, OnBVNVerified(k) \/ FailKycCall(k) PROVE KycInv'
  <2>1. /\ kycCall' = [kycCall EXCEPT ![k] = Served] /\ UNCHANGED <<partnerUser, sumsub, doja, level, reviewed>>
    BY <1>3 DEF OnBVNVerified, FailKycCall, ServedNow
  <2>2. /\ sumsub \in Progress /\ doja \in Progress /\ level \in Levels \cup {0} /\ reviewed \subseteq Levels
        /\ level \in Nat
        /\ ~partnerUser => /\ level = 0 \/ level \in reviewed
                           /\ \A m \in sumsub.passed \cup doja.passed : m <= level
    BY KycFacts
  <2>3. Served \in Copies => CopyFits(Served)'
    BY CallKinds
  <2>4. /\ sumsub' \in Progress /\ doja' \in Progress /\ level' \in Levels \cup {0}
        /\ reviewed \subseteq reviewed' /\ reviewed' \subseteq Levels /\ UNCHANGED partnerUser
        /\ ~partnerUser => /\ level <= level' /\ (level' = 0 \/ level' \in reviewed')
                           /\ \A m \in sumsub'.passed \cup doja'.passed : m <= level'
    BY <2>1, <2>2
  <2> QED
    BY <2>1, <2>3, <2>4, KycMoves
<1> QED
  BY <1>1, <1>2, <1>3

KycRailInv == RailInv /\ KycInv

LEMMA KycRailStep == KycRailInv /\ [KycNext]_kycVars => KycRailInv'
<1> SUFFICES ASSUME KycRailInv, [KycNext]_kycVars PROVE KycRailInv'
  OBVIOUS
<1>1. RailInv /\ KycInv
  BY DEF KycRailInv
<1>2. KycInv'
  <2>1. CASE \E k \in KycCalls : SaveSumsub(k) \/ CommitGreen(k) \/ CommitDoja(k)
    BY <1>1, <2>1, KycWrites
  <2>2. CASE \E k \in KycCalls : \E n \in Levels :
               \/ InitiateSumsubLevel(k, n) \/ SumsubGreen(k, n) \/ SumsubRed(k, n)
               \/ DojaPending(k, n) \/ DojaFailed(k, n) \/ DojaCompleted(k, n)
    BY <1>1, <2>2, KycReads
  <2>3. CASE \/ \E n \in Levels \cup {0} : UpdateKYCStatus(n)
             \/ \E k \in KycCalls : OnBVNVerified(k) \/ FailKycCall(k)
             \/ UNCHANGED kycOwn
    BY <1>1, <2>3, KycRest
  <2> QED
    BY <2>1, <2>2, <2>3 DEF KycNext, kycVars
<1>3. RailInv'
  <2>1. CASE UNCHANGED railVars
    BY <1>1, <2>1, RailInvSame
  <2>2. CASE RailNext
    BY <1>1, <2>2, RailInvStep
  <2>3. CASE \E k \in KycCalls : OnBVNVerified(k)
    <3>1. UNCHANGED railVars \/ \E b \in Boardings : InitiateOnboarding(b)
      BY <2>3 DEF OnBVNVerified
    <3> QED
      BY <1>1, <2>1, <3>1, BoardingStep
  <2>4. CASE \E k \in KycCalls : FailKycCall(k)
    <3>1. UNCHANGED <<boarding, railUser, onramp, rampRequest, withdrawal, asked, sweep>> /\ RailFault
      BY <2>4 DEF FailKycCall, rampVars
    <3>2. railFaults' \in 0..MaxRailFaults
      BY <1>1, <3>1, RailAssumption DEF RailFault, RailInv, RailTypeOK
    <3> QED
      BY <1>1, <3>1, <3>2 DEF RailInv, RailTypeOK, BoardingInv, RampInv, SweepInv
  <2>5. CASE \/ \E k \in KycCalls :
                  \/ SaveSumsub(k) \/ CommitGreen(k) \/ CommitDoja(k)
                  \/ \E n \in Levels : \/ InitiateSumsubLevel(k, n) \/ SumsubGreen(k, n) \/ SumsubRed(k, n)
                                       \/ DojaPending(k, n) \/ DojaFailed(k, n) \/ DojaCompleted(k, n)
             \/ \E n \in Levels \cup {0} : UpdateKYCStatus(n)
             \/ UNCHANGED kycVars
    <3>1. UNCHANGED railVars
      BY <2>5 DEF SaveSumsub, CommitGreen, CommitDoja, InitiateSumsubLevel, SumsubGreen, SumsubRed, DojaPending,
                  DojaFailed, DojaCompleted, UpdateKYCStatus, kycVars
    <3> QED
      BY <2>1, <3>1
  <2> QED
    BY <2>2, <2>3, <2>4, <2>5 DEF KycNext
<1> QED
  BY <1>2, <1>3 DEF KycRailInv

-----------------------------------------------------------------------------
(* Patron.  The log keeps what was quoted, and what is chosen from it is   *)
(* due on the day of the choice; days only pass.                           *)
Proper(e) == /\ e.grade \in Grades /\ e.from \in 0..(MaxDay + 2)
             /\ e = [grade |-> e.grade, from |-> e.from, till |-> TierValidTill(e.from, e.grade[2])]

Due(e) == e = NoEntry \/ (e \in patronLog /\ e.from <= day)

PatronInv ==
  /\ day \in 0..MaxDay /\ \A e \in patronLog : Proper(e)
  /\ Due(membership) /\ Due(promotion)
  /\ subscriber \in [PatronRequests -> [pc: {"asking", "instant", "deferred", "over"}, entry: {NoEntry} \cup Entry]]
  /\ \A c \in PatronRequests :
       /\ subscriber[c].pc \in {"instant", "deferred"} => Proper(subscriber[c].entry)
       /\ subscriber[c].pc = "instant" => subscriber[c].entry.from <= day

LEMMA ProperEntry == \A e : Proper(e) => e \in Entry /\ TierValidTill(e.from, e.grade[2]) \in 0..(Forever + 12)
<1> SUFFICES ASSUME NEW e, Proper(e)
             PROVE  e \in Entry /\ TierValidTill(e.from, e.grade[2]) \in 0..(Forever + 12)
  OBVIOUS
<1>1. /\ MaxDay \in Nat /\ e.grade \in Grades /\ e.from \in 0..(MaxDay + 2)
      /\ e.grade[2] \in {"MONTHLY", "ANNUAL", "LIFETIME"}
  BY PatronAssumption DEF Proper
<1>2. TierValidTill(e.from, e.grade[2]) \in 0..(Forever + 12)
  BY <1>1 DEF TierValidTill, Forever
<1>3. e.from \in Days
  BY <1>1 DEF Days, Forever
<1> DEFINE till == TierValidTill(e.from, e.grade[2])
<1>4. e = [grade |-> e.grade, from |-> e.from, till |-> till]
  BY DEF Proper
<1> HIDE DEF till
<1>5. e \in Entry
  BY <1>1, <1>2, <1>3, <1>4 DEF Entry, till
<1> QED
  BY <1>2, <1>5

LEMMA PatronInvInit == PatronInit => PatronInv
<1> SUFFICES ASSUME PatronInit PROVE PatronInv
  OBVIOUS
<1>1. Asking \in [pc: {"asking", "instant", "deferred", "over"}, entry: {NoEntry} \cup Entry] /\ Asking.pc = "asking"
  BY DEF Asking
<1>2. day \in 0..MaxDay
  BY PatronAssumption DEF PatronInit
<1> QED
  BY <1>1, <1>2 DEF PatronInit, PatronInv, Due

\* A quote holds for a grade on offer, from a day close enough.
LEMMA QuoteIsProper ==
  ASSUME PatronInv, NEW grade \in Grades
  PROVE  /\ EffectiveFrom \in 0..(MaxDay + 2) /\ Proper(Quoted(grade))
         /\ Quoted(grade).from = EffectiveFrom /\ Quoted(grade) \in Entry
<1>1. day \in 0..MaxDay /\ MaxDay \in Nat /\ Due(membership)
  BY PatronAssumption DEF PatronInv
<1>2. EffectiveFrom \in 0..(MaxDay + 2)
  <2>1. CASE membership = NoEntry \/ membership.till <= day \/ Tier(membership.grade) \in {"ANNUAL", "LIFETIME"}
    BY <1>1, <2>1 DEF EffectiveFrom
  <2>2. CASE ~(membership = NoEntry \/ membership.till <= day \/ Tier(membership.grade) \in {"ANNUAL", "LIFETIME"})
    <3>1. membership \in patronLog /\ membership.from <= day /\ Proper(membership)
      BY <1>1, <2>2 DEF Due, PatronInv
    <3>2. membership.from \in Nat /\ membership.grade[2] = "MONTHLY"
      BY <1>1, <2>2, <3>1, PatronAssumption DEF Proper, Tier
    <3>3. membership.till = membership.from + 1
      <4>1. TierValidTill(membership.from, membership.grade[2]) = membership.from + 1
        BY <3>2 DEF TierValidTill
      <4>2. membership.till = TierValidTill(membership.from, membership.grade[2])
        <5> DEFINE till == TierValidTill(membership.from, membership.grade[2])
        <5>1. membership = [grade |-> membership.grade, from |-> membership.from, till |-> till]
          BY <3>1 DEF Proper
        <5> HIDE DEF till
        <5>2. membership.till = till
          BY <5>1
        <5> QED
          BY <5>2 DEF till
      <4> QED
        BY <4>1, <4>2
    <3>4. EffectiveFrom = membership.till + 1
      BY <2>2 DEF EffectiveFrom
    <3> QED
      BY <1>1, <3>1, <3>2, <3>3, <3>4
  <2> QED
    BY <2>1, <2>2
<1>3. Quoted(grade).grade = grade /\ Quoted(grade).from = EffectiveFrom
      /\ Quoted(grade).till = TierValidTill(EffectiveFrom, grade[2])
  BY DEF Quoted, Tier
<1>4. Proper(Quoted(grade))
  <2>1. Quoted(grade) = [grade |-> grade, from |-> EffectiveFrom, till |-> TierValidTill(EffectiveFrom, grade[2])]
    BY DEF Quoted, Tier
  <2> QED
    BY <1>2, <1>3, <2>1 DEF Proper
<1> QED
  BY <1>2, <1>3, <1>4, ProperEntry

LEMMA PatronInvStep == PatronInv /\ [PatronNext]_patronVars => PatronInv'
<1> SUFFICES ASSUME PatronInv, [PatronNext]_patronVars PROVE PatronInv'
  OBVIOUS
<1> DEFINE Asks == [pc: {"asking", "instant", "deferred", "over"}, entry: {NoEntry} \cup Entry]
<1>1. /\ day \in 0..MaxDay /\ (\A e \in patronLog : Proper(e)) /\ MaxDay \in Nat
      /\ Due(membership) /\ Due(promotion) /\ subscriber \in [PatronRequests -> Asks]
      /\ \A c \in PatronRequests :
           /\ subscriber[c].pc \in {"instant", "deferred"} => Proper(subscriber[c].entry)
           /\ subscriber[c].pc = "instant" => subscriber[c].entry.from <= day
  BY PatronAssumption DEF PatronInv
<1>2. CASE UNCHANGED patronVars
  BY <1>2 DEF patronVars, PatronInv, Due
<1>3. ASSUME NEW c \in PatronRequests, NEW g \in Grades, QuoteSubscription(c, g) PROVE PatronInv'
  <2> DEFINE pc == IF EffectiveFrom = day THEN "instant" ELSE "deferred"
  <2>1. /\ subscriber' = [subscriber EXCEPT ![c] = [pc |-> pc, entry |-> Quoted(g)]]
        /\ UNCHANGED <<membership, patronLog, promotion, day>>
    BY <1>3 DEF QuoteSubscription
  <2>2. Proper(Quoted(g)) /\ Quoted(g).from = EffectiveFrom /\ Quoted(g) \in Entry
    BY QuoteIsProper
  <2>3. PICK quote \in Entry : quote = Quoted(g) /\ Proper(quote) /\ quote.from = EffectiveFrom
    BY <2>2
  <2>4. pc \in {"instant", "deferred"} /\ (pc = "instant" => quote.from <= day)
    BY <1>1, <2>3
  <2> HIDE DEF pc
  <2>5. /\ subscriber' \in [PatronRequests -> Asks] /\ subscriber'[c].pc = pc /\ subscriber'[c].entry = quote
        /\ \A e \in PatronRequests : e # c => subscriber'[e] = subscriber[e]
    BY <1>1, <2>1, <2>3, <2>4
  <2>6. \A e \in PatronRequests :
           /\ subscriber'[e].pc \in {"instant", "deferred"} => Proper(subscriber'[e].entry)
           /\ subscriber'[e].pc = "instant" => subscriber'[e].entry.from <= day'
    BY <1>1, <2>1, <2>3, <2>4, <2>5
  <2>7. Due(membership)' /\ Due(promotion)'
    BY <1>1, <2>1 DEF Due
  <2> QED
    BY <1>1, <2>1, <2>5, <2>6, <2>7 DEF PatronInv
<1>4. ASSUME NEW c \in PatronRequests, RecordSubscription(c) PROVE PatronInv'
  <2> DEFINE q == subscriber[c]
             ended == [Asking EXCEPT !.pc = "over"]
  <2>1. /\ q.pc \in {"instant", "deferred"} /\ subscriber' = [subscriber EXCEPT ![c] = ended]
        /\ patronLog' = patronLog \cup {q.entry} /\ membership' = (IF q.pc = "instant" THEN q.entry ELSE membership)
        /\ UNCHANGED <<promotion, day>>
    BY <1>4 DEF RecordSubscription
  <2>2. ended \in Asks /\ ended.pc = "over"
    BY DEF Asking
  <2>3. Proper(q.entry) /\ (q.pc = "instant" => q.entry.from <= day)
    BY <1>1, <2>1
  <2> HIDE DEF ended
  <2>4. /\ subscriber' \in [PatronRequests -> Asks] /\ subscriber'[c].pc = "over"
        /\ \A e \in PatronRequests : e # c => subscriber'[e] = subscriber[e]
    BY <1>1, <2>1, <2>2
  <2>5. \A e \in patronLog' : Proper(e)
    BY <1>1, <2>1, <2>3
  <2>6. Due(membership)' /\ Due(promotion)'
    BY <1>1, <2>1, <2>3 DEF Due
  <2>7. \A e \in PatronRequests :
           /\ subscriber'[e].pc \in {"instant", "deferred"} => Proper(subscriber'[e].entry)
           /\ subscriber'[e].pc = "instant" => subscriber'[e].entry.from <= day'
    BY <1>1, <2>1, <2>4
  <2> QED
    BY <1>1, <2>1, <2>4, <2>5, <2>6, <2>7 DEF PatronInv
<1>5. CASE PromotePendingMemberships
  <2>1. UNCHANGED <<membership, patronLog, subscriber, day>> /\ promotion' \in patronLog /\ promotion'.from <= day
    BY <1>5 DEF PromotePendingMemberships
  <2>2. Due(membership)' /\ Due(promotion)'
    BY <1>1, <2>1 DEF Due
  <2> QED
    BY <1>1, <2>1, <2>2 DEF PatronInv
<1>6. CASE SavePromotion
  <2>1. UNCHANGED <<patronLog, subscriber, day>> /\ membership' = promotion /\ promotion' = NoEntry
    BY <1>6 DEF SavePromotion
  <2>2. Due(membership)' /\ Due(promotion)'
    BY <1>1, <2>1 DEF Due
  <2> QED
    BY <1>1, <2>1, <2>2 DEF PatronInv
<1>7. CASE NextDay
  <2>1. UNCHANGED <<membership, patronLog, subscriber, promotion>> /\ day' = day + 1 /\ day' \in 0..MaxDay
    BY <1>1, <1>7 DEF NextDay
  <2>2. \A e : Proper(e) => (e.from <= day => e.from <= day')
    BY <1>1, <2>1 DEF Proper
  <2>3. Due(membership)' /\ Due(promotion)'
    BY <1>1, <2>1, <2>2 DEF Due
  <2>4. \A c \in PatronRequests : subscriber'[c].pc = "instant" => subscriber'[c].entry.from <= day'
    BY <1>1, <2>1, <2>2
  <2> QED
    BY <1>1, <2>1, <2>3, <2>4 DEF PatronInv
<1> QED
  BY <1>2, <1>3, <1>4, <1>5, <1>6, <1>7 DEF PatronNext

LEMMA PatronInvImplies == PatronInv => PatronTypeOK /\ MembershipIsDue
<1> SUFFICES ASSUME PatronInv PROVE PatronTypeOK /\ MembershipIsDue
  OBVIOUS
<1>1. \A e \in patronLog : e \in Entry
  BY ProperEntry DEF PatronInv
<1>2. PatronTypeOK
  BY <1>1 DEF PatronInv, PatronTypeOK, Due
<1>3. MembershipIsDue
  BY DEF PatronInv, MembershipIsDue, Due
<1> QED
  BY <1>2, <1>3

-----------------------------------------------------------------------------
(* The watcher.  A block that the cursor has passed since a callback was   *)
(* registered is one the poll has seen, and a cached answer always has a   *)
(* reader about to register, a callback, or one that is being run.         *)
WatcherInv ==
  /\ WatcherTypeOK /\ cached <= epoch /\ touching \subseteq 1..head
  /\ cursor <= head + 1 /\ poll.latest <= head
  /\ cursor = 0 => \A c \in callbacks : ~c.seeded
  /\ CachedIsWatched /\ NoEventSkipped

LEMMA WatcherInvInit == WatcherInit => WatcherInv
<1> SUFFICES ASSUME WatcherInit PROVE WatcherInv
  OBVIOUS
<1>1. WatcherTypeOK
  BY WatcherAssumption DEF WatcherInit, WatcherTypeOK, NoPoll
<1>2. CachedIsWatched /\ NoEventSkipped
  BY DEF WatcherInit, CachedIsWatched, NoEventSkipped
<1> QED
  BY <1>1, <1>2 DEF WatcherInit, WatcherInv, NoPoll

LEMMA WatcherInvStep == WatcherInv /\ [WatcherNext]_watcherVars => WatcherInv'
<1> SUFFICES ASSUME WatcherInv, [WatcherNext]_watcherVars PROVE WatcherInv'
  OBVIOUS
<1>1. /\ MaxHead \in Nat \ {0} /\ Epochs \subseteq Nat \ {0}
      /\ cached \in {0} \cup Epochs /\ epoch \in Epochs /\ fired \in 0..1
      /\ callbacks \subseteq [head: 1..MaxHead, seeded: BOOLEAN]
      /\ cursor \in 0..(MaxHead + 1) /\ head \in 1..MaxHead /\ touching \subseteq 1..MaxHead
      /\ poll \in [pc: {"none", "logs", "fire", "run"}, latest: 0..MaxHead, touched: BOOLEAN]
      /\ reader \in [Readers -> {"new", "set", "watch", "over"}]
  BY WatcherAssumption DEF WatcherInv, WatcherTypeOK
<1>2. /\ cached <= epoch /\ touching \subseteq 1..head /\ cursor <= head + 1 /\ poll.latest <= head
      /\ cursor = 0 => \A c \in callbacks : ~c.seeded
      /\ CachedIsWatched /\ NoEventSkipped
  BY DEF WatcherInv
<1>3. CASE UNCHANGED watcherVars
  BY <1>1, <1>2, <1>3 DEF watcherVars, WatcherInv, WatcherTypeOK, CachedIsWatched, NoEventSkipped
<1>4. ASSUME NEW r \in Readers, GetUser(r) PROVE WatcherInv'
  <2>1. /\ UNCHANGED <<cached, epoch, callbacks, fired, cursor, poll, head, touching>>
        /\ reader[r] = "new" /\ \E to \in {"over", "set"} : reader' = [reader EXCEPT ![r] = to]
    BY <1>4 DEF GetUser, ReaderGoes
  <2>2. /\ reader' \in [Readers -> {"new", "set", "watch", "over"}]
        /\ \A q \in Readers : reader[q] = "watch" => reader'[q] = "watch"
    BY <1>1, <2>1
  <2>3. WatcherTypeOK' /\ NoEventSkipped'
    BY <1>1, <1>2, <2>1, <2>2 DEF WatcherTypeOK, NoEventSkipped
  <2>4. CachedIsWatched'
    BY <1>2, <2>1, <2>2 DEF CachedIsWatched
  <2> QED
    BY <1>2, <2>1, <2>3, <2>4 DEF WatcherInv
<1>5. ASSUME NEW r \in Readers, CacheAnswer(r) PROVE WatcherInv'
  <2>1. /\ UNCHANGED <<epoch, callbacks, fired, cursor, poll, head, touching>> /\ cached' = epoch
        /\ reader' = [reader EXCEPT ![r] = "watch"]
    BY <1>5 DEF CacheAnswer, ReaderGoes
  <2>2. reader' \in [Readers -> {"new", "set", "watch", "over"}] /\ reader'[r] = "watch"
    BY <1>1, <2>1
  <2>3. WatcherTypeOK' /\ NoEventSkipped' /\ cached' <= epoch'
    BY <1>1, <1>2, <2>1, <2>2 DEF WatcherTypeOK, NoEventSkipped
  <2>4. CachedIsWatched'
    BY <2>2 DEF CachedIsWatched
  <2> QED
    BY <1>2, <2>1, <2>3, <2>4 DEF WatcherInv
<1>6. ASSUME NEW r \in Readers, Watch(r) PROVE WatcherInv'
  <2> DEFINE new == [head |-> head, seeded |-> cursor # 0]
  <2>1. /\ UNCHANGED <<cached, epoch, fired, cursor, poll, head, touching>>
        /\ callbacks' = callbacks \cup {new} /\ reader' = [reader EXCEPT ![r] = "over"]
    BY <1>6 DEF Watch, ReaderGoes
  <2>2. new \in [head: 1..MaxHead, seeded: BOOLEAN] /\ new.head = head /\ (cursor = 0 => ~new.seeded)
    BY <1>1
  <2> HIDE DEF new
  <2>3. reader' \in [Readers -> {"new", "set", "watch", "over"}]
    BY <1>1, <2>1
  <2>4. WatcherTypeOK' /\ CachedIsWatched'
    BY <1>1, <2>1, <2>2, <2>3 DEF WatcherTypeOK, CachedIsWatched
  <2>5. NoEventSkipped'
    <3>1. \A b \in touching : b <= head
      BY <1>1, <1>2
    <3>2. \A b \in touching : ~(new.head < b)
      BY <1>1, <2>2, <3>1
    <3> QED
      BY <1>2, <2>1, <3>2 DEF NoEventSkipped
  <2>6. cursor' = 0 => \A c \in callbacks' : ~c.seeded
    BY <1>2, <2>1, <2>2
  <2> QED
    BY <1>2, <2>1, <2>4, <2>5, <2>6 DEF WatcherInv
<1>7. CASE Expire
  <2>1. UNCHANGED <<epoch, callbacks, fired, cursor, poll, head, touching, reader>> /\ cached' = 0
    BY <1>7 DEF Expire
  <2>2. WatcherTypeOK' /\ CachedIsWatched' /\ NoEventSkipped' /\ cached' <= epoch'
    BY <1>1, <1>2, <2>1 DEF WatcherTypeOK, CachedIsWatched, NoEventSkipped
  <2> QED
    BY <1>2, <2>1, <2>2 DEF WatcherInv
<1>8. CASE PollHead
  <2>1. /\ UNCHANGED <<cached, epoch, callbacks, fired, head, touching, reader>> /\ poll = NoPoll
        /\ cursor' = IF cursor = 0 THEN head ELSE cursor
        /\ poll' \in {NoPoll, [pc |-> "logs", latest |-> head, touched |-> FALSE]}
    BY <1>8 DEF PollHead
  <2>2. /\ cursor' \in 0..(MaxHead + 1) /\ cursor' <= head + 1 /\ cursor' # 0
        /\ poll' \in [pc: {"none", "logs", "fire", "run"}, latest: 0..MaxHead, touched: BOOLEAN] /\ poll'.latest <= head
    <3>1. cursor' = head \/ (cursor # 0 /\ cursor' = cursor)
      BY <2>1
    <3>2. cursor' \in 0..(MaxHead + 1) /\ cursor' <= head + 1 /\ cursor' # 0
      BY <1>1, <1>2, <3>1
    <3>3. CASE poll' = NoPoll
      BY <1>1, <3>2, <3>3 DEF NoPoll
    <3>4. CASE poll' = [pc |-> "logs", latest |-> head, touched |-> FALSE]
      BY <1>1, <3>2, <3>4
    <3> QED
      BY <2>1, <3>3, <3>4
  <2>3. WatcherTypeOK' /\ CachedIsWatched'
    BY <1>1, <1>2, <2>1, <2>2 DEF WatcherTypeOK, CachedIsWatched
  <2>4. poll.pc = "none"
    BY <2>1 DEF NoPoll
  <2>5. NoEventSkipped'
    <3>1. CASE cursor = 0
      BY <1>2, <2>1, <3>1 DEF NoEventSkipped
    <3>2. CASE cursor # 0
      <4>1. cursor' = cursor /\ UNCHANGED <<callbacks, touching>>
        BY <2>1, <3>2
      <4>2. \A c \in callbacks : \A b \in touching : ~(c.seeded /\ c.head < b /\ b < cursor)
        BY <1>2, <2>4 DEF NoEventSkipped
      <4> QED
        BY <4>1, <4>2 DEF NoEventSkipped
    <3> QED
      BY <3>1, <3>2
  <2> QED
    BY <1>2, <2>1, <2>2, <2>3, <2>5 DEF WatcherInv
<1>9. CASE FilterLogs
  <2> DEFINE touched == \E b \in touching : b \in cursor..poll.latest
  <2>1. /\ UNCHANGED <<cached, epoch, callbacks, fired, head, touching, reader>> /\ poll.pc = "logs"
        /\ cursor' = poll.latest + 1 /\ poll' = [poll EXCEPT !.pc = "fire", !.touched = touched]
    BY <1>9 DEF FilterLogs
  <2>2. touched \in BOOLEAN
    OBVIOUS
  <2>3. \A b \in touching : b < cursor \/ ~(b < poll.latest + 1) \/ touched
    BY <1>1
  <2> HIDE DEF touched
  <2>4. /\ poll' \in [pc: {"none", "logs", "fire", "run"}, latest: 0..MaxHead, touched: BOOLEAN]
        /\ poll'.pc = "fire" /\ poll'.latest = poll.latest /\ (touched => poll'.touched)
    BY <1>1, <2>1, <2>2
  <2>5. cursor' \in 0..(MaxHead + 1) /\ cursor' <= head + 1 /\ cursor' # 0
    BY <1>1, <1>2, <2>1
  <2>6. WatcherTypeOK' /\ CachedIsWatched'
    BY <1>1, <1>2, <2>1, <2>4, <2>5 DEF WatcherTypeOK, CachedIsWatched
  <2>7. NoEventSkipped'
    <3>1. \A c \in callbacks : \A b \in touching : c.seeded /\ c.head < b => ~(b < cursor)
      BY <1>2, <2>1 DEF NoEventSkipped
    <3> QED
      BY <2>1, <2>3, <2>4, <3>1 DEF NoEventSkipped
  <2> QED
    BY <1>2, <2>1, <2>4, <2>5, <2>6, <2>7 DEF WatcherInv
<1>10. CASE FailFilterLogs
  <2>1. UNCHANGED <<cached, epoch, callbacks, fired, cursor, head, touching, reader>> /\ poll' = NoPoll /\ poll.pc = "logs"
    BY <1>10 DEF FailFilterLogs
  <2>2. WatcherTypeOK' /\ CachedIsWatched' /\ NoEventSkipped' /\ poll'.latest <= head
    BY <1>1, <1>2, <2>1 DEF WatcherTypeOK, CachedIsWatched, NoEventSkipped, NoPoll
  <2> QED
    BY <1>2, <2>1, <2>2 DEF WatcherInv
<1>11. CASE FireCallbacks
  <2>1. UNCHANGED <<cached, epoch, cursor, head, touching, reader>> /\ poll.pc = "fire"
    BY <1>11 DEF FireCallbacks
  <2>2. CASE poll.touched /\ callbacks # {}
    <3>1. callbacks' = {} /\ fired' = 1 /\ poll' = [poll EXCEPT !.pc = "run"]
      BY <1>11, <2>2 DEF FireCallbacks
    <3>2. WatcherTypeOK' /\ poll'.latest = poll.latest
      BY <1>1, <2>1, <3>1 DEF WatcherTypeOK
    <3>3. CachedIsWatched' /\ NoEventSkipped'
      BY <3>1 DEF CachedIsWatched, NoEventSkipped
    <3> QED
      BY <1>2, <2>1, <3>1, <3>2, <3>3 DEF WatcherInv
  <2>3. CASE ~(poll.touched /\ callbacks # {})
    <3>1. poll' = NoPoll /\ UNCHANGED <<callbacks, fired>>
      BY <1>11, <2>3 DEF FireCallbacks
    <3>2. WatcherTypeOK' /\ CachedIsWatched' /\ poll'.latest <= head
      BY <1>1, <1>2, <2>1, <3>1 DEF WatcherTypeOK, CachedIsWatched, NoPoll
    <3>3. NoEventSkipped'
      BY <1>2, <2>1, <2>3, <3>1 DEF NoEventSkipped
    <3> QED
      BY <1>2, <2>1, <3>1, <3>2, <3>3 DEF WatcherInv
  <2> QED
    BY <2>2, <2>3
<1>12. CASE RunCallback
  <2>1. /\ UNCHANGED <<epoch, callbacks, cursor, head, touching, reader>> /\ poll.pc = "run"
        /\ fired' = 0 /\ poll' = NoPoll /\ cached' = 0
    BY <1>12 DEF RunCallback
  <2>2. WatcherTypeOK' /\ CachedIsWatched' /\ poll'.latest <= head /\ cached' <= epoch'
    BY <1>1, <2>1 DEF WatcherTypeOK, CachedIsWatched, NoPoll
  <2>3. NoEventSkipped'
    BY <1>2, <2>1 DEF NoEventSkipped
  <2> QED
    BY <1>2, <2>1, <2>2, <2>3 DEF WatcherInv
<1>13. CASE Mine
  <2>1. /\ UNCHANGED <<cached, epoch, callbacks, fired, cursor, poll, reader>> /\ head < MaxHead
        /\ head' = head + 1 /\ touching' \subseteq touching \cup {head + 1}
    BY <1>13 DEF Mine
  <2>2. head' \in 1..MaxHead /\ touching' \subseteq 1..head' /\ touching' \subseteq 1..MaxHead
    BY <1>1, <1>2, <2>1
  <2>3. WatcherTypeOK' /\ CachedIsWatched'
    BY <1>1, <1>2, <2>1, <2>2 DEF WatcherTypeOK, CachedIsWatched
  <2>4. cursor' <= head' + 1 /\ poll'.latest <= head' /\ ~(head + 1 < cursor)
    BY <1>1, <1>2, <2>1
  <2>5. NoEventSkipped'
    BY <1>2, <2>1, <2>4 DEF NoEventSkipped
  <2> QED
    BY <1>2, <2>1, <2>2, <2>3, <2>4, <2>5 DEF WatcherInv
<1>14. CASE RestartWatcher
  <2>1. /\ epoch + 1 \in Epochs /\ epoch' = epoch + 1 /\ callbacks' = {} /\ fired' = 0 /\ cursor' = 0 /\ poll' = NoPoll
        /\ UNCHANGED <<cached, head, touching>>
        /\ reader' \in [Readers -> {"new", "set", "watch", "over"}]
    BY <1>14 DEF RestartWatcher
  <2>2. WatcherTypeOK' /\ cached' < epoch' /\ poll'.latest <= head
    BY <1>1, <1>2, <2>1 DEF WatcherTypeOK, NoPoll
  <2>3. CachedIsWatched' /\ NoEventSkipped'
    BY <1>1, <2>1, <2>2 DEF CachedIsWatched, NoEventSkipped
  <2> QED
    BY <1>1, <1>2, <2>1, <2>2, <2>3 DEF WatcherInv
<1> QED
  BY <1>3, <1>4, <1>5, <1>6, <1>7, <1>8, <1>9, <1>10, <1>11, <1>12, <1>13, <1>14 DEF WatcherNext

-----------------------------------------------------------------------------
(* ServiceLinks.  A call holds one approval or document while it works on  *)
(* it, and what it did is never taken back: an approval that was once      *)
(* saved stays so, whoever changes or deletes the row later.               *)
LinkPcs == {"new", "saveLink", "partner", "approve", "dispatch", "redeem", "saveDocument", "read", "erase",
            "unlist", "over"}
LinkDids == {"nothing", "admitted", "approved", "redeemed", "erased", "read"}
Standings == [verified: BOOLEAN, suspended: BOOLEAN, listed: BOOLEAN]
LinkCallRecords == [pc: LinkPcs, link: SUBSET Links, item: SUBSET (Approvals \cup Documents), copy: Standings,
                    attempts: 0..MaxAttempts, did: LinkDids]

LinkCallInv(x) ==
  /\ x.pc = "new" => x.did = "nothing"
  /\ x.pc # "over" => x.attempts < MaxAttempts
  /\ x.pc \in {"saveLink", "partner"} => x.did \in {"nothing", "admitted"} /\ \E l \in Links : x.link = {l}
  /\ x.pc \in {"approve", "dispatch", "redeem"} => \E a \in Approvals : x.item = {a}
  /\ x.pc \in {"saveDocument", "read", "erase", "unlist"} => \E d \in Documents : x.item = {d}
  /\ x.pc = "dispatch" => x.did = "approved"
  /\ x.did = "approved" => x.pc \in {"dispatch", "over"}
  /\ x.did = "erased" => x.pc \in {"unlist", "over"}
  /\ x.did = "redeemed" => x.pc = "over"

LinkCallsOK == call \in [LinkCalls -> LinkCallRecords] /\ \A c \in LinkCalls : LinkCallInv(call[c])

LinkRowsOK ==
  /\ serviceLink \in [Links -> Standings]
  /\ approvalRow \in [Approvals -> {"none", "requested", "authorized", "gone"}]
  /\ askedBy \in [Approvals -> SUBSET Links] /\ expired \subseteq Approvals /\ delivered \subseteq Approvals
  /\ documentRow \in [Documents -> SUBSET Links] /\ content \subseteq Documents
  /\ linkFaults \in 0..MaxLinkFaults

Approved(a) == \E c \in LinkCalls : call[c].did = "approved" /\ call[c].item = {a}
Erased(d)   == \E c \in LinkCalls : call[c].did = "erased" /\ call[c].item = {d}
Redeems(x, a)  == x.item = {a} /\ (x.pc = "redeem" \/ x.did = "redeemed")
Uploads(x, d)  == x.item = {d} /\ x.pc = "saveDocument"

ConsentInv ==
  /\ \A a \in Approvals : approvalRow[a] = "authorized" \/ a \in delivered => Approved(a)
  /\ \A c \in LinkCalls, a \in Approvals : Redeems(call[c], a) => Approved(a)

ContentInv ==
  /\ \A d \in Documents : documentRow[d] # {} => d \in content \/ Erased(d)
  /\ \A c \in LinkCalls, d \in Documents : Uploads(call[c], d) => d \in content \/ Erased(d)

LinksInv == LinkRowsOK /\ LinkCallsOK /\ ConsentInv /\ ContentInv

LEMMA LinksInvImplies == LinksInv => LinksTypeOK /\ ConsentComesFirst /\ DocumentsAreStored
<1> SUFFICES ASSUME LinksInv PROVE LinksTypeOK /\ ConsentComesFirst /\ DocumentsAreStored
  OBVIOUS
<1>1. LinksTypeOK
  BY DEF LinksInv, LinkRowsOK, LinkCallsOK, LinkCallRecords, LinkPcs, LinkDids, Standings, LinksTypeOK
<1>2. ConsentComesFirst
  BY DEF LinksInv, ConsentInv, Redeems, Approved, ConsentComesFirst
<1>3. DocumentsAreStored
  BY DEF LinksInv, ContentInv, Erased, DocumentsAreStored
<1> QED
  BY <1>1, <1>2, <1>3

LEMMA NewCallRecord ==
  /\ NewCall \in LinkCallRecords /\ LinkCallInv(NewCall)
  /\ NewCall.did = "nothing" /\ NewCall.attempts = 0 /\ NewCall.item = {}
<1>1. Unlisted \in Standings
  BY DEF Unlisted, Standings
<1> QED
  BY <1>1, LinksAssumption DEF NewCall, LinkCallRecords, LinkPcs, LinkDids, LinkCallInv

LEMMA LinksInvInit == LinksInit => LinksInv
<1> SUFFICES ASSUME LinksInit PROVE LinksInv
  OBVIOUS
<1>1. Unlisted \in Standings /\ [Unlisted EXCEPT !.verified = TRUE, !.listed = TRUE] \in Standings
  BY DEF Unlisted, Standings
<1>2. LinkRowsOK
  BY <1>1, LinksAssumption DEF LinksInit, LinkRowsOK
<1>4. LinkCallsOK
  BY NewCallRecord DEF LinksInit, LinkCallsOK
<1>5. ConsentInv /\ ContentInv
  BY DEF LinksInit, NewCall, ConsentInv, ContentInv, Redeems, Uploads
<1> QED
  BY <1>2, <1>4, <1>5 DEF LinksInv

\* What was approved or erased by a call stays so.
Remembered ==
  /\ \A a \in Approvals : Approved(a) => Approved(a)'
  /\ \A d \in Documents : Erased(d) => Erased(d)'

OtherCallsStay(c) == call' \in [LinkCalls -> LinkCallRecords] /\ \A e \in LinkCalls : e # c => call'[e] = call[e]

LEMMA CallMoves ==
  ASSUME LinkCallsOK, NEW c \in LinkCalls, OtherCallsStay(c), LinkCallInv(call'[c]),
         call[c].did \in {"approved", "erased"} => call'[c].did = call[c].did /\ call'[c].item = call[c].item
  PROVE  LinkCallsOK' /\ Remembered
<1>1. LinkCallsOK'
  <2>1. \A e \in LinkCalls : LinkCallInv(call'[e])
    BY DEF LinkCallsOK, OtherCallsStay
  <2> QED
    BY <2>1 DEF LinkCallsOK, OtherCallsStay, LinkCallInv
<1>2. \A e \in LinkCalls : call[e].did \in {"approved", "erased"} => call'[e].did = call[e].did /\ call'[e].item = call[e].item
  BY DEF OtherCallsStay
<1>3. Remembered
  BY <1>2 DEF Remembered, Approved, Erased
<1> QED
  BY <1>1, <1>3

LEMMA ConsentKept ==
  ASSUME ConsentInv, Remembered,
         \A a \in Approvals : approvalRow'[a] = "authorized" \/ a \in delivered'
           => approvalRow[a] = "authorized" \/ a \in delivered \/ Approved(a)',
         \A c \in LinkCalls, a \in Approvals : Redeems(call'[c], a) => Redeems(call[c], a) \/ approvalRow[a] = "authorized"
  PROVE  ConsentInv'
<1>1. \A a \in Approvals : approvalRow'[a] = "authorized" \/ a \in delivered' => Approved(a)'
  BY DEF ConsentInv, Remembered
<1>2. \A c \in LinkCalls, a \in Approvals : Redeems(call'[c], a) => Approved(a)'
  BY DEF ConsentInv, Remembered
<1> QED
  BY <1>1, <1>2 DEF ConsentInv, Redeems

LEMMA ContentKept ==
  ASSUME ContentInv, Remembered,
         \A d \in Documents : d \in content => d \in content' \/ Erased(d)',
         \A d \in Documents : documentRow'[d] # {} => documentRow[d] # {} \/ \E c \in LinkCalls : Uploads(call[c], d),
         \A c \in LinkCalls, d \in Documents : Uploads(call'[c], d) => Uploads(call[c], d) \/ d \in content'
  PROVE  ContentInv'
<1>1. \A d \in Documents : documentRow'[d] # {} => d \in content' \/ Erased(d)'
  BY DEF ContentInv, Remembered
<1>2. \A c \in LinkCalls, d \in Documents : Uploads(call'[c], d) => d \in content' \/ Erased(d)'
  BY DEF ContentInv, Remembered
<1> QED
  BY <1>1, <1>2 DEF ContentInv, Uploads

\* The same when the rows stay.
LEMMA LinkRowsKept ==
  ASSUME LinksInv, Remembered, UNCHANGED <<approvalRow, delivered, documentVars>>,
         \A c \in LinkCalls, a \in Approvals : Redeems(call'[c], a) => Redeems(call[c], a) \/ approvalRow[a] = "authorized",
         \A c \in LinkCalls, d \in Documents : Uploads(call'[c], d) => Uploads(call[c], d)
  PROVE  ConsentInv' /\ ContentInv'
<1>1. ConsentInv'
  BY ConsentKept DEF LinksInv
<1>2. ContentInv'
  BY ContentKept DEF LinksInv, documentVars
<1> QED
  BY <1>1, <1>2

\* The ways a call moves on.
LEMMA CallToMoves ==
  ASSUME LinkCallsOK, NEW c \in LinkCalls, NEW pc \in LinkPcs, CallTo(c, pc)
  PROVE  /\ OtherCallsStay(c) /\ call'[c].pc = pc /\ call'[c].link = call[c].link /\ call'[c].item = call[c].item
         /\ call'[c].attempts = call[c].attempts /\ call'[c].did = call[c].did
<1> DEFINE new == [call[c] EXCEPT !.pc = pc]
<1>1. call[c] \in LinkCallRecords /\ call' = [call EXCEPT ![c] = new]
  BY DEF LinkCallsOK, CallTo
<1>2. /\ new \in LinkCallRecords /\ new.pc = pc /\ new.link = call[c].link /\ new.item = call[c].item
      /\ new.attempts = call[c].attempts /\ new.did = call[c].did
  BY <1>1 DEF LinkCallRecords
<1> HIDE DEF new
<1> QED
  BY <1>1, <1>2 DEF LinkCallsOK, OtherCallsStay

LEMMA HoldMoves ==
  ASSUME LinkCallsOK, NEW c \in LinkCalls, NEW i \in Approvals \cup Documents, NEW pc \in LinkPcs, Hold(c, i, pc)
  PROVE  /\ OtherCallsStay(c) /\ call'[c].pc = pc /\ call'[c].link = call[c].link /\ call'[c].item = {i}
         /\ call'[c].attempts = call[c].attempts /\ call'[c].did = call[c].did
<1> DEFINE new == [call[c] EXCEPT !.pc = pc, !.item = {i}]
<1>1. call[c] \in LinkCallRecords /\ call' = [call EXCEPT ![c] = new]
  BY DEF LinkCallsOK, Hold
<1>2. /\ new \in LinkCallRecords /\ new.pc = pc /\ new.link = call[c].link /\ new.item = {i}
      /\ new.attempts = call[c].attempts /\ new.did = call[c].did
  BY <1>1 DEF LinkCallRecords
<1> HIDE DEF new
<1> QED
  BY <1>1, <1>2 DEF LinkCallsOK, OtherCallsStay

CallDoes(c, pc, did) == call' = [call EXCEPT ![c].pc = pc, ![c].did = did]

LEMMA DidMoves ==
  ASSUME LinkCallsOK, NEW c \in LinkCalls, NEW pc \in LinkPcs, NEW did \in LinkDids, CallDoes(c, pc, did)
  PROVE  /\ OtherCallsStay(c) /\ call'[c].pc = pc /\ call'[c].link = call[c].link /\ call'[c].item = call[c].item
         /\ call'[c].attempts = call[c].attempts /\ call'[c].did = did
<1> DEFINE new == [call[c] EXCEPT !.pc = pc, !.did = did]
<1>1. call[c] \in LinkCallRecords /\ call' = [call EXCEPT ![c] = new]
  BY DEF LinkCallsOK, CallDoes
<1>2. /\ new \in LinkCallRecords /\ new.pc = pc /\ new.link = call[c].link /\ new.item = call[c].item
      /\ new.attempts = call[c].attempts /\ new.did = did
  BY <1>1 DEF LinkCallRecords
<1> HIDE DEF new
<1> QED
  BY <1>1, <1>2 DEF LinkCallsOK, OtherCallsStay

LEMMA ItemIsHeld ==
  ASSUME NEW c \in LinkCalls, NEW i \in Approvals \cup Documents, call[c].item = {i}
  PROVE  TheItem(c) = i
  BY DEF TheItem

\* A call that only moves on, keeping what it holds.
LEMMA LinkAdmin ==
  ASSUME LinksInv, NEW c \in LinkCalls,
         AdminLinkRoutes(c) \/ SaveServiceLink(c) \/ \E l \in Links : APIKeyAuth(c, l)
  PROVE  LinksInv'
<1>1. /\ LinkRowsOK /\ LinkCallsOK /\ call[c] \in LinkCallRecords /\ LinkCallInv(call[c])
      /\ UNCHANGED <<approvalRow, askedBy, expired, delivered, documentVars, linkFaults>>
  BY DEF LinksInv, LinkCallsOK, AdminLinkRoutes, CreateServiceLink, GetServiceLink, SaveServiceLink, APIKeyAuth,
         approvalVars
<1>2. SUFFICES /\ OtherCallsStay(c) /\ LinkCallInv(call'[c]) /\ call'[c].pc \notin {"redeem", "saveDocument"}
               /\ call'[c].did \in {"nothing", "admitted"} /\ call[c].did \in {"nothing", "admitted"}
               /\ serviceLink' \in [Links -> Standings]
  <2>1. LinkCallsOK' /\ Remembered
    BY <1>1, <1>2, CallMoves
  <2>2. /\ \A e \in LinkCalls, a \in Approvals : Redeems(call'[e], a) => Redeems(call[e], a) \/ approvalRow[a] = "authorized"
        /\ \A e \in LinkCalls, d \in Documents : Uploads(call'[e], d) => Uploads(call[e], d)
    BY <1>2 DEF OtherCallsStay, Redeems, Uploads
  <2>3. ConsentInv' /\ ContentInv'
    BY <1>1, <2>1, <2>2, LinkRowsKept
  <2>4. LinkRowsOK'
    BY <1>1, <1>2 DEF LinkRowsOK, documentVars
  <2> QED
    BY <2>1, <2>3, <2>4 DEF LinksInv
<1>3. ASSUME NEW l \in Links, CreateServiceLink(c, l)
      PROVE  /\ OtherCallsStay(c) /\ LinkCallInv(call'[c]) /\ call'[c].pc \notin {"redeem", "saveDocument"}
             /\ call'[c].did \in {"nothing", "admitted"} /\ call[c].did \in {"nothing", "admitted"}
             /\ serviceLink' \in [Links -> Standings]
  <2>1. call[c].pc = "new" /\ CallTo(c, "over") /\ "over" \in LinkPcs
    BY <1>3 DEF CreateServiceLink, CallAt, LinkPcs
  <2>2. OtherCallsStay(c) /\ call'[c].pc = "over" /\ call'[c].did = call[c].did
    BY <1>1, <2>1, CallToMoves
  <2>3. call[c].did = "nothing"
    BY <1>1, <2>1 DEF LinkCallInv
  <2>4. [Unlisted EXCEPT !.listed = TRUE] \in Standings
    BY DEF Unlisted, Standings
  <2>5. serviceLink' \in [Links -> Standings]
    BY <1>1, <1>3, <2>4 DEF CreateServiceLink, LinkRowsOK
  <2> QED
    BY <2>2, <2>3, <2>5 DEF LinkCallInv
<1>4. ASSUME NEW l \in Links, GetServiceLink(c, l) \/ APIKeyAuth(c, l)
      PROVE  /\ OtherCallsStay(c) /\ LinkCallInv(call'[c]) /\ call'[c].pc \notin {"redeem", "saveDocument"}
             /\ call'[c].did \in {"nothing", "admitted"} /\ call[c].did \in {"nothing", "admitted"}
             /\ serviceLink' \in [Links -> Standings]
  <2>1. call[c].pc = "new" /\ UNCHANGED serviceLink
    BY <1>4 DEF GetServiceLink, APIKeyAuth, CallAt
  <2>2. call[c].did = "nothing"
    BY <1>1, <2>1 DEF LinkCallInv
  <2>3. PICK new \in LinkCallRecords : call' = [call EXCEPT ![c] = new] /\ LinkCallInv(new)
                                       /\ new.pc \in {"saveLink", "partner"} /\ new.did \in {"nothing", "admitted"}
    <3>1. CASE GetServiceLink(c, l)
      <4>1. serviceLink[l] \in Standings
        BY <1>1 DEF LinkRowsOK
      <4>2. /\ VerifyServiceLink(serviceLink[l]) \in Standings /\ SuspendServiceLink(serviceLink[l]) \in Standings
            /\ ReactivateServiceLink(serviceLink[l]) \in Standings
        BY <4>1 DEF Standings, VerifyServiceLink, SuspendServiceLink, ReactivateServiceLink
      <4>3. PICK copy \in Standings :
              call' = [call EXCEPT ![c] = [NewCall EXCEPT !.pc = "saveLink", !.link = {l}, !.copy = copy]]
        BY <3>1, <4>2 DEF GetServiceLink
      <4> DEFINE new == [NewCall EXCEPT !.pc = "saveLink", !.link = {l}, !.copy = copy]
      <4>4. new \in LinkCallRecords /\ new.pc = "saveLink" /\ new.link = {l} /\ new.did = "nothing" /\ new.attempts = 0
        BY NewCallRecord DEF LinkCallRecords, LinkPcs
      <4> HIDE DEF new
      <4>5. LinkCallInv(new)
        BY <4>4, LinksAssumption DEF LinkCallInv
      <4>6. call' = [call EXCEPT ![c] = new]
        BY <4>3 DEF new
      <4> QED
        BY <4>4, <4>5, <4>6
    <3>2. CASE APIKeyAuth(c, l)
      <4> DEFINE new == [NewCall EXCEPT !.pc = "partner", !.link = {l}, !.did = "admitted"]
      <4>1. new \in LinkCallRecords /\ new.pc = "partner" /\ new.link = {l} /\ new.did = "admitted" /\ new.attempts = 0
        BY NewCallRecord DEF LinkCallRecords, LinkPcs, LinkDids
      <4>3. call' = [call EXCEPT ![c] = new]
        BY <3>2 DEF APIKeyAuth
      <4> HIDE DEF new
      <4>4. LinkCallInv(new)
        BY <4>1, LinksAssumption DEF LinkCallInv
      <4> QED
        BY <4>1, <4>3, <4>4
    <3> QED
      BY <1>4, <3>1, <3>2
  <2>4. call \in [LinkCalls -> LinkCallRecords]
    BY <1>1 DEF LinkCallsOK
  <2>5. OtherCallsStay(c) /\ call'[c] = new
    BY <2>3, <2>4 DEF OtherCallsStay
  <2> QED
    BY <1>1, <2>1, <2>2, <2>3, <2>5 DEF LinkRowsOK
<1>5. ASSUME SaveServiceLink(c)
      PROVE  /\ OtherCallsStay(c) /\ LinkCallInv(call'[c]) /\ call'[c].pc \notin {"redeem", "saveDocument"}
             /\ call'[c].did \in {"nothing", "admitted"} /\ call[c].did \in {"nothing", "admitted"}
             /\ serviceLink' \in [Links -> Standings]
  <2>1. call[c].pc = "saveLink" /\ CallTo(c, "over") /\ "over" \in LinkPcs
    BY <1>5 DEF SaveServiceLink, CallAt, LinkPcs
  <2>2. OtherCallsStay(c) /\ call'[c].pc = "over" /\ call'[c].did = call[c].did
    BY <1>1, <2>1, CallToMoves
  <2>3. call[c].did \in {"nothing", "admitted"}
    BY <1>1, <2>1 DEF LinkCallInv
  <2>4. call[c].copy \in Standings
    BY <1>1 DEF LinkCallRecords
  <2>5. serviceLink' \in [Links -> Standings]
    BY <1>1, <1>5, <2>4 DEF SaveServiceLink, LinkRowsOK
  <2> QED
    BY <2>2, <2>3, <2>5 DEF LinkCallInv
<1> QED
  BY <1>3, <1>4, <1>5 DEF AdminLinkRoutes

\* Consent.
LEMMA ConsentMoves ==
  ASSUME LinksInv, NEW c \in LinkCalls, UNCHANGED <<serviceLink, expired, documentRow, content, linkFaults>>,
         OtherCallsStay(c), LinkCallInv(call'[c]), call'[c].pc # "saveDocument",
         call[c].did \in {"approved", "erased"} => call'[c].did = call[c].did /\ call'[c].item = call[c].item,
         approvalRow' \in [Approvals -> {"none", "requested", "authorized", "gone"}],
         askedBy' \in [Approvals -> SUBSET Links], delivered' \subseteq Approvals,
         \A a \in Approvals : approvalRow'[a] = "authorized" \/ a \in delivered'
           => approvalRow[a] = "authorized" \/ a \in delivered
                \/ (call'[c].did = "approved" /\ call'[c].item = {a}) \/ Approved(a),
         \A a \in Approvals : Redeems(call'[c], a) => Redeems(call[c], a) \/ approvalRow[a] = "authorized"
  PROVE  LinksInv'
<1>1. LinkRowsOK /\ LinkCallsOK /\ ConsentInv /\ ContentInv
  BY DEF LinksInv
<1>2. LinkCallsOK' /\ Remembered
  BY <1>1, CallMoves
<1>3. ConsentInv'
  <2>1. \A a \in Approvals : call'[c].did = "approved" /\ call'[c].item = {a} => Approved(a)'
    BY DEF Approved
  <2>2. \A a \in Approvals : approvalRow'[a] = "authorized" \/ a \in delivered'
          => approvalRow[a] = "authorized" \/ a \in delivered \/ Approved(a)'
    BY <1>2, <2>1 DEF Remembered
  <2>3. \A e \in LinkCalls, a \in Approvals : Redeems(call'[e], a) => Redeems(call[e], a) \/ approvalRow[a] = "authorized"
    BY DEF OtherCallsStay
  <2> QED
    BY <1>1, <1>2, <2>2, <2>3, ConsentKept
<1>4. ContentInv'
  <2>1. \A e \in LinkCalls, d \in Documents : Uploads(call'[e], d) => Uploads(call[e], d) \/ d \in content'
    BY DEF OtherCallsStay, Uploads
  <2> QED
    BY <1>1, <1>2, <2>1, ContentKept
<1>5. LinkRowsOK'
  BY <1>1 DEF LinkRowsOK
<1> QED
  BY <1>2, <1>3, <1>4, <1>5 DEF LinksInv

LEMMA ConsentStep ==
  ASSUME LinksInv, NEW c \in LinkCalls,
         ApprovalRoutes(c) \/ SaveApproval(c) \/ DispatchApprovalCallback(c) \/ RedeemApproval(c)
  PROVE  LinksInv'
<1>1. /\ LinkRowsOK /\ LinkCallsOK /\ call[c] \in LinkCallRecords /\ LinkCallInv(call[c]) /\ ConsentInv /\ ContentInv
      /\ UNCHANGED <<serviceLink, expired, documentRow, content, linkFaults>>
  BY DEF LinksInv, LinkCallsOK, ApprovalRoutes, RequestApproval, Approve, VerifyApproval, SaveApproval,
         DispatchApprovalCallback, RedeemApproval, approvalVars, documentVars
<1>3. ASSUME NEW a \in Approvals, RequestApproval(c, a)
      PROVE  LinksInv'
  <2>1. /\ call[c].pc = "partner" /\ CallTo(c, "over") /\ "over" \in LinkPcs /\ UNCHANGED delivered
        /\ approvalRow' = [approvalRow EXCEPT ![a] = "requested"] /\ askedBy' = [askedBy EXCEPT ![a] = call[c].link]
    BY <1>3 DEF RequestApproval, CallAt, LinkPcs
  <2>2. /\ OtherCallsStay(c) /\ call'[c].pc = "over" /\ call'[c].did = call[c].did /\ call'[c].item = call[c].item
        /\ call[c].did \in {"nothing", "admitted"}
    BY <1>1, <2>1, CallToMoves DEF LinkCallInv
  <2>3. /\ approvalRow' \in [Approvals -> {"none", "requested", "authorized", "gone"}]
        /\ \A b \in Approvals : approvalRow'[b] = "authorized" => approvalRow[b] = "authorized"
    BY <1>1, <2>1 DEF LinkRowsOK
  <2>4. askedBy' \in [Approvals -> SUBSET Links]
    BY <1>1, <2>1 DEF LinkRowsOK, LinkCallRecords
  <2>5. LinkCallInv(call'[c])
    BY <2>2 DEF LinkCallInv
  <2>6. delivered' \subseteq Approvals
    BY <1>1, <2>1 DEF LinkRowsOK
  <2> QED
    BY <1>1, ConsentMoves, <2>1, <2>2, <2>3, <2>4, <2>5, <2>6 DEF Redeems
<1>4. ASSUME NEW a \in Approvals, Approve(c, a)
      PROVE  LinksInv'
  <2>1. call[c].pc = "new" /\ Hold(c, a, "approve") /\ "approve" \in LinkPcs /\ UNCHANGED <<approvalRow, askedBy, delivered>>
    BY <1>4 DEF Approve, CallAt, LinkPcs, approvalVars
  <2>2. /\ OtherCallsStay(c) /\ call'[c].pc = "approve" /\ call'[c].did = call[c].did /\ call'[c].item = {a}
        /\ call'[c].attempts = call[c].attempts /\ call[c].did = "nothing"
    BY <1>1, <2>1, HoldMoves DEF LinkCallInv
  <2>3. LinkCallInv(call'[c])
    BY <1>1, <2>1, <2>2 DEF LinkCallInv
  <2>4. /\ approvalRow' \in [Approvals -> {"none", "requested", "authorized", "gone"}]
        /\ askedBy' \in [Approvals -> SUBSET Links] /\ delivered' \subseteq Approvals
    BY <1>1, <2>1 DEF LinkRowsOK
  <2> QED
    BY <1>1, ConsentMoves, <2>1, <2>2, <2>3, <2>4 DEF Redeems
<1>5. ASSUME NEW a \in Approvals, VerifyApproval(c, a)
      PROVE  LinksInv'
  <2>1. /\ call[c].pc = "partner" /\ Hold(c, a, "redeem") /\ "redeem" \in LinkPcs
        /\ UNCHANGED <<approvalRow, askedBy, delivered>> /\ approvalRow[a] = "authorized"
    BY <1>5 DEF VerifyApproval, CallAt, LinkPcs, approvalVars
  <2>2. /\ OtherCallsStay(c) /\ call'[c].pc = "redeem" /\ call'[c].did = call[c].did /\ call'[c].item = {a}
        /\ call'[c].attempts = call[c].attempts /\ call[c].did \in {"nothing", "admitted"}
    BY <1>1, <2>1, HoldMoves DEF LinkCallInv
  <2>3. LinkCallInv(call'[c])
    BY <1>1, <2>1, <2>2 DEF LinkCallInv
  <2>4. /\ approvalRow' \in [Approvals -> {"none", "requested", "authorized", "gone"}]
        /\ askedBy' \in [Approvals -> SUBSET Links] /\ delivered' \subseteq Approvals
    BY <1>1, <2>1 DEF LinkRowsOK
  <2>5. \A b \in Approvals : Redeems(call'[c], b) => approvalRow[b] = "authorized"
    <3>1. \A b \in Approvals : call'[c].item = {b} => b = a
      BY <2>2
    <3> QED
      BY <2>1, <3>1 DEF Redeems
  <2>6. \A b \in Approvals : approvalRow'[b] = "authorized" \/ b \in delivered' => approvalRow[b] = "authorized" \/ b \in delivered
    BY <2>1
  <2>7. call'[c].pc # "saveDocument" /\ call[c].did \notin {"approved", "erased"}
    BY <2>2
  <2>8. OtherCallsStay(c)
    BY <2>2
  <2>9. UNCHANGED <<serviceLink, expired, documentRow, content, linkFaults>>
    BY <1>1
  <2> QED
    BY ConsentMoves, <2>3, <2>4, <2>5, <2>6, <2>7, <2>8, <2>9
<1>6. CASE SaveApproval(c)
  <2>1. /\ call[c].pc = "approve" /\ CallDoes(c, "dispatch", "approved")
        /\ approvalRow' = [approvalRow EXCEPT ![TheItem(c)] = "authorized"] /\ UNCHANGED <<askedBy, delivered>>
    BY <1>6 DEF SaveApproval, CallAt, CallDoes
  <2>2. "dispatch" \in LinkPcs /\ "approved" \in LinkDids
    BY DEF LinkPcs, LinkDids
  <2>3. PICK a \in Approvals : call[c].item = {a}
    BY <1>1, <2>1 DEF LinkCallInv
  <2>4. TheItem(c) = a
    BY <2>3, ItemIsHeld
  <2>5. /\ OtherCallsStay(c) /\ call'[c].pc = "dispatch" /\ call'[c].did = "approved" /\ call'[c].item = {a}
        /\ call'[c].attempts = call[c].attempts /\ call[c].did \notin {"approved", "erased"}
    <3>1. /\ OtherCallsStay(c) /\ call'[c].pc = "dispatch" /\ call'[c].did = "approved" /\ call'[c].item = call[c].item
          /\ call'[c].attempts = call[c].attempts
      BY <1>1, <2>1, <2>2, DidMoves
    <3>2. call[c].did \notin {"approved", "erased"}
      BY <1>1, <2>1 DEF LinkCallInv
    <3> QED
      BY <2>3, <3>1, <3>2
  <2>6. LinkCallInv(call'[c])
    BY <1>1, <2>1, <2>5 DEF LinkCallInv
  <2>7. /\ approvalRow' \in [Approvals -> {"none", "requested", "authorized", "gone"}]
        /\ \A b \in Approvals : approvalRow'[b] = "authorized" => approvalRow[b] = "authorized" \/ b = a
    BY <1>1, <2>1, <2>4 DEF LinkRowsOK
  <2>8. askedBy' \in [Approvals -> SUBSET Links] /\ delivered' \subseteq Approvals
    BY <1>1, <2>1 DEF LinkRowsOK
  <2> QED
    BY <1>1, ConsentMoves, <2>1, <2>5, <2>6, <2>7, <2>8 DEF Redeems
<1>7. CASE DispatchApprovalCallback(c)
  <2>1. call[c].pc = "dispatch" /\ UNCHANGED <<approvalRow, askedBy>>
    BY <1>7 DEF DispatchApprovalCallback, CallAt
  <2>2. PICK a \in Approvals : call[c].item = {a}
    BY <1>1, <2>1 DEF LinkCallInv
  <2>3. TheItem(c) = a
    BY <2>2, ItemIsHeld
  <2>4. call[c].did = "approved" /\ Approved(a) /\ call[c].attempts \in 0..MaxAttempts /\ call[c].attempts < MaxAttempts
    BY <1>1, <2>1, <2>2 DEF LinkCallInv, Approved, LinkCallRecords
  <2>5. delivered' \in {delivered, delivered \cup {a}}
    BY <1>7, <2>3 DEF DispatchApprovalCallback, PostApprovalCallback
  <2>6. /\ OtherCallsStay(c) /\ call'[c].did = "approved" /\ call'[c].item = {a}
        /\ call'[c].pc \in {"dispatch", "over"} /\ LinkCallInv(call'[c])
    <3>1. CASE CallTo(c, "over")
      <4>1. "over" \in LinkPcs
        BY DEF LinkPcs
      <4> QED
        BY <1>1, <2>2, <2>4, <3>1, <4>1, CallToMoves DEF LinkCallInv
    <3>2. CASE call' = [call EXCEPT ![c].attempts = @ + 1,
                                    ![c].pc = IF call[c].attempts + 1 = MaxAttempts THEN "over" ELSE @]
      <4> DEFINE pc == IF call[c].attempts + 1 = MaxAttempts THEN "over" ELSE "dispatch"
      <4> DEFINE new == [call[c] EXCEPT !.attempts = call[c].attempts + 1, !.pc = pc]
      <4>1. call' = [call EXCEPT ![c] = new]
        BY <1>1, <2>1, <3>2 DEF LinkCallsOK, LinkCallRecords
      <4>2. /\ pc \in {"dispatch", "over"} /\ call[c].attempts + 1 \in 0..MaxAttempts
            /\ (pc # "over" => call[c].attempts + 1 < MaxAttempts)
        BY <2>4, LinksAssumption
      <4> HIDE DEF pc
      <4>3. /\ new \in LinkCallRecords /\ new.pc = pc /\ new.did = "approved" /\ new.item = {a}
            /\ new.attempts = call[c].attempts + 1
        BY <1>1, <2>2, <2>4, <4>2 DEF LinkCallRecords, LinkPcs
      <4> HIDE DEF new
      <4>4. OtherCallsStay(c) /\ call'[c] = new
        BY <1>1, <4>1, <4>3 DEF LinkCallsOK, OtherCallsStay
      <4>5. LinkCallInv(new)
        BY <4>2, <4>3 DEF LinkCallInv
      <4> QED
        BY <4>2, <4>3, <4>4, <4>5
    <3> QED
      BY <1>7, <3>1, <3>2 DEF DispatchApprovalCallback
  <2>7. /\ delivered' \subseteq Approvals /\ approvalRow' \in [Approvals -> {"none", "requested", "authorized", "gone"}]
        /\ askedBy' \in [Approvals -> SUBSET Links]
    BY <1>1, <2>1, <2>5 DEF LinkRowsOK
  <2>8. \A b \in Approvals : b \in delivered' => b \in delivered \/ Approved(b)
    BY <2>4, <2>5
  <2> QED
    BY <1>1, ConsentMoves, <2>1, <2>2, <2>4, <2>6, <2>7, <2>8 DEF Redeems
<1>8. CASE RedeemApproval(c)
  <2>1. /\ call[c].pc = "redeem" /\ CallDoes(c, "over", "redeemed")
        /\ approvalRow' = [approvalRow EXCEPT ![TheItem(c)] = "gone"] /\ UNCHANGED <<askedBy, delivered>>
    BY <1>8 DEF RedeemApproval, CallAt, CallDone, CallDoes
  <2>2. "over" \in LinkPcs /\ "redeemed" \in LinkDids
    BY DEF LinkPcs, LinkDids
  <2>3. /\ OtherCallsStay(c) /\ call'[c].pc = "over" /\ call'[c].did = "redeemed" /\ call'[c].item = call[c].item
        /\ call[c].did \notin {"approved", "erased"}
    <3>1. /\ OtherCallsStay(c) /\ call'[c].pc = "over" /\ call'[c].did = "redeemed" /\ call'[c].item = call[c].item
      BY <1>1, <2>1, <2>2, DidMoves
    <3>2. call[c].did \notin {"approved", "erased"}
      BY <1>1, <2>1 DEF LinkCallInv
    <3> QED
      BY <3>1, <3>2
  <2>4. LinkCallInv(call'[c])
    BY <2>3 DEF LinkCallInv
  <2>5. /\ approvalRow' \in [Approvals -> {"none", "requested", "authorized", "gone"}]
        /\ \A b \in Approvals : approvalRow'[b] = "authorized" => approvalRow[b] = "authorized"
    BY <1>1, <2>1 DEF LinkRowsOK
  <2>6. askedBy' \in [Approvals -> SUBSET Links] /\ delivered' \subseteq Approvals
    BY <1>1, <2>1 DEF LinkRowsOK
  <2> QED
    BY <1>1, ConsentMoves, <2>1, <2>3, <2>4, <2>5, <2>6 DEF Redeems
<1> QED
  BY <1>3, <1>4, <1>5, <1>6, <1>7, <1>8 DEF ApprovalRoutes

\* Documents: the content is there before the row, and gone before it.
LEMMA ContentMoves ==
  ASSUME LinksInv, NEW c \in LinkCalls, UNCHANGED <<serviceLink, approvalVars, linkFaults>>,
         OtherCallsStay(c), LinkCallInv(call'[c]), call'[c].pc # "redeem", call'[c].did # "redeemed",
         call[c].did \in {"approved", "erased"} => call'[c].did = call[c].did /\ call'[c].item = call[c].item,
         documentRow' \in [Documents -> SUBSET Links], content' \subseteq Documents,
         \A d \in Documents : d \in content => d \in content' \/ (call'[c].did = "erased" /\ call'[c].item = {d}),
         \A d \in Documents : documentRow'[d] # {} => documentRow[d] # {} \/ Uploads(call[c], d),
         \A d \in Documents : Uploads(call'[c], d) => d \in content'
  PROVE  LinksInv'
<1>1. LinkRowsOK /\ LinkCallsOK /\ ConsentInv /\ ContentInv
  BY DEF LinksInv
<1>2. LinkCallsOK' /\ Remembered
  BY <1>1, CallMoves
<1>3. ConsentInv'
  <2>1. \A e \in LinkCalls, a \in Approvals : Redeems(call'[e], a) => Redeems(call[e], a) \/ approvalRow[a] = "authorized"
    BY DEF OtherCallsStay, Redeems
  <2> QED
    BY <1>1, <1>2, <2>1, ConsentKept DEF approvalVars
<1>4. ContentInv'
  <2>1. \A d \in Documents : call'[c].did = "erased" /\ call'[c].item = {d} => Erased(d)'
    BY DEF Erased
  <2>2. \A d \in Documents : d \in content => d \in content' \/ Erased(d)'
    BY <2>1
  <2>3. \A e \in LinkCalls, d \in Documents : Uploads(call'[e], d) => Uploads(call[e], d) \/ d \in content'
    BY DEF OtherCallsStay
  <2> QED
    BY <1>1, <1>2, <2>2, <2>3, ContentKept
<1>5. LinkRowsOK'
  BY <1>1 DEF LinkRowsOK, approvalVars
<1> QED
  BY <1>2, <1>3, <1>4, <1>5 DEF LinksInv

LEMMA DocumentStep ==
  ASSUME LinksInv, NEW c \in LinkCalls,
         \/ DocumentRoutes(c) \/ SaveStakeholderDocument(c) \/ GetStakeholderDocument(c)
         \/ DeleteStakeholderDocument(c) \/ DeleteDocumentRecord(c)
  PROVE  LinksInv'
<1>1. /\ LinkRowsOK /\ LinkCallsOK /\ call[c] \in LinkCallRecords /\ LinkCallInv(call[c])
      /\ documentRow \in [Documents -> SUBSET Links] /\ content \subseteq Documents
  BY DEF LinksInv, LinkCallsOK, LinkRowsOK
<1>2. UNCHANGED <<serviceLink, approvalVars, linkFaults>>
  BY DEF DocumentRoutes, UploadStakeholderDocument, GetOwnedStakeholderDocument, SaveStakeholderDocument,
         GetStakeholderDocument, DeleteStakeholderDocument, DeleteDocumentRecord
<1>3. ASSUME NEW d \in Documents, UploadStakeholderDocument(c, d) PROVE LinksInv'
  <2>1. /\ call[c].pc = "partner" /\ Hold(c, d, "saveDocument") /\ "saveDocument" \in LinkPcs
        /\ content' = content \cup {d} /\ UNCHANGED documentRow
    BY <1>3 DEF UploadStakeholderDocument, CallAt, LinkPcs
  <2>2. /\ OtherCallsStay(c) /\ call'[c].pc = "saveDocument" /\ call'[c].did = call[c].did /\ call'[c].item = {d}
        /\ call'[c].attempts = call[c].attempts
    BY <1>1, <2>1, HoldMoves
  <2>3. call[c].did \in {"nothing", "admitted"} /\ call[c].attempts < MaxAttempts
    BY <1>1, <2>1 DEF LinkCallInv
  <2>4. LinkCallInv(call'[c])
    BY <2>2, <2>3 DEF LinkCallInv
  <2>5. \A e \in Documents : Uploads(call'[c], e) => e \in content'
    BY <2>1, <2>2 DEF Uploads
  <2>6. call'[c].pc # "redeem" /\ call'[c].did # "redeemed" /\ call[c].did \notin {"approved", "erased"}
    BY <2>2, <2>3
  <2>7. /\ documentRow' \in [Documents -> SUBSET Links] /\ content' \subseteq Documents
        /\ \A e \in Documents : e \in content => e \in content'
        /\ \A e \in Documents : documentRow'[e] # {} => documentRow[e] # {}
    BY <1>1, <2>1
  <2> QED
    BY <1>2, <2>2, <2>4, <2>5, <2>6, <2>7, ContentMoves
<1>4. ASSUME NEW d \in Documents, GetOwnedStakeholderDocument(c, d) PROVE LinksInv'
  <2>1. PICK pc \in {"read", "erase"} : Hold(c, d, pc)
    BY <1>4 DEF GetOwnedStakeholderDocument
  <2>2. call[c].pc = "partner" /\ pc \in LinkPcs /\ UNCHANGED documentVars
    BY <1>4 DEF GetOwnedStakeholderDocument, CallAt, LinkPcs
  <2>3. /\ OtherCallsStay(c) /\ call'[c].pc = pc /\ call'[c].did = call[c].did /\ call'[c].item = {d}
        /\ call'[c].attempts = call[c].attempts
    BY <1>1, <2>1, <2>2, HoldMoves
  <2>4. call[c].did \in {"nothing", "admitted"} /\ call[c].attempts < MaxAttempts
    BY <1>1, <2>2 DEF LinkCallInv
  <2>5. LinkCallInv(call'[c])
    BY <2>3, <2>4 DEF LinkCallInv
  <2>6. call'[c].pc # "redeem" /\ call'[c].did # "redeemed" /\ call[c].did \notin {"approved", "erased"}
    BY <2>3, <2>4
  <2>7. /\ documentRow' \in [Documents -> SUBSET Links] /\ content' \subseteq Documents
        /\ \A e \in Documents : e \in content => e \in content'
        /\ \A e \in Documents : documentRow'[e] # {} => documentRow[e] # {}
        /\ \A e \in Documents : ~Uploads(call'[c], e)
    BY <1>1, <2>2, <2>3 DEF documentVars, Uploads
  <2> QED
    BY <1>2, <2>3, <2>5, <2>6, <2>7, ContentMoves
<1>5. CASE SaveStakeholderDocument(c)
  <2>1. /\ call[c].pc = "saveDocument" /\ CallTo(c, "over") /\ "over" \in LinkPcs /\ UNCHANGED content
        /\ documentRow' = [documentRow EXCEPT ![TheItem(c)] = call[c].link]
    BY <1>5 DEF SaveStakeholderDocument, CallAt, LinkPcs
  <2>2. PICK d \in Documents : call[c].item = {d}
    BY <1>1, <2>1 DEF LinkCallInv
  <2>3. TheItem(c) = d
    BY <2>2, ItemIsHeld
  <2>4. OtherCallsStay(c) /\ call'[c].pc = "over" /\ call'[c].did = call[c].did /\ call'[c].item = call[c].item
    BY <1>1, <2>1, CallToMoves
  <2>5. call[c].did \notin {"approved", "erased", "redeemed"}
    BY <1>1, <2>1 DEF LinkCallInv
  <2>6. LinkCallInv(call'[c])
    BY <2>4, <2>5 DEF LinkCallInv
  <2>7. call[c].link \in SUBSET Links
    BY <1>1 DEF LinkCallRecords
  <2>8. /\ documentRow' \in [Documents -> SUBSET Links] /\ content' \subseteq Documents
        /\ \A e \in Documents : e \in content => e \in content'
    BY <1>1, <2>1, <2>3, <2>7
  <2>9. /\ \A e \in Documents : documentRow'[e] # {} => documentRow[e] # {} \/ Uploads(call[c], e)
        /\ \A e \in Documents : ~Uploads(call'[c], e)
    BY <1>1, <2>1, <2>2, <2>3, <2>4 DEF Uploads
  <2>10. call'[c].pc # "redeem" /\ call'[c].did # "redeemed" /\ call[c].did \notin {"approved", "erased"}
    BY <2>4, <2>5
  <2> QED
    BY <1>2, <2>4, <2>6, <2>8, <2>9, <2>10, ContentMoves
<1>6. CASE GetStakeholderDocument(c)
  <2>1. PICK did \in {"read", "nothing"} : CallDoes(c, "over", did)
    BY <1>6 DEF GetStakeholderDocument, CallDone, CallDoes
  <2>2. call[c].pc = "read" /\ "over" \in LinkPcs /\ did \in LinkDids /\ UNCHANGED documentVars
    BY <1>6 DEF GetStakeholderDocument, CallAt, LinkPcs, LinkDids
  <2>3. OtherCallsStay(c) /\ call'[c].pc = "over" /\ call'[c].did = did
    BY <1>1, <2>1, <2>2, DidMoves
  <2>4. call[c].did \notin {"approved", "erased"} /\ call'[c].pc # "redeem" /\ call'[c].did # "redeemed"
    BY <1>1, <2>2, <2>3 DEF LinkCallInv
  <2>5. LinkCallInv(call'[c])
    BY <2>3 DEF LinkCallInv
  <2>6. /\ documentRow' \in [Documents -> SUBSET Links] /\ content' \subseteq Documents
        /\ \A e \in Documents : e \in content => e \in content'
        /\ \A e \in Documents : documentRow'[e] # {} => documentRow[e] # {}
        /\ \A e \in Documents : ~Uploads(call'[c], e)
    BY <1>1, <2>2, <2>3 DEF documentVars, Uploads
  <2> QED
    BY <1>2, <2>3, <2>4, <2>5, <2>6, ContentMoves
<1>7. CASE DeleteStakeholderDocument(c)
  <2>1. /\ call[c].pc = "erase" /\ CallDoes(c, "unlist", "erased")
        /\ "unlist" \in LinkPcs /\ "erased" \in LinkDids /\ UNCHANGED documentRow /\ content' = content \ {TheItem(c)}
    BY <1>7 DEF DeleteStakeholderDocument, CallAt, LinkPcs, LinkDids, CallDoes
  <2>2. PICK d \in Documents : call[c].item = {d}
    BY <1>1, <2>1 DEF LinkCallInv
  <2>3. TheItem(c) = d
    BY <2>2, ItemIsHeld
  <2>4. /\ OtherCallsStay(c) /\ call'[c].pc = "unlist" /\ call'[c].did = "erased" /\ call'[c].item = call[c].item
        /\ call'[c].attempts = call[c].attempts
    BY <1>1, <2>1, DidMoves
  <2>5. call[c].did \notin {"approved", "erased"} /\ call[c].attempts < MaxAttempts
    BY <1>1, <2>1 DEF LinkCallInv
  <2>6. LinkCallInv(call'[c])
    BY <2>2, <2>4, <2>5 DEF LinkCallInv
  <2>7. \A e \in Documents : e \in content => e \in content' \/ (call'[c].did = "erased" /\ call'[c].item = {e})
    BY <2>1, <2>2, <2>3, <2>4
  <2>8. /\ documentRow' \in [Documents -> SUBSET Links] /\ content' \subseteq Documents
        /\ \A e \in Documents : documentRow'[e] # {} => documentRow[e] # {}
    BY <1>1, <2>1
  <2>9. \A e \in Documents : ~Uploads(call'[c], e)
    BY <2>4 DEF Uploads
  <2>10. call'[c].pc # "redeem" /\ call'[c].did # "redeemed"
    BY <2>4
  <2> QED
    BY <1>2, <2>4, <2>5, <2>6, <2>7, <2>8, <2>9, <2>10, ContentMoves
<1>8. CASE DeleteDocumentRecord(c)
  <2>1. /\ call[c].pc = "unlist" /\ CallTo(c, "over") /\ "over" \in LinkPcs /\ UNCHANGED content
        /\ documentRow' = [documentRow EXCEPT ![TheItem(c)] = {}]
    BY <1>8 DEF DeleteDocumentRecord, CallAt, LinkPcs
  <2>2. OtherCallsStay(c) /\ call'[c].pc = "over" /\ call'[c].did = call[c].did /\ call'[c].item = call[c].item
    BY <1>1, <2>1, CallToMoves
  <2>3. call[c].did # "redeemed"
    BY <1>1, <2>1 DEF LinkCallInv
  <2>4. LinkCallInv(call'[c])
    BY <2>2, <2>3 DEF LinkCallInv
  <2>5. /\ documentRow' \in [Documents -> SUBSET Links] /\ content' \subseteq Documents
        /\ \A e \in Documents : e \in content => e \in content'
        /\ \A e \in Documents : documentRow'[e] # {} => documentRow[e] # {}
    BY <1>1, <2>1
  <2>6. \A e \in Documents : ~Uploads(call'[c], e)
    BY <2>2 DEF Uploads
  <2>7. call'[c].pc # "redeem" /\ call'[c].did # "redeemed"
    BY <2>2, <2>3
  <2> QED
    BY <1>2, <2>2, <2>4, <2>5, <2>6, <2>7, ContentMoves
<1> QED
  BY <1>3, <1>4, <1>5, <1>6, <1>7, <1>8 DEF DocumentRoutes

LEMMA LinkFaultStep ==
  ASSUME LinksInv, FailLinkCalls
  PROVE  LinksInv'
<1>1. /\ LinkRowsOK /\ LinkCallsOK /\ call \in [LinkCalls -> LinkCallRecords]
      /\ \A c \in LinkCalls : call[c] \in LinkCallRecords /\ LinkCallInv(call[c])
  BY DEF LinksInv, LinkCallsOK
<1>2. PICK cs \in {LinkCalls} \cup {{c} : c \in LinkCalls} :
        call' = [c \in LinkCalls |-> IF c \in cs /\ call[c].pc # "new" THEN [call[c] EXCEPT !.pc = "over"] ELSE call[c]]
  BY DEF FailLinkCalls
<1>3. \A c \in LinkCalls : call'[c] = call[c] \/ call'[c] = [call[c] EXCEPT !.pc = "over"]
  BY <1>2
<1>4. \A x \in LinkCallRecords :
        /\ [x EXCEPT !.pc = "over"] \in LinkCallRecords
        /\ [x EXCEPT !.pc = "over"].pc = "over" /\ [x EXCEPT !.pc = "over"].did = x.did
        /\ [x EXCEPT !.pc = "over"].item = x.item
  BY DEF LinkCallRecords, LinkPcs
<1>5. \A c \in LinkCalls : /\ call'[c] \in LinkCallRecords
                           /\ call'[c].did = call[c].did /\ call'[c].item = call[c].item
                           /\ call'[c] = call[c] \/ call'[c].pc = "over"
  <2> SUFFICES ASSUME NEW c \in LinkCalls
               PROVE  /\ call'[c] \in LinkCallRecords
                      /\ call'[c].did = call[c].did /\ call'[c].item = call[c].item
                      /\ call'[c] = call[c] \/ call'[c].pc = "over"
    OBVIOUS
  <2>1. CASE call'[c] = call[c]
    BY <1>1, <2>1
  <2>2. CASE call'[c] = [call[c] EXCEPT !.pc = "over"]
    <3> DEFINE new == [call[c] EXCEPT !.pc = "over"]
    <3>1. call[c] \in LinkCallRecords
      BY <1>1
    <3>2. new \in LinkCallRecords /\ new.pc = "over" /\ new.did = call[c].did /\ new.item = call[c].item
      BY <1>4, <3>1
    <3> HIDE DEF new
    <3>3. call'[c] = new
      BY <2>2 DEF new
    <3> QED
      BY <3>2, <3>3
  <2> QED
    BY <1>3, <2>1, <2>2
<1>6. call' \in [LinkCalls -> LinkCallRecords]
  BY <1>2, <1>5
<1>7. \A c \in LinkCalls : LinkCallInv(call'[c])
  BY <1>1, <1>5 DEF LinkCallInv
<1>8. LinkCallsOK'
  BY <1>6, <1>7 DEF LinkCallsOK, LinkCallInv
<1>9. Remembered
  BY <1>5 DEF Remembered, Approved, Erased
<1>10. /\ UNCHANGED <<serviceLink, approvalVars, documentVars>> /\ linkFaults' \in 0..MaxLinkFaults
  <2>1. /\ UNCHANGED <<serviceLink, approvalVars, documentVars>> /\ linkFaults < MaxLinkFaults
        /\ linkFaults' = linkFaults + 1 /\ linkFaults \in 0..MaxLinkFaults
    BY <1>1 DEF FailLinkCalls, LinkRowsOK
  <2> QED
    BY <2>1, LinksAssumption
<1>11. /\ \A c \in LinkCalls, a \in Approvals : Redeems(call'[c], a) => Redeems(call[c], a)
       /\ \A c \in LinkCalls, d \in Documents : Uploads(call'[c], d) => Uploads(call[c], d)
  BY <1>5 DEF Redeems, Uploads, LinkCallInv
<1>12. ConsentInv' /\ ContentInv'
  BY <1>9, <1>10, <1>11, LinkRowsKept DEF approvalVars
<1>13. LinkRowsOK'
  BY <1>1, <1>10 DEF LinkRowsOK, approvalVars, documentVars
<1> QED
  BY <1>8, <1>12, <1>13 DEF LinksInv

LEMMA LinksInvStep == LinksInv /\ [LinksNext]_linkVars => LinksInv'
<1> SUFFICES ASSUME LinksInv, [LinksNext]_linkVars PROVE LinksInv'
  OBVIOUS
<1>1. CASE UNCHANGED linkVars
  <2>1. UNCHANGED <<serviceLink, approvalRow, askedBy, expired, delivered, documentRow, content, call, linkFaults>>
    BY <1>1 DEF linkVars
  <2>2. LinkRowsOK' /\ LinkCallsOK'
    BY <2>1 DEF LinksInv, LinkRowsOK, LinkCallsOK, LinkCallInv
  <2>3. ConsentInv' /\ ContentInv'
    BY <2>1 DEF LinksInv, ConsentInv, ContentInv, Approved, Erased, Redeems, Uploads
  <2> QED
    BY <2>2, <2>3 DEF LinksInv
<1>2. CASE \E a \in Approvals : ExpireApproval(a)
  <2>1. /\ UNCHANGED <<serviceLink, approvalRow, askedBy, delivered, documentVars, call, linkFaults>>
        /\ expired' \subseteq expired \cup Approvals
    BY <1>2 DEF ExpireApproval
  <2>2. LinkRowsOK' /\ LinkCallsOK'
    BY <2>1 DEF LinksInv, LinkRowsOK, LinkCallsOK, LinkCallInv, documentVars
  <2>3. ConsentInv' /\ ContentInv'
    BY <2>1 DEF LinksInv, ConsentInv, ContentInv, Approved, Erased, Redeems, Uploads, documentVars
  <2> QED
    BY <2>2, <2>3 DEF LinksInv
<1>3. ASSUME NEW c \in LinkCalls,
             \/ AdminLinkRoutes(c) \/ ApprovalRoutes(c) \/ DocumentRoutes(c)
             \/ \E l \in Links : APIKeyAuth(c, l)
             \/ SaveServiceLink(c) \/ SaveApproval(c) \/ DispatchApprovalCallback(c) \/ RedeemApproval(c)
             \/ SaveStakeholderDocument(c) \/ GetStakeholderDocument(c) \/ DeleteStakeholderDocument(c)
             \/ DeleteDocumentRecord(c)
      PROVE  LinksInv'
  <2>1. CASE AdminLinkRoutes(c) \/ SaveServiceLink(c) \/ \E l \in Links : APIKeyAuth(c, l)
    BY <2>1, LinkAdmin
  <2>2. CASE ApprovalRoutes(c) \/ SaveApproval(c) \/ DispatchApprovalCallback(c) \/ RedeemApproval(c)
    BY <2>2, ConsentStep
  <2>3. CASE \/ DocumentRoutes(c) \/ SaveStakeholderDocument(c) \/ GetStakeholderDocument(c)
             \/ DeleteStakeholderDocument(c) \/ DeleteDocumentRecord(c)
    BY <2>3, DocumentStep
  <2> QED
    BY <1>3, <2>1, <2>2, <2>3
<1>4. CASE FailLinkCalls
  BY <1>4, LinkFaultStep
<1> QED
  BY <1>1, <1>2, <1>3, <1>4 DEF LinksNext

-----------------------------------------------------------------------------
(* All together.  A step of the system is a step of one component, and     *)
(* leaves the others alone.                                                *)
ServicesInv ==
  /\ AccountsInv /\ FiatInv /\ CryptoInv /\ SpendInv
  /\ KycRailInv /\ PatronInv /\ WatcherInv /\ LinksInv

LEMMA ServicesInvInit == ServicesInit(AccountsInit) => ServicesInv
<1> SUFFICES ASSUME ServicesInit(AccountsInit) PROVE ServicesInv
  OBVIOUS
<1>1. /\ AccountsInit /\ FiatInit /\ CryptoInit /\ RailInit /\ KycInit /\ PatronInit /\ WatcherInit
      /\ LinksInit /\ SpendInit
  BY DEF ServicesInit
<1>2. AccountsInv /\ FiatInv /\ CryptoInv /\ SpendInv
  BY <1>1, AccountsInvInit, FiatInvInit, CryptoInvInit, SpendInvInit
<1>3. KycRailInv /\ PatronInv /\ WatcherInv /\ LinksInv
  BY <1>1, RailInvInit, KycInvInit, PatronInvInit, WatcherInvInit, LinksInvInit DEF KycRailInv
<1> QED
  BY <1>2, <1>3 DEF ServicesInv

\* Each component implements its own specification.
LEMMA OneComponentSteps ==
  ASSUME [ServicesNext]_servicesVars
  PROVE  /\ [AccountsNext]_accountsVars /\ [FiatNext]_fiatVars /\ [CryptoNext]_cryptoVars /\ [SpendNext]_spendVars
         /\ [KycNext]_kycVars /\ [PatronNext]_patronVars /\ [WatcherNext]_watcherVars /\ [LinksNext]_linkVars
<1>1. CASE UNCHANGED servicesVars
  <2>1. UNCHANGED <<accountsVars, fiatVars, cryptoVars, kycVars, patronVars, watcherVars, linkVars, spendVars>>
    BY <1>1 DEF servicesVars
  <2> QED
    BY <2>1
<1>2. CASE ServicesNext
  BY <1>2 DEF ServicesNext, Only
<1> QED
  BY <1>1, <1>2

LEMMA ServicesInvStep == ServicesInv /\ [ServicesNext]_servicesVars => ServicesInv'
<1> SUFFICES ASSUME ServicesInv, [ServicesNext]_servicesVars PROVE ServicesInv'
  OBVIOUS
<1>1. /\ AccountsInv /\ FiatInv /\ CryptoInv /\ SpendInv
      /\ KycRailInv /\ PatronInv /\ WatcherInv /\ LinksInv
  BY DEF ServicesInv
<1>2. AccountsInv' /\ FiatInv' /\ CryptoInv' /\ SpendInv'
  BY <1>1, OneComponentSteps, AccountsInvStep, FiatInvStep, CryptoInvStep, SpendInvStep
<1>3. KycRailInv' /\ PatronInv' /\ WatcherInv' /\ LinksInv'
  BY <1>1, OneComponentSteps, KycRailStep, PatronInvStep, WatcherInvStep, LinksInvStep
<1> QED
  BY <1>2, <1>3 DEF ServicesInv

LEMMA ServicesInvImplies ==
  ServicesInv => /\ ServicesTypeOK /\ EffectsAtMostOnce /\ RecordsHold /\ LevelIsEarned /\ GrantsAreEarned
                 /\ CachedIsTracked /\ GuardedWhileOwner /\ SignerInStep
<1> SUFFICES ASSUME ServicesInv
             PROVE  /\ ServicesTypeOK /\ EffectsAtMostOnce /\ RecordsHold /\ LevelIsEarned /\ GrantsAreEarned
                    /\ CachedIsTracked /\ GuardedWhileOwner /\ SignerInStep
  OBVIOUS
<1>1. AccountsTypeOK /\ GuardedWhileOwner /\ SignerInStep
  BY SignerFollows DEF ServicesInv, AccountsInv, GuardInv
<1>2. /\ FiatTypeOK /\ SettledOnce /\ FiatRecordsHold /\ CryptoTypeOK /\ CryptoOnce /\ CryptoRecordsHold
      /\ SpendTypeOK /\ SpendOnce /\ SpendRecordsHold
  BY FiatInvImplies, CryptoInvImplies, SpendInvImplies DEF ServicesInv
<1>3. RailTypeOK /\ RailOnce /\ RailRecordsHold /\ KycTypeOK /\ LevelIsEarned
  BY RailInvImplies DEF ServicesInv, KycRailInv, KycInv
<1>4. PatronTypeOK /\ MembershipIsDue /\ WatcherTypeOK /\ CachedIsWatched /\ NoEventSkipped
  BY PatronInvImplies DEF ServicesInv, WatcherInv
<1>5. LinksTypeOK /\ ConsentComesFirst /\ DocumentsAreStored
  BY LinksInvImplies DEF ServicesInv
<1> QED
  BY <1>1, <1>2, <1>3, <1>4, <1>5
     DEF ServicesTypeOK, EffectsAtMostOnce, RecordsHold, GrantsAreEarned, CachedIsTracked

LEMMA ServicesKeepInv == ServicesSpec => []ServicesInv
BY ServicesInvInit, ServicesInvStep, PTL DEF ServicesSpec

\* Every row, request and poll of every component keeps the form its module gives it.
THEOREM ServicesTyping == ServicesSpec => []ServicesTypeOK
<1>1. ServicesInv => ServicesTypeOK
  BY ServicesInvImplies
<1> QED
  BY <1>1, ServicesKeepInv, PTL

\* However often webhooks are delivered, requests sent and polls repeated, and whatever
\* fails between the call and its row, no settlement, credit, payout, on-ramp withdrawal
\* or booking happens twice.
THEOREM EffectsHappenOnce == ServicesSpec => []EffectsAtMostOnce
<1>1. ServicesInv => EffectsAtMostOnce
  BY ServicesInvImplies
<1> QED
  BY <1>1, ServicesKeepInv, PTL

\* What the rows report was done: booked, settled, credited, paid out, funded or stored.
THEOREM RecordsAreTrue == ServicesSpec => []RecordsHold
<1>1. ServicesInv => RecordsHold
  BY ServicesInvImplies
<1> QED
  BY <1>1, ServicesKeepInv, PTL

\* The verified level of a user without a partner is one a vendor passed, and as high as
\* every level the progress rows show as passed, though the webhooks of both vendors save
\* stale copies of those rows over each other.
THEOREM LevelsAreEarned == ServicesSpec => []LevelIsEarned
<1>1. ServicesInv => LevelIsEarned
  BY ServicesInvImplies
<1> QED
  BY <1>1, ServicesKeepInv, PTL

\* A partner's token or callback comes after a saved approval, and a membership is one
\* that was subscribed to and has begun, whatever is redeemed, deleted or swept meanwhile.
THEOREM GrantsComeAfterConsent == ServicesSpec => []GrantsAreEarned
<1>1. ServicesInv => GrantsAreEarned
  BY ServicesInvImplies
<1> QED
  BY <1>1, ServicesKeepInv, PTL

\* No answer this process cached is left without a watcher, and no poll passes over a
\* block that touches the address.
THEOREM AnswersStayTracked == ServicesSpec => []CachedIsTracked
<1>1. ServicesInv => CachedIsTracked
  BY ServicesInvImplies
<1> QED
  BY <1>1, ServicesKeepInv, PTL
=============================================================================
