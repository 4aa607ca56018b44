----------------------------- MODULE StableRail -----------------------------
(***************************************************************************)
(* The NGN on-ramp of one user.  Onboarding and every on-ramp leave a row  *)
(* of stablerail_requests that a poller follows at the provider: as long   *)
(* as the row has the status it was created with.  The poller saves the    *)
(* new status first and acts on it afterwards.                             *)
(***************************************************************************)
EXTENDS Naturals

CONSTANTS Boardings,   \* bound: onboarding requests, by the provider's ids
          Onramps,     \* bound: on-ramp requests, by the provider's ids
          MaxRailFaults

ASSUME RailAssumption == MaxRailFaults \in Nat

VARIABLES boarding,    \* stablerail_requests of type Onboarding: their status
          railUser,    \* stablerail_users: the request that made the row
          onramp,      \* stablerail_onramps: the status, "none" without a row
          rampRequest, \* stablerail_requests of type Onramp: the status
          withdrawal,  \* stablerail_asset_withdrawals: the status, "none" without a row
          asked,       \* withdrawals the provider was asked for: external
          sweep,       \* the goroutine that polls both kinds
          railFaults

railVars == <<boarding, railUser, onramp, rampRequest, withdrawal, asked, sweep, railFaults>>
rampVars == <<onramp, rampRequest, withdrawal, asked>>

Resting == [pc |-> "rest", boarding |-> {}, onramp |-> {}]

RailInit ==
  /\ boarding = [b \in Boardings |-> "none"] /\ railUser = {}
  /\ onramp = [o \in Onramps |-> "none"] /\ rampRequest = [o \in Onramps |-> "none"]
  /\ withdrawal = [o \in Onramps |-> "none"] /\ asked = [o \in Onramps |-> 0]
  /\ sweep = Resting /\ railFaults = 0

RailFault == railFaults < MaxRailFaults /\ railFaults' = railFaults + 1

-----------------------------------------------------------------------------
\* A second request is made as long as the first one has not been completed.
InitiateOnboarding(b) ==
  /\ railUser = {} /\ boarding[b] = "none"
  /\ \E status \in {"processing", "declined"} : boarding' = [boarding EXCEPT ![b] = status]
  /\ UNCHANGED <<railUser, rampVars, sweep, railFaults>>

PollOnboarding(b) ==
  /\ sweep = Resting /\ boarding[b] = "processing"
  /\ \E status \in {"completed", "declined"} :
       /\ boarding' = [boarding EXCEPT ![b] = status]
       /\ sweep' = IF status = "completed" THEN [pc |-> "user", boarding |-> {b}, onramp |-> {}] ELSE sweep
  /\ UNCHANGED <<railUser, rampVars, railFaults>>

\* One row per user: a second one is refused.
CreateStablerailUser ==
  /\ sweep.pc = "user" /\ sweep' = Resting
  /\ railUser' = IF railUser = {} THEN sweep.boarding ELSE railUser
  /\ UNCHANGED <<boarding, rampVars, railFaults>>

-----------------------------------------------------------------------------
\* The two rows are two statements; without the second one nobody follows the on-ramp.
InitiateOnramp(o) ==
  /\ railUser # {} /\ onramp[o] = "none" /\ onramp' = [onramp EXCEPT ![o] = "created"]
  /\ \/ rampRequest' = [rampRequest EXCEPT ![o] = "created"] /\ UNCHANGED railFaults
     \/ RailFault /\ UNCHANGED rampRequest
  /\ UNCHANGED <<boarding, railUser, withdrawal, asked, sweep>>

\* Any other status than the first one ends the polling.
PollOnramp(o) ==
  /\ sweep = Resting /\ rampRequest[o] = "created"
  /\ \E status \in {"swapping", "funded"} :
       /\ rampRequest' = [rampRequest EXCEPT ![o] = status]
       /\ sweep' = IF status = "funded" THEN [pc |-> "onramp", boarding |-> {}, onramp |-> {o}] ELSE sweep
  /\ UNCHANGED <<boarding, railUser, onramp, withdrawal, asked, railFaults>>

SaveOnramp(o) ==
  /\ sweep.pc = "onramp" /\ o \in sweep.onramp /\ sweep' = [sweep EXCEPT !.pc = "withdrawal"]
  /\ onramp' = [onramp EXCEPT ![o] = "funded"]
  /\ UNCHANGED <<boarding, railUser, rampRequest, withdrawal, asked, railFaults>>

CreateAssetWithdrawal(o) ==
  /\ sweep.pc = "withdrawal" /\ o \in sweep.onramp
  /\ IF withdrawal[o] = "none"
       THEN withdrawal' = [withdrawal EXCEPT ![o] = "pending"] /\ sweep' = [sweep EXCEPT !.pc = "ask"]
       ELSE sweep' = Resting /\ UNCHANGED withdrawal  \* the primary key is the on-ramp's
  /\ UNCHANGED <<boarding, railUser, onramp, rampRequest, asked, railFaults>>

\* The provider is asked, and accepts or declines.
AskForWithdrawal(o) ==
  /\ sweep.pc = "ask" /\ o \in sweep.onramp
  /\ \/ asked' = [asked EXCEPT ![o] = @ + 1] /\ sweep' = [sweep EXCEPT !.pc = "mark"]
     \/ sweep' = Resting /\ UNCHANGED asked
  /\ UNCHANGED <<boarding, railUser, onramp, rampRequest, withdrawal, railFaults>>

MarkWithdrawal(o) ==
  /\ sweep.pc = "mark" /\ o \in sweep.onramp /\ sweep' = Resting
  /\ withdrawal' = [withdrawal EXCEPT ![o] = "funded"]
  /\ UNCHANGED <<boarding, railUser, onramp, rampRequest, asked, railFaults>>

\* A statement or a call fails, or the process stops: what followed is never made up for.
FailSweep ==
  /\ sweep # Resting /\ RailFault /\ sweep' = Resting
  /\ UNCHANGED <<boarding, railUser, rampVars>>

RailNext ==
  \/ \E b \in Boardings : InitiateOnboarding(b) \/ PollOnboarding(b)
  \/ CreateStablerailUser \/ FailSweep
  \/ \E o \in Onramps : \/ InitiateOnramp(o) \/ PollOnramp(o) \/ SaveOnramp(o) \/ CreateAssetWithdrawal(o)
                        \/ AskForWithdrawal(o) \/ MarkWithdrawal(o)

-----------------------------------------------------------------------------
RailTypeOK ==
  /\ boarding \in [Boardings -> {"none", "processing", "completed", "declined"}]
  /\ railUser \subseteq Boardings
  /\ onramp \in [Onramps -> {"none", "created", "funded"}]
  /\ rampRequest \in [Onramps -> {"none", "created", "swapping", "funded"}]
  /\ withdrawal \in [Onramps -> {"none", "pending", "funded"}]
  /\ railFaults \in 0..MaxRailFaults

\* The converted balance of an on-ramp is sent to its user's wallet at most once,
\* whatever fails and however often the poller comes by.
RailOnce == \A o \in Onramps : asked[o] <= 1

\* A user is onboarded by a completed request; a withdrawal was asked for a funded
\* on-ramp, and one that is recorded as funded was asked for.
RailRecordsHold ==
  /\ \A b \in railUser : boarding[b] = "completed"
  /\ \A o \in Onramps : /\ asked[o] > 0 => rampRequest[o] = "funded" /\ onramp[o] = "funded" /\ withdrawal[o] # "none"
                        /\ withdrawal[o] = "funded" => asked[o] > 0
=============================================================================
