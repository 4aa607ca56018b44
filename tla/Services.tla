------------------------------ MODULE Services ------------------------------
(***************************************************************************)
(* The components around the group wallet.  They write no rows of each     *)
(* other but where their modules say so: what one needs of another (the    *)
(* group that executes an action, the status of an asset, a user's row) is *)
(* part of its own module.  So a behaviour is one of a single component,   *)
(* the focus; the others stay as they began.                               *)
(***************************************************************************)
EXTENDS Accounts, Fiat, Crypto, Kyc, Patron, AddressWatcher, ServiceLinks, WalletCalls

VARIABLE focus

servicesVars == <<accountsVars, fiatVars, cryptoVars, kycVars, patronVars, watcherVars, linkVars, spendVars, focus>>

\* Where accounts start from is open: a first boot or later.
ServicesInit(AccountsStart) ==
  /\ focus \in {"accounts", "fiat", "crypto", "kyc", "patron", "watcher", "links", "spending"}
  /\ IF focus = "accounts" THEN AccountsStart ELSE AccountsInit
  /\ FiatInit /\ CryptoInit /\ RailInit /\ KycInit /\ PatronInit /\ WatcherInit /\ LinksInit /\ SpendInit
  /\ focus # "kyc" => ~partnerUser /\ level = 0

Only(component, step) == focus = component /\ step /\ UNCHANGED focus

ServicesNext ==
  \/ /\ Only("accounts", AccountsNext)
     /\ UNCHANGED <<fiatVars, cryptoVars, kycVars, patronVars, watcherVars, linkVars, spendVars>>
  \/ /\ Only("fiat", FiatNext)
     /\ UNCHANGED <<accountsVars, cryptoVars, kycVars, patronVars, watcherVars, linkVars, spendVars>>
  \/ /\ Only("crypto", CryptoNext)
     /\ UNCHANGED <<accountsVars, fiatVars, kycVars, patronVars, watcherVars, linkVars, spendVars>>
  \/ /\ Only("kyc", KycNext)
     /\ UNCHANGED <<accountsVars, fiatVars, cryptoVars, patronVars, watcherVars, linkVars, spendVars>>
  \/ /\ Only("patron", PatronNext)
     /\ UNCHANGED <<accountsVars, fiatVars, cryptoVars, kycVars, watcherVars, linkVars, spendVars>>
  \/ /\ Only("watcher", WatcherNext)
     /\ UNCHANGED <<accountsVars, fiatVars, cryptoVars, kycVars, patronVars, linkVars, spendVars>>
  \/ /\ Only("links", LinksNext)
     /\ UNCHANGED <<accountsVars, fiatVars, cryptoVars, kycVars, patronVars, watcherVars, spendVars>>
  \/ /\ Only("spending", SpendNext)
     /\ UNCHANGED <<accountsVars, fiatVars, cryptoVars, kycVars, patronVars, watcherVars, linkVars>>

ServicesSpec == ServicesInit(AccountsInit) /\ [][ServicesNext]_servicesVars

-----------------------------------------------------------------------------
ServicesTypeOK ==
  /\ AccountsTypeOK /\ FiatTypeOK /\ CryptoTypeOK /\ KycTypeOK /\ RailTypeOK
  /\ PatronTypeOK /\ WatcherTypeOK /\ LinksTypeOK /\ SpendTypeOK

\* What leaves the process happens once: a fiat purchase is settled, a deposit credited,
\* an on-ramp's withdrawal asked for, and what a wallet executed on the chain is paid out
\* or booked, at most once over repeated webhooks and submissions, overlapping polls, lost
\* answers and restarts.
EffectsAtMostOnce == SettledOnce /\ CryptoOnce /\ RailOnce /\ SpendOnce

\* The rows that report an effect outside of the database tell the truth: the action that
\* a booking or a payout names was executed, what is settled was submitted, what was
\* credited or paid out has its row, and a listed document has its content.
RecordsHold == FiatRecordsHold /\ CryptoRecordsHold /\ RailRecordsHold /\ SpendRecordsHold /\ DocumentsAreStored

\* Nothing is granted without what it takes: a partner's token and callback an approval
\* that was saved, a membership a subscription that has begun.
GrantsAreEarned == ConsentComesFirst /\ MembershipIsDue

\* The watcher misses no block for an answer this process has cached and registered.
CachedIsTracked == CachedIsWatched /\ NoEventSkipped
=============================================================================
