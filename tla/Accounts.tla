------------------------------ MODULE Accounts ------------------------------
(***************************************************************************)
(* User accounts: registration, deployment of the primary wallet (a Safe), *)
(* and the two ways to recover an account.  Account recovery (Branch A)    *)
(* moves the account to a new address in the database; wallet recovery     *)
(* (Branch B) swaps the owner of the Safe, which must have been enrolled   *)
(* first: the recovery service becomes an owner and a guard is installed.  *)
(*                                                                         *)
(* An HTTP request is a process that works on a copy of the users row.     *)
(* Its submissions to the chain and its database statements are steps.     *)
(* A Safe transaction takes effect when it is submitted: its nonce decides *)
(* whether it does.  User names stand for rows, codes for one-time codes.  *)
(***************************************************************************)
EXTENDS FiniteSets, Naturals

CONSTANTS Keys,      \* externally owned accounts that sign
          Service,   \* the recovery service's own Safe
          MaxUsers,  \* bound: rows of users
          Codes,     \* bound: one-time codes that can be sent
          Requests,  \* bound: requests of several steps, each served once
          MaxFaults  \* bound: failed statements, lost receipts and restarts

\* The recovery service signs with its own Safe, not with a key.
ASSUME AccountsAssumption == Service \notin Keys /\ {MaxUsers, MaxFaults} \subseteq Nat

UserIds == 1..MaxUsers
SafeOf(k)   == <<"safe", k>> \* computePrimaryWalletAddress
EOA(k)      == <<"eoa", k>>
Addresses   == {SafeOf(k) : k \in Keys} \cup {EOA(k) : k \in Keys}
Safes       == {SafeOf(k) : k \in Keys}

VARIABLES user,       \* users, security answers included
          wallets,    \* primary rows of user_wallets: <<user id, address>>
          members,    \* group_members of the primary wallets' groups: <<group address, key>>
          groups,     \* closed_groups: the addresses that have one
          code,       \* account_recovery_email_verifications
          safe,       \* the chain: the primary wallets
          platform,   \* recovery_platform_infrastructure and its contracts
          request,    \* the requests under way
          faults,     \* failures so far
          unrecorded  \* wallets whose swapped owner could not be recorded

db == <<user, wallets, members, groups, code>>
accountsVars == <<db, safe, platform, request, faults, unrecorded>>

User == [status: {"live"}, signer: Keys, address: Addresses, deployed: BOOLEAN,
         account: BOOLEAN, wallet: BOOLEAN, answers: BOOLEAN]
NoUser  == [status |-> "none"]
Deleted == [status |-> "deleted"]
Safe == [state: {"absent", "pending", "deployed"}, owners: SUBSET (Keys \cup {Service}),
         guard: BOOLEAN, nonce: Nat]
\* What the process keeps (service, guard: saved flags) and what is deployed (code).
Platform == [service: BOOLEAN, guard: BOOLEAN, code: BOOLEAN,
             boot: {"service", "saveService", "guard", "saveGuard", "up"}]
Idle == [pc |-> "idle"]
Over == [pc |-> "over"]

Live(u)     == user[u].status = "live"
Serving     == platform.boot = "up"
PlatformDeployed == platform.service /\ platform.guard
Copy(u, pc) == [pc |-> pc, id |-> u, signer |-> user[u].signer, address |-> user[u].address,
                new |-> user[u].signer, code |-> 0, nonce |-> 0]
Request == {Idle, Over} \cup
  [pc: {"deploy", "recordDeploy", "group", "addOwner", "setGuard", "recordEnable", "removeOwner",
        "clearGuard", "recordDisable", "swap", "recordSwap", "move"},
   id: UserIds, signer: Keys, address: Addresses, new: Keys, code: Codes \cup {0}, nonce: Nat]

\* The first boot, before any account.
Empty ==
  /\ user = [u \in UserIds |-> NoUser]
  /\ wallets = {} /\ members = {} /\ groups = {}
  /\ code = [c \in Codes |-> 0]
  /\ safe = [a \in Safes |-> [state |-> "absent", owners |-> {}, guard |-> FALSE, nonce |-> 0]]
  /\ platform = [service |-> FALSE, guard |-> FALSE, code |-> FALSE, boot |-> "service"]
  /\ faults = 0 /\ unrecorded = {}
AccountsInit == Empty /\ request = [r \in Requests |-> Idle]

Fault == faults < MaxFaults /\ faults' = faults + 1
Finish(r)   == request' = [request EXCEPT ![r] = Over]
Goto(r, pc) == request' = [request EXCEPT ![r].pc = pc]
\* An UPDATE by id: it changes nothing when the row was deleted meanwhile.
UpdateUser(u, row) == user' = IF Live(u) THEN [user EXCEPT ![u] = row] ELSE user
\* Wallets whose swapped owner the requests R have not recorded yet.
Swapped(R) == {request[r].address : r \in {r \in R : request[r].pc = "recordSwap"}}

-----------------------------------------------------------------------------
(* Registration, the setters and deletion: one statement or transaction.   *)
Register(u, k) ==
  /\ Serving /\ user[u].status = "none" /\ \A v \in 1..(u - 1) : user[v].status # "none"
  /\ \A v \in UserIds : Live(v) => user[v].signer # k /\ user[v].address # SafeOf(k)
  /\ \A w \in wallets : w[2] # SafeOf(k)  \* or the transaction fails on the unique index
  /\ user' = [user EXCEPT ![u] = [status |-> "live", signer |-> k, address |-> SafeOf(k), deployed |-> FALSE,
                                  account |-> FALSE, wallet |-> FALSE, answers |-> FALSE]]
  /\ wallets' = wallets \cup {<<u, SafeOf(k)>>}
  /\ UNCHANGED <<members, groups, code, safe, platform, request, faults, unrecorded>>

SetSecurityAnswer(u) ==
  /\ Serving /\ Live(u) /\ user' = [user EXCEPT ![u].answers = TRUE]
  /\ UNCHANGED <<wallets, members, groups, code, safe, platform, request, faults, unrecorded>>

SetAccountRecovery(u, enabled) ==
  /\ Serving /\ Live(u) /\ user' = [user EXCEPT ![u].account = enabled]
  /\ UNCHANGED <<wallets, members, groups, code, safe, platform, request, faults, unrecorded>>

\* Only the users row goes; its wallet rows, groups and answers stay.
Delete(u) ==
  /\ Serving /\ Live(u) /\ user' = [user EXCEPT ![u] = Deleted]
  /\ UNCHANGED <<wallets, members, groups, code, safe, platform, request, faults, unrecorded>>

RequestRecoveryOTP(u, c) ==
  /\ Serving /\ Live(u) /\ (user[u].account \/ user[u].wallet)
  /\ code[c] = 0 /\ code' = [code EXCEPT ![c] = u]
  /\ UNCHANGED <<user, wallets, members, groups, safe, platform, request, faults, unrecorded>>

ExpireOTP(c) ==
  /\ code[c] # 0 /\ code' = [code EXCEPT ![c] = 0]
  /\ UNCHANGED <<user, wallets, members, groups, safe, platform, request, faults, unrecorded>>

-----------------------------------------------------------------------------
(* DeployPrimaryWallet.                                                    *)
\* ensurePrimaryWalletGroup with the copy q of the row.
WithGroup(q) ==
  IF q.address \in groups THEN UNCHANGED <<groups, members>>
  ELSE /\ groups'  = groups \cup {q.address}
       /\ members' = members \cup {<<q.address, q.signer>>}

DeployPrimaryWallet(r, u) ==
  /\ Serving /\ request[r] = Idle /\ Live(u)
  /\ IF user[u].deployed THEN WithGroup(Copy(u, "group")) /\ Finish(r)
     ELSE request' = [request EXCEPT ![r] = Copy(u, "deploy")] /\ UNCHANGED <<groups, members>>
  /\ UNCHANGED <<user, wallets, code, safe, platform, faults, unrecorded>>

\* The gas estimate fails when the Safe exists already.  The receipt is not awaited.
SubmitDeploy(r) ==
  LET a == SafeOf(request[r].signer) IN
  /\ request[r].pc = "deploy"
  /\ IF safe[a].state = "deployed" THEN Finish(r) /\ UNCHANGED safe
     ELSE safe' = [safe EXCEPT ![a].state = "pending"] /\ Goto(r, "recordDeploy")
  /\ UNCHANGED <<db, platform, faults, unrecorded>>

\* Mutant: the Safe is set up with an address instead of the key itself.
DeployLandsMisowned(k) ==
  /\ safe[SafeOf(k)].state = "pending"
  /\ safe' = [safe EXCEPT ![SafeOf(k)] = [@ EXCEPT !.state = "deployed", !.owners = {EOA(k)}]]
  /\ UNCHANGED <<db, platform, request, faults, unrecorded>>

DeployLands(k) ==
  /\ safe[SafeOf(k)].state = "pending"
  /\ safe' = [safe EXCEPT ![SafeOf(k)] = [@ EXCEPT !.state = "deployed", !.owners = {k}]]
  /\ UNCHANGED <<db, platform, request, faults, unrecorded>>

RecordDeploy(r) ==
  /\ request[r].pc = "recordDeploy"
  /\ UpdateUser(request[r].id, [user[request[r].id] EXCEPT !.deployed = TRUE])
  /\ Goto(r, "group")
  /\ UNCHANGED <<wallets, members, groups, code, safe, platform, faults, unrecorded>>

CreateGroup(r) ==
  /\ request[r].pc = "group" /\ WithGroup(request[r]) /\ Finish(r)
  /\ UNCHANGED <<user, wallets, code, safe, platform, faults, unrecorded>>

-----------------------------------------------------------------------------
(* Enrolment: submitSelfManagementTx is a Safe transaction with the nonce  *)
(* its signatures were made for; the Safe refuses any other nonce and any  *)
(* signer that is no owner (the gas estimate fails, the request ends).     *)
Accepts(a, nonce, signer) == safe[a].nonce = nonce /\ signer \in safe[a].owners
OnChain(a) == a \in Safes /\ safe[a].state = "deployed"

SelfManage(r, from, offset, fits, changed, next) ==
  LET q == request[r] IN
  /\ q.pc = from
  /\ IF Accepts(q.address, q.nonce + offset, q.signer) /\ fits
       THEN /\ safe' = [safe EXCEPT ![q.address] = [changed EXCEPT !.nonce = @ + 1]]
            /\ \/ Goto(r, next) /\ UNCHANGED faults
               \/ Fault /\ Finish(r)  \* it lands, and its receipt is lost
       ELSE Finish(r) /\ UNCHANGED <<safe, faults>>
  /\ UNCHANGED <<db, platform, unrecorded>>

ConfirmEnableWalletRecovery(r, u) ==
  /\ Serving /\ request[r] = Idle /\ Live(u) /\ user[u].deployed /\ ~user[u].wallet
  /\ PlatformDeployed /\ OnChain(user[u].address)
  /\ request' = [request EXCEPT ![r] = [Copy(u, "addOwner") EXCEPT !.nonce = safe[user[u].address].nonce]]
  /\ UNCHANGED <<db, safe, platform, faults, unrecorded>>

\* Mutant: enrolment leaves the guard for later.
AddOwnerWithoutGuard(r) ==
  LET s == safe[request[r].address] IN
  SelfManage(r, "addOwner", 0, Service \notin s.owners, [s EXCEPT !.owners = @ \cup {Service}], "recordEnable")

AddOwner(r) ==
  LET s == safe[request[r].address] IN
  SelfManage(r, "addOwner", 0, Service \notin s.owners, [s EXCEPT !.owners = @ \cup {Service}], "setGuard")

SetGuard(r) ==
  LET s == safe[request[r].address] IN
  SelfManage(r, "setGuard", 1, TRUE, [s EXCEPT !.guard = TRUE], "recordEnable")

RecordEnabled(r) ==
  /\ request[r].pc = "recordEnable"
  /\ UpdateUser(request[r].id, [user[request[r].id] EXCEPT !.wallet = TRUE])
  /\ Finish(r)
  /\ UNCHANGED <<wallets, members, groups, code, safe, platform, faults, unrecorded>>

ConfirmDisableWalletRecovery(r, u) ==
  /\ Serving /\ request[r] = Idle /\ Live(u) /\ user[u].deployed /\ user[u].wallet
  /\ PlatformDeployed /\ OnChain(user[u].address) /\ Service \in safe[user[u].address].owners
  /\ request' = [request EXCEPT ![r] = [Copy(u, "removeOwner") EXCEPT !.nonce = safe[user[u].address].nonce]]
  /\ UNCHANGED <<db, safe, platform, faults, unrecorded>>

RemoveOwner(r) ==
  LET s == safe[request[r].address] IN
  SelfManage(r, "removeOwner", 0, TRUE, [s EXCEPT !.owners = @ \ {Service}], "clearGuard")

ClearGuard(r) ==
  LET s == safe[request[r].address] IN
  SelfManage(r, "clearGuard", 1, TRUE, [s EXCEPT !.guard = FALSE], "recordDisable")

RecordDisabled(r) ==
  /\ request[r].pc = "recordDisable"
  /\ UpdateUser(request[r].id, [user[request[r].id] EXCEPT !.wallet = FALSE])
  /\ Finish(r)
  /\ UNCHANGED <<wallets, members, groups, code, safe, platform, faults, unrecorded>>

-----------------------------------------------------------------------------
(* Recovery.  A caller proves the new key, every security answer and a     *)
(* code; the code's row is read here and deleted by the last step.         *)
Proves(u, c) == Live(u) /\ user[u].answers /\ code[c] = u
Recovery(r, u, new, c, pc) ==
  request' = [request EXCEPT ![r] = [Copy(u, pc) EXCEPT !.new = new, !.code = c,
                !.nonce = IF OnChain(user[u].address) THEN safe[user[u].address].nonce ELSE 0]]

RecoverWallet(r, u, new, c) ==
  /\ Serving /\ request[r] = Idle /\ Proves(u, c) /\ user[u].wallet
  /\ PlatformDeployed /\ OnChain(user[u].address)
  /\ user[u].signer \in safe[user[u].address].owners  \* FindPrevOwner
  /\ Recovery(r, u, new, c, "swap")
  /\ UNCHANGED <<db, safe, platform, faults, unrecorded>>

\* The recovery service signs swapOwner; the guard lets it through.
Swap(r) ==
  LET q == request[r]
      s == safe[q.address] IN
  /\ q.pc = "swap"
  /\ IF Accepts(q.address, q.nonce, Service) /\ q.new \notin s.owners
       THEN /\ safe' = [safe EXCEPT ![q.address] = [s EXCEPT !.owners = (@ \ {q.signer}) \cup {q.new},
                                                             !.nonce = @ + 1]]
            /\ \/ Goto(r, "recordSwap") /\ UNCHANGED <<faults, unrecorded>>
               \/ Fault /\ Finish(r) /\ unrecorded' = unrecorded \cup {q.address}
       ELSE Finish(r) /\ UNCHANGED <<safe, faults, unrecorded>>
  /\ UNCHANGED <<db, platform>>

\* Mutant: the row is saved as it was read.
RecordSwapAsRead(r) ==
  /\ request[r].pc = "recordSwap" /\ Finish(r)
  /\ UpdateUser(request[r].id, [user[request[r].id] EXCEPT !.signer = request[r].signer])
  /\ UNCHANGED <<wallets, members, groups, code, safe, platform, faults, unrecorded>>

\* One transaction; it fails when another account has the new signer.
RecordSwap(r) ==
  LET q == request[r] IN
  /\ q.pc = "recordSwap" /\ Finish(r)
  /\ IF Live(q.id) /\ \E v \in UserIds \ {q.id} : Live(v) /\ user[v].signer = q.new
       THEN unrecorded' = unrecorded \cup {q.address} /\ UNCHANGED <<user, code>>
       ELSE /\ UpdateUser(q.id, [user[q.id] EXCEPT !.signer = q.new])
            /\ code' = [code EXCEPT ![q.code] = IF @ = q.id THEN 0 ELSE @]
            /\ UNCHANGED unrecorded
  /\ UNCHANGED <<wallets, members, groups, safe, platform, faults>>

Recover(r, u, new, c) ==
  /\ Serving /\ request[r] = Idle /\ Proves(u, c) /\ user[u].account
  /\ Recovery(r, u, new, c, "move")
  /\ UNCHANGED <<db, safe, platform, faults, unrecorded>>

\* One transaction, subject to the unique indexes.  The memberships of the copied
\* address go; the primary wallets' own groups list keys and are not among them,
\* unless the account has been moved before.
MoveAccount(r) ==
  LET q == request[r]
      taken == \/ \E v \in UserIds \ {q.id} : Live(v) /\ (user[v].signer = q.new \/ user[v].address = EOA(q.new))
               \/ \E w \in wallets : w[1] # q.id /\ w[2] = EOA(q.new)
  IN
  /\ q.pc = "move" /\ Finish(r)
  /\ IF taken THEN UNCHANGED db
     ELSE /\ UpdateUser(q.id, [user[q.id] EXCEPT !.address = EOA(q.new), !.signer = q.new])
          /\ wallets' = {w \in wallets : w[1] # q.id} \cup {<<q.id, EOA(q.new)>>}
          /\ code' = [code EXCEPT ![q.code] = IF @ = q.id THEN 0 ELSE @]
          /\ members' = {m \in members : q.address # EOA(m[2])}
          /\ UNCHANGED groups
  /\ UNCHANGED <<safe, platform, faults, unrecorded>>

-----------------------------------------------------------------------------
(* EnsureRecoveryPlatformDeployed, once at boot; an error is only logged.  *)
Boot(from, next) == /\ platform.boot = from /\ platform' = next
                    /\ UNCHANGED <<db, safe, request, unrecorded>>

BootService ==
  /\ Boot("service",
       CASE platform.service -> [platform EXCEPT !.boot = "guard"]
         [] ~platform.service /\ platform.code -> [platform EXCEPT !.boot = "up"] \* the estimate fails
         [] OTHER -> [platform EXCEPT !.code = TRUE, !.boot = "saveService"])
  /\ UNCHANGED faults
BootSaveService ==
  \/ Boot("saveService", [platform EXCEPT !.service = TRUE, !.boot = "guard"]) /\ UNCHANGED faults
  \/ Boot("saveService", [platform EXCEPT !.boot = "up"]) /\ Fault
BootGuard ==
  \/ Boot("guard", [platform EXCEPT !.boot = IF platform.guard THEN "up" ELSE "saveGuard"]) /\ UNCHANGED faults
  \/ ~platform.guard /\ Boot("guard", [platform EXCEPT !.boot = "up"]) /\ Fault
BootSaveGuard ==
  \/ Boot("saveGuard", [platform EXCEPT !.guard = TRUE, !.boot = "up"]) /\ UNCHANGED faults
  \/ Boot("saveGuard", [platform EXCEPT !.boot = "up"]) /\ Fault

-----------------------------------------------------------------------------
(* Failures.                                                               *)
\* A statement or a call fails: the request ends, what it did before stays done.
Fail(r) ==
  /\ Fault /\ request[r] \notin {Idle, Over} /\ Finish(r)
  /\ unrecorded' = unrecorded \cup Swapped({r})
  /\ UNCHANGED <<db, safe, platform>>

Restart ==
  /\ Fault /\ request' = [r \in Requests |-> IF request[r] = Idle THEN Idle ELSE Over]
  /\ unrecorded' = unrecorded \cup Swapped(Requests)
  /\ platform' = [platform EXCEPT !.boot = "service"]
  /\ UNCHANGED <<db, safe>>

\* What the routes of the component serve: the account, its recovery, its wallet's recovery.
AccountRoutes ==
  \E u \in UserIds : \/ \E k \in Keys : Register(u, k)
                     \/ SetSecurityAnswer(u) \/ Delete(u)
                     \/ \E r \in Requests : DeployPrimaryWallet(r, u)
RecoveryRoutes ==
  \E u \in UserIds, c \in Codes :
    \/ \E enabled \in BOOLEAN : SetAccountRecovery(u, enabled)
    \/ RequestRecoveryOTP(u, c)
    \/ \E r \in Requests, new \in Keys : Recover(r, u, new, c)
WalletRecoveryRoutes ==
  \E r \in Requests, u \in UserIds :
    \/ ConfirmEnableWalletRecovery(r, u) \/ ConfirmDisableWalletRecovery(r, u)
    \/ \E new \in Keys, c \in Codes : RecoverWallet(r, u, new, c)

AccountsNext ==
  \/ AccountRoutes \/ RecoveryRoutes \/ WalletRecoveryRoutes
  \/ \E c \in Codes : ExpireOTP(c)
  \/ \E r \in Requests : \/ SubmitDeploy(r) \/ RecordDeploy(r) \/ CreateGroup(r)
                         \/ AddOwner(r) \/ SetGuard(r) \/ RecordEnabled(r)
                         \/ RemoveOwner(r) \/ ClearGuard(r) \/ RecordDisabled(r)
                         \/ Swap(r) \/ RecordSwap(r) \/ MoveAccount(r) \/ Fail(r)
  \/ \E k \in Keys : DeployLands(k)
  \/ BootService \/ BootSaveService \/ BootGuard \/ BootSaveGuard \/ Restart

AccountsSpec == AccountsInit /\ [][AccountsNext]_accountsVars

-----------------------------------------------------------------------------
AccountsTypeOK ==
  /\ user \in [UserIds -> User \cup {NoUser, Deleted}]
  /\ wallets \subseteq UserIds \X Addresses
  /\ members \subseteq Addresses \X Keys /\ groups \subseteq Addresses
  /\ code \in [Codes -> UserIds \cup {0}]
  /\ safe \in [Safes -> Safe]
  /\ platform \in Platform
  /\ request \in [Requests -> Request]
  /\ faults \in 0..MaxFaults /\ unrecorded \subseteq Addresses

\* The recovery service is an owner of an enrolled wallet only under the guard that
\* confines it: enabling installs the guard before the flag is set, disabling removes
\* the owner before the guard, and neither is undone by a recovery in between.
GuardedWhileOwner ==
  \A u \in UserIds : Live(u) /\ user[u].wallet /\ OnChain(user[u].address) =>
    (Service \in safe[user[u].address].owners => safe[user[u].address].guard)

\* The signer on record owns the wallet that was deployed for it, whatever recoveries,
\* deployments, moves and new registrations overlap; the exceptions are the moment
\* between a swap and its record, and the swaps that could not be recorded.
SignerInStep ==
  \A u \in UserIds : Live(u) /\ user[u].deployed /\ OnChain(user[u].address)
                     /\ user[u].address \notin unrecorded \cup Swapped(Requests) =>
    user[u].signer \in safe[user[u].address].owners

=============================================================================
