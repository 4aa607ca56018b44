--------------------------- MODULE AccountsProofs ---------------------------
(***************************************************************************)
(* Proofs about user accounts, for any number of keys, rows, codes,        *)
(* requests and failures.                                                  *)
(***************************************************************************)
EXTENDS Accounts, TLAPS

\* A request under way, and one that submits Safe transactions or records them.
Works(r)   == request[r].pc \notin {"idle", "over"}
Manages(r) == request[r].pc \in {"addOwner", "setGuard", "recordEnable", "removeOwner",
                                 "clearGuard", "recordDisable", "swap", "recordSwap"}
Work == [pc: {"deploy", "recordDeploy", "group", "addOwner", "setGuard", "recordEnable", "removeOwner",
              "clearGuard", "recordDisable", "swap", "recordSwap", "move"},
         id: UserIds, signer: Keys, address: Addresses, new: Keys, code: Codes \cup {0}, nonce: Nat]

\* Addresses of keys and of Safes are different, and those of different keys, too.
LEMMA AddressFacts ==
  /\ \A k \in Keys : SafeOf(k) \in Safes /\ SafeOf(k) \in Addresses /\ EOA(k) \in Addresses
  /\ \A k \in Keys : EOA(k) \notin Safes
  /\ \A j, k \in Keys : SafeOf(j) = SafeOf(k) => j = k
  /\ Safes \subseteq Addresses
BY DEF SafeOf, EOA, Safes, Addresses

\* What the types say about the rows and the requests.
LEMMA StateFacts ==
  ASSUME AccountsTypeOK
  PROVE  /\ \A u \in UserIds : user[u] \in User \cup {NoUser, Deleted}
         /\ \A u \in UserIds : Live(u) => user[u] \in User
         /\ \A r \in Requests : request[r] \in Request
         /\ \A r \in Requests : Works(r) => request[r] \in Work
         /\ \A r \in Requests : request[r] \in {Idle, Over} => ~Works(r)
         /\ \A a \in Safes : safe[a] \in Safe
<1>1. \A u \in UserIds : user[u] \in User \cup {NoUser, Deleted}
  BY DEF AccountsTypeOK
<1>2. \A u \in UserIds : Live(u) => user[u] \in User
  BY <1>1 DEF Live, NoUser, Deleted
<1>3. \A r \in Requests : request[r] \in {Idle, Over} \cup Work
  BY DEF AccountsTypeOK, Request, Work
<1>4. \A r \in Requests : request[r] \in {Idle, Over} => ~Works(r)
  BY DEF Works, Idle, Over
<1> QED
  BY <1>1, <1>2, <1>3, <1>4 DEF AccountsTypeOK, Request, Work

LEMMA RowFacts ==
  ASSUME NEW row \in User
  PROVE  /\ row.status = "live" /\ row.signer \in Keys /\ row.address \in Addresses
         /\ row.deployed \in BOOLEAN /\ row.account \in BOOLEAN
         /\ row.wallet \in BOOLEAN /\ row.answers \in BOOLEAN
         /\ row \notin {NoUser, Deleted}
         /\ [row EXCEPT !.deployed = TRUE] \in User
         /\ \A b \in BOOLEAN : [row EXCEPT !.wallet = b] \in User
         /\ \A b \in BOOLEAN : [row EXCEPT !.account = b] \in User
         /\ [row EXCEPT !.answers = TRUE] \in User
         /\ \A k \in Keys : [row EXCEPT !.signer = k] \in User
         /\ \A k \in Keys : [row EXCEPT !.address = EOA(k), !.signer = k] \in User
<1>1. row.status = "live" /\ row \notin {NoUser, Deleted}
  BY DEF User, NoUser, Deleted
<1> QED
  BY <1>1, AddressFacts DEF User

LEMMA WorkFacts ==
  ASSUME NEW q \in Work
  PROVE  /\ q.id \in UserIds /\ q.signer \in Keys /\ q.address \in Addresses
         /\ q.new \in Keys /\ q.code \in Codes \cup {0} /\ q.nonce \in Nat
         /\ q.pc \notin {"idle", "over"} /\ q \in Request
BY DEF Work, Request

LEMMA SafeFacts ==
  ASSUME NEW s \in Safe
  PROVE  /\ s.state \in {"absent", "pending", "deployed"} /\ s.owners \subseteq Keys \cup {Service}
         /\ s.guard \in BOOLEAN /\ s.nonce \in Nat
BY DEF Safe

-----------------------------------------------------------------------------
Users == [UserIds -> User \cup {NoUser, Deleted}]
Pcs   == {"deploy", "recordDeploy", "group", "addOwner", "setGuard", "recordEnable", "removeOwner",
          "clearGuard", "recordDisable", "swap", "recordSwap", "move"}

\* How a request ends, goes on, and begins.
LEMMA FinishEffect ==
  ASSUME AccountsTypeOK, NEW r \in Requests, Finish(r)
  PROVE  /\ request' \in [Requests -> Request]
         /\ request'[r] = Over
         /\ \A s \in Requests : s # r => request'[s] = request[s]
BY DEF Finish, AccountsTypeOK, Request

LEMMA GotoEffect ==
  ASSUME AccountsTypeOK, NEW r \in Requests, Works(r), NEW pc \in Pcs, Goto(r, pc)
  PROVE  /\ request' \in [Requests -> Request]
         /\ request'[r] = [request[r] EXCEPT !.pc = pc]
         /\ request'[r] \in Work /\ request'[r].pc = pc
         /\ request'[r].id = request[r].id /\ request'[r].address = request[r].address
         /\ request'[r].signer = request[r].signer /\ request'[r].new = request[r].new
         /\ request'[r].nonce = request[r].nonce /\ request'[r].code = request[r].code
         /\ \A s \in Requests : s # r => request'[s] = request[s]
<1>1. request[r] \in Work /\ request \in [Requests -> Request]
  BY StateFacts DEF AccountsTypeOK
<1>2. request' = [request EXCEPT ![r] = [request[r] EXCEPT !.pc = pc]]
  BY <1>1 DEF Goto
<1>3. [request[r] EXCEPT !.pc = pc] \in Work
  BY <1>1 DEF Work, Pcs
<1>4. [request[r] EXCEPT !.pc = pc] \in Request
  BY <1>3, WorkFacts
<1>5. request'[r] = [request[r] EXCEPT !.pc = pc]
  BY <1>1, <1>2
<1>6. /\ request'[r].pc = pc
      /\ request'[r].id = request[r].id /\ request'[r].address = request[r].address
      /\ request'[r].signer = request[r].signer /\ request'[r].new = request[r].new
      /\ request'[r].nonce = request[r].nonce /\ request'[r].code = request[r].code
  BY <1>1, <1>5 DEF Work
<1> QED
  BY <1>1, <1>2, <1>3, <1>4, <1>5, <1>6

LEMMA BeginEffect ==
  ASSUME AccountsTypeOK, NEW r \in Requests, NEW q \in Work, request' = [request EXCEPT ![r] = q]
  PROVE  /\ request' \in [Requests -> Request]
         /\ request'[r] = q
         /\ \A s \in Requests : s # r => request'[s] = request[s]
BY WorkFacts DEF AccountsTypeOK

LEMMA CopyFacts ==
  ASSUME AccountsTypeOK, NEW u \in UserIds, Live(u), NEW pc \in Pcs
  PROVE  /\ Copy(u, pc) \in Work
         /\ Copy(u, pc).pc = pc /\ Copy(u, pc).id = u
         /\ Copy(u, pc).address = user[u].address /\ Copy(u, pc).signer = user[u].signer
         /\ \A n \in Nat : [Copy(u, pc) EXCEPT !.nonce = n] \in Work
         /\ \A n \in Nat : /\ [Copy(u, pc) EXCEPT !.nonce = n].pc = pc
                           /\ [Copy(u, pc) EXCEPT !.nonce = n].id = u
                           /\ [Copy(u, pc) EXCEPT !.nonce = n].address = user[u].address
                           /\ [Copy(u, pc) EXCEPT !.nonce = n].signer = user[u].signer
                           /\ [Copy(u, pc) EXCEPT !.nonce = n].nonce = n
BY StateFacts DEF Copy, Work, Pcs, User

\* An UPDATE changes the row it names, and that only while it is there.
LEMMA UpdateEffect ==
  ASSUME AccountsTypeOK, NEW u \in UserIds, NEW row, Live(u) => row \in User, UpdateUser(u, row)
  PROVE  /\ user' \in Users
         /\ Live(u) => user'[u] = row
         /\ ~Live(u) => user'[u] = user[u]
         /\ \A v \in UserIds : v # u => user'[v] = user[v]
BY DEF UpdateUser, AccountsTypeOK, Users

LEMMA FaultType ==
  ASSUME AccountsTypeOK, Fault
  PROVE  faults' \in 0..MaxFaults
BY AccountsAssumption DEF Fault, AccountsTypeOK
-----------------------------------------------------------------------------
\* Routes that only start a request leave everything else alone.
LEMMA StartType ==
  ASSUME AccountsTypeOK, NEW r \in Requests, NEW u \in UserIds, NEW q \in Work,
         request' = [request EXCEPT ![r] = q],
         UNCHANGED <<db, safe, platform, faults, unrecorded>>
  PROVE  AccountsTypeOK'
BY BeginEffect DEF AccountsTypeOK, db

LEMMA RoutesType ==
  ASSUME AccountsTypeOK, AccountRoutes \/ RecoveryRoutes \/ WalletRecoveryRoutes
  PROVE  AccountsTypeOK'
<1>1. ASSUME NEW u \in UserIds, NEW k \in Keys, Register(u, k) PROVE AccountsTypeOK'
  <2>1. [status |-> "live", signer |-> k, address |-> SafeOf(k), deployed |-> FALSE,
         account |-> FALSE, wallet |-> FALSE, answers |-> FALSE] \in User
    BY AddressFacts DEF User
  <2>2. <<u, SafeOf(k)>> \in UserIds \X Addresses
    BY AddressFacts
  <2> QED
    BY <1>1, <2>1, <2>2 DEF Register, AccountsTypeOK
<1>2. ASSUME NEW u \in UserIds, SetSecurityAnswer(u) PROVE AccountsTypeOK'
  <2>1. [user[u] EXCEPT !.answers = TRUE] \in User
    BY <1>2, StateFacts, RowFacts DEF SetSecurityAnswer
  <2> QED
    BY <1>2, <2>1 DEF SetSecurityAnswer, AccountsTypeOK
<1>3. ASSUME NEW u \in UserIds, NEW enabled \in BOOLEAN, SetAccountRecovery(u, enabled) PROVE AccountsTypeOK'
  <2>1. [user[u] EXCEPT !.account = enabled] \in User
    BY <1>3, StateFacts, RowFacts DEF SetAccountRecovery
  <2> QED
    BY <1>3, <2>1 DEF SetAccountRecovery, AccountsTypeOK
<1>4. ASSUME NEW u \in UserIds, Delete(u) PROVE AccountsTypeOK'
  BY <1>4 DEF Delete, AccountsTypeOK
<1>5. ASSUME NEW u \in UserIds, NEW c \in Codes, RequestRecoveryOTP(u, c) PROVE AccountsTypeOK'
  BY <1>5 DEF RequestRecoveryOTP, AccountsTypeOK
<1>6. ASSUME NEW r \in Requests, NEW u \in UserIds, DeployPrimaryWallet(r, u) PROVE AccountsTypeOK'
  <2>1. Live(u) /\ user[u].address \in Addresses /\ user[u].signer \in Keys
    BY <1>6, StateFacts, RowFacts DEF DeployPrimaryWallet
  <2>2. Copy(u, "group").address = user[u].address /\ Copy(u, "group").signer = user[u].signer
    BY DEF Copy
  <2>3. CASE user[u].deployed
    <3>1. groups' \subseteq Addresses /\ members' \subseteq Addresses \X Keys
      BY <1>6, <2>1, <2>2, <2>3 DEF DeployPrimaryWallet, WithGroup, AccountsTypeOK
    <3>2. request' \in [Requests -> Request]
      BY <1>6, <2>3, FinishEffect DEF DeployPrimaryWallet
    <3> QED
      BY <1>6, <3>1, <3>2 DEF DeployPrimaryWallet, AccountsTypeOK
  <2>4. CASE ~user[u].deployed
    <3>1. Copy(u, "deploy") \in Work
      BY <2>1, CopyFacts DEF Pcs
    <3> QED
      BY <1>6, <2>4, <3>1, StartType DEF DeployPrimaryWallet, db
  <2> QED
    BY <2>3, <2>4
<1>7. ASSUME NEW r \in Requests, NEW u \in UserIds, NEW new \in Keys, NEW c \in Codes, NEW pc \in Pcs,
             Live(u), Recovery(r, u, new, c, pc), UNCHANGED <<db, safe, platform, faults, unrecorded>>
      PROVE  AccountsTypeOK'
  <2> DEFINE n == IF OnChain(user[u].address) THEN safe[user[u].address].nonce ELSE 0
             q == [Copy(u, pc) EXCEPT !.new = new, !.code = c, !.nonce = n]
  <2>1. n \in Nat
    <3>1. CASE ~OnChain(user[u].address)
      BY <3>1
    <3>2. CASE OnChain(user[u].address)
      BY <3>2, StateFacts, SafeFacts DEF OnChain
    <3> QED
      BY <3>1, <3>2
  <2>2. q \in Work
    <3>1. Copy(u, pc) \in Work
      BY <1>7, CopyFacts
    <3> QED
      BY <2>1, <3>1 DEF Work
  <2>3. request' = [request EXCEPT ![r] = q]
    BY <1>7 DEF Recovery
  <2> QED
    BY <1>7, <2>2, <2>3, StartType
<1>8. ASSUME NEW r \in Requests, NEW u \in UserIds,
             ConfirmEnableWalletRecovery(r, u) \/ ConfirmDisableWalletRecovery(r, u)
      PROVE  AccountsTypeOK'
  <2>1. Live(u) /\ safe[user[u].address].nonce \in Nat
    BY <1>8, StateFacts, SafeFacts DEF ConfirmEnableWalletRecovery, ConfirmDisableWalletRecovery, OnChain
  <2>2. /\ [Copy(u, "addOwner") EXCEPT !.nonce = safe[user[u].address].nonce] \in Work
        /\ [Copy(u, "removeOwner") EXCEPT !.nonce = safe[user[u].address].nonce] \in Work
    BY <2>1, CopyFacts DEF Pcs
  <2> QED
    BY <1>8, <2>2, StartType DEF ConfirmEnableWalletRecovery, ConfirmDisableWalletRecovery
<1>9. "swap" \in Pcs /\ "move" \in Pcs
  BY DEF Pcs
<1>10. ASSUME NEW r \in Requests, NEW u \in UserIds, NEW new \in Keys, NEW c \in Codes,
              RecoverWallet(r, u, new, c) \/ Recover(r, u, new, c)
       PROVE  AccountsTypeOK'
  BY <1>7, <1>9, <1>10 DEF RecoverWallet, Recover, Proves
<1> QED
  BY <1>1, <1>2, <1>3, <1>4, <1>5, <1>6, <1>8, <1>10
     DEF AccountRoutes, RecoveryRoutes, WalletRecoveryRoutes

-----------------------------------------------------------------------------
\* A transaction of a Safe that its owner signs lands or not; the request goes on or ends.
LEMMA SelfManageType ==
  ASSUME AccountsTypeOK, NEW r \in Requests, NEW from \in Pcs, NEW offset \in Nat, NEW fits \in BOOLEAN,
         NEW changed, NEW next \in Pcs, request[r].address \in Safes => changed \in Safe,
         SelfManage(r, from, offset, fits, changed, next)
  PROVE  AccountsTypeOK'
<1> DEFINE a == request[r].address
<1>1. Works(r) /\ request[r] \in Work
  BY StateFacts DEF SelfManage, Pcs, Works
<1>2. safe' \in [Safes -> Safe]
  <2>1. CASE UNCHANGED safe
    BY <2>1 DEF AccountsTypeOK
  <2>2. CASE safe' = [safe EXCEPT ![a] = [changed EXCEPT !.nonce = @ + 1]]
    <3>1. CASE a \in Safes
      <4>1. [changed EXCEPT !.nonce = @ + 1] \in Safe
        BY <3>1 DEF Safe
      <4> QED
        BY <2>2, <3>1, <4>1 DEF AccountsTypeOK
    <3>2. CASE a \notin Safes
      BY <2>2, <3>2 DEF AccountsTypeOK
    <3> QED
      BY <3>1, <3>2
  <2> QED
    BY <2>1, <2>2 DEF SelfManage
<1>3. request' \in [Requests -> Request]
  BY <1>1, FinishEffect, GotoEffect DEF SelfManage
<1>4. faults' \in 0..MaxFaults
  BY FaultType DEF SelfManage, AccountsTypeOK
<1> QED
  BY <1>2, <1>3, <1>4 DEF SelfManage, AccountsTypeOK, db

LEMMA ManageType ==
  ASSUME AccountsTypeOK, NEW r \in Requests, AddOwner(r) \/ SetGuard(r) \/ RemoveOwner(r) \/ ClearGuard(r)
  PROVE  AccountsTypeOK'
<1> DEFINE s == safe[request[r].address]
<1>1. request[r].address \in Safes =>
        /\ [s EXCEPT !.owners = @ \cup {Service}] \in Safe /\ [s EXCEPT !.owners = @ \ {Service}] \in Safe
        /\ [s EXCEPT !.guard = TRUE] \in Safe /\ [s EXCEPT !.guard = FALSE] \in Safe
  BY DEF AccountsTypeOK, Safe
<1>2. {"addOwner", "setGuard", "recordEnable", "removeOwner", "clearGuard", "recordDisable"} \subseteq Pcs
      /\ 0 \in Nat /\ 1 \in Nat
  BY DEF Pcs
<1>3. CASE AddOwner(r)
  <2>1. (Service \notin s.owners) \in BOOLEAN
    OBVIOUS
  <2> QED
    BY <1>1, <1>2, <1>3, <2>1, SelfManageType DEF AddOwner
<1>4. CASE SetGuard(r)
  BY <1>1, <1>2, <1>4, SelfManageType DEF SetGuard
<1>5. CASE RemoveOwner(r)
  BY <1>1, <1>2, <1>5, SelfManageType DEF RemoveOwner
<1>6. CASE ClearGuard(r)
  BY <1>1, <1>2, <1>6, SelfManageType DEF ClearGuard
<1> QED
  BY <1>3, <1>4, <1>5, <1>6

LEMMA RequestStepType ==
  ASSUME AccountsTypeOK, NEW r \in Requests,
         \/ SubmitDeploy(r) \/ RecordDeploy(r) \/ CreateGroup(r) \/ RecordEnabled(r)
         \/ RecordDisabled(r) \/ Swap(r) \/ RecordSwap(r) \/ MoveAccount(r) \/ Fail(r)
  PROVE  AccountsTypeOK'
<1> DEFINE q == request[r]
<1>0. Works(r) /\ q \in Work
  <2>1. request[r] \notin {Idle, Over}
    BY DEF SubmitDeploy, RecordDeploy, CreateGroup, RecordEnabled, RecordDisabled, Swap, RecordSwap,
           MoveAccount, Fail, Idle, Over
  <2> QED
    BY <2>1, StateFacts DEF Request, Work, Works
<1>1. /\ q.id \in UserIds /\ q.signer \in Keys /\ q.address \in Addresses /\ q.new \in Keys
  BY <1>0, WorkFacts
<1>u. Live(q.id) => user[q.id] \in User
  BY <1>1, StateFacts
<1>p. "recordDeploy" \in Pcs /\ "group" \in Pcs /\ "recordSwap" \in Pcs
  BY DEF Pcs
<1> HIDE DEF q
<1>2. CASE SubmitDeploy(r)
  <2>1. safe' \in [Safes -> Safe]
    <3>1. SafeOf(request[r].signer) \in Safes
      BY <1>1, AddressFacts DEF q
    <3> QED
      BY <1>2, <3>1 DEF SubmitDeploy, AccountsTypeOK, Safe
  <2>2. request' \in [Requests -> Request]
    BY <1>0, <1>2, <1>p, FinishEffect, GotoEffect DEF SubmitDeploy
  <2> QED
    BY <1>2, <2>1, <2>2 DEF SubmitDeploy, AccountsTypeOK, db
<1>3. CASE RecordDeploy(r)
  <2>1. user' \in Users
    BY <1>1, <1>3, <1>u, RowFacts, UpdateEffect DEF RecordDeploy, q
  <2>2. request' \in [Requests -> Request]
    BY <1>0, <1>3, <1>p, GotoEffect DEF RecordDeploy
  <2> QED
    BY <1>3, <2>1, <2>2 DEF RecordDeploy, AccountsTypeOK, Users
<1>4. CASE CreateGroup(r)
  <2>1. request' \in [Requests -> Request]
    BY <1>4, FinishEffect DEF CreateGroup
  <2>2. groups' \subseteq Addresses /\ members' \subseteq Addresses \X Keys
    BY <1>1, <1>4 DEF CreateGroup, WithGroup, AccountsTypeOK, q
  <2> QED
    BY <1>4, <2>1, <2>2 DEF CreateGroup, AccountsTypeOK
<1>5. CASE RecordEnabled(r)
  <2>1. user' \in Users
    BY <1>1, <1>5, <1>u, RowFacts, UpdateEffect DEF RecordEnabled, q
  <2>2. request' \in [Requests -> Request]
    BY <1>5, FinishEffect DEF RecordEnabled
  <2> QED
    BY <1>5, <2>1, <2>2 DEF RecordEnabled, AccountsTypeOK, Users
<1>6. CASE RecordDisabled(r)
  <2>1. user' \in Users
    BY <1>1, <1>6, <1>u, RowFacts, UpdateEffect DEF RecordDisabled, q
  <2>2. request' \in [Requests -> Request]
    BY <1>6, FinishEffect DEF RecordDisabled
  <2> QED
    BY <1>6, <2>1, <2>2 DEF RecordDisabled, AccountsTypeOK, Users
<1>7. CASE Swap(r)
  <2> DEFINE s == safe[q.address]
             t == [s EXCEPT !.owners = (s.owners \ {q.signer}) \cup {q.new}, !.nonce = s.nonce + 1]
  <2>1. safe' \in [Safes -> Safe]
    <3>1. safe' = safe \/ safe' = [safe EXCEPT ![q.address] = t]
      BY <1>7 DEF Swap, q
    <3>2. ASSUME q.address \in Safes PROVE t \in Safe
      <4>1. s \in Safe
        BY <3>2 DEF AccountsTypeOK
      <4> HIDE DEF s
      <4>2. (s.owners \ {q.signer}) \cup {q.new} \in SUBSET (Keys \cup {Service}) /\ s.nonce + 1 \in Nat
        BY <1>1, <4>1 DEF Safe
      <4> QED
        BY <4>1, <4>2 DEF Safe
    <3> HIDE DEF t
    <3> QED
      BY <3>1, <3>2 DEF AccountsTypeOK
  <2>2. request' \in [Requests -> Request]
    BY <1>0, <1>7, <1>p, FinishEffect, GotoEffect DEF Swap
  <2>3. faults' \in 0..MaxFaults /\ unrecorded' \subseteq Addresses
    BY <1>1, <1>7, FaultType DEF Swap, AccountsTypeOK, q
  <2> QED
    BY <1>7, <2>1, <2>2, <2>3 DEF Swap, AccountsTypeOK, db
<1>8. CASE RecordSwap(r)
  <2>1. user' \in Users /\ code' \in [Codes -> UserIds \cup {0}] /\ unrecorded' \subseteq Addresses
    <3>1. CASE UNCHANGED <<user, code>> /\ unrecorded' = unrecorded \cup {q.address}
      BY <1>1, <3>1 DEF AccountsTypeOK, Users
    <3>2. CASE /\ UpdateUser(q.id, [user[q.id] EXCEPT !.signer = q.new])
               /\ code' = [code EXCEPT ![q.code] = IF @ = q.id THEN 0 ELSE @]
               /\ UNCHANGED unrecorded
      <4>1. user' \in Users
        BY <1>1, <1>u, <3>2, RowFacts, UpdateEffect
      <4>2. code' \in [Codes -> UserIds \cup {0}]
        BY <3>2 DEF AccountsTypeOK
      <4> QED
        BY <3>2, <4>1, <4>2 DEF AccountsTypeOK
    <3> QED
      BY <1>8, <3>1, <3>2 DEF RecordSwap, q
  <2>2. request' \in [Requests -> Request]
    BY <1>8, FinishEffect DEF RecordSwap
  <2> QED
    BY <1>8, <2>1, <2>2 DEF RecordSwap, AccountsTypeOK, Users
<1>9. CASE MoveAccount(r)
  <2>1. request' \in [Requests -> Request]
    BY <1>9, FinishEffect DEF MoveAccount
  <2>2. CASE UNCHANGED db
    BY <1>9, <2>1, <2>2 DEF MoveAccount, AccountsTypeOK, db
  <2>3. CASE ~UNCHANGED db
    <3>1. /\ UpdateUser(q.id, [user[q.id] EXCEPT !.address = EOA(q.new), !.signer = q.new])
          /\ wallets' = {w \in wallets : w[1] # q.id} \cup {<<q.id, EOA(q.new)>>}
          /\ code' = [code EXCEPT ![q.code] = IF @ = q.id THEN 0 ELSE @]
          /\ members' = {m \in members : q.address # EOA(m[2])}
          /\ UNCHANGED groups
      BY <1>9, <2>3 DEF MoveAccount, q
    <3>2. user' \in Users
      BY <1>1, <1>u, <3>1, RowFacts, UpdateEffect
    <3>3. wallets' \subseteq UserIds \X Addresses /\ members' \subseteq Addresses \X Keys
      BY <1>1, <3>1, AddressFacts DEF AccountsTypeOK
    <3>4. code' \in [Codes -> UserIds \cup {0}]
      BY <3>1 DEF AccountsTypeOK
    <3> QED
      BY <1>9, <2>1, <3>1, <3>2, <3>3, <3>4 DEF MoveAccount, AccountsTypeOK, Users
  <2> QED
    BY <2>2, <2>3
<1>10. CASE Fail(r)
  <2>1. Swapped({r}) \subseteq Addresses
    BY <1>1 DEF Swapped, q
  <2> QED
    BY <1>10, <2>1, FinishEffect, FaultType DEF Fail, AccountsTypeOK, db
<1> QED
  BY <1>2, <1>3, <1>4, <1>5, <1>6, <1>7, <1>8, <1>9, <1>10

LEMMA OtherType ==
  ASSUME AccountsTypeOK,
         \/ \E c \in Codes : ExpireOTP(c)
         \/ \E k \in Keys : DeployLands(k)
         \/ BootService \/ BootSaveService \/ BootGuard \/ BootSaveGuard \/ Restart
  PROVE  AccountsTypeOK'
<1>1. ASSUME NEW c \in Codes, ExpireOTP(c) PROVE AccountsTypeOK'
  BY <1>1 DEF ExpireOTP, AccountsTypeOK
<1>2. ASSUME NEW k \in Keys, DeployLands(k) PROVE AccountsTypeOK'
  <2>1. SafeOf(k) \in Safes
    BY AddressFacts
  <2> DEFINE new == [safe[SafeOf(k)] EXCEPT !.state = "deployed", !.owners = {k}]
  <2>2. new \in Safe
    BY <2>1 DEF AccountsTypeOK, Safe
  <2>3. safe' = [safe EXCEPT ![SafeOf(k)] = new] /\ UNCHANGED <<db, request, platform, faults, unrecorded>>
    BY <1>2 DEF DeployLands
  <2> HIDE DEF new
  <2> QED
    BY <2>1, <2>2, <2>3 DEF AccountsTypeOK, db
<1>3. CASE BootService \/ BootSaveService \/ BootGuard \/ BootSaveGuard
  <2>1. platform' \in Platform /\ UNCHANGED <<db, safe, request, unrecorded>>
    <3>1. CASE BootService
      BY <3>1 DEF BootService, Boot, AccountsTypeOK, Platform
    <3>2. CASE BootSaveService
      BY <3>2 DEF BootSaveService, Boot, AccountsTypeOK, Platform
    <3>3. CASE BootGuard
      BY <3>3 DEF BootGuard, Boot, AccountsTypeOK, Platform
    <3>4. CASE BootSaveGuard
      BY <3>4 DEF BootSaveGuard, Boot, AccountsTypeOK, Platform
    <3> QED
      BY <1>3, <3>1, <3>2, <3>3, <3>4
  <2>2. faults' \in 0..MaxFaults
    BY <1>3, FaultType DEF BootService, BootSaveService, BootGuard, BootSaveGuard, AccountsTypeOK
  <2> QED
    BY <2>1, <2>2 DEF AccountsTypeOK, db
<1>4. CASE Restart
  <2>1. request' \in [Requests -> Request]
    BY <1>4 DEF Restart, Request
  <2>2. platform' \in Platform
    BY <1>4 DEF Restart, AccountsTypeOK, Platform
  <2>3. Swapped(Requests) \subseteq Addresses
    <3>1. ASSUME NEW r \in Requests, request[r].pc = "recordSwap" PROVE request[r].address \in Addresses
      BY <3>1, StateFacts, WorkFacts DEF Works
    <3> QED
      BY <3>1 DEF Swapped
  <2> QED
    BY <1>4, <2>1, <2>2, <2>3, FaultType DEF Restart, AccountsTypeOK, db
<1> QED
  BY <1>1, <1>2, <1>3, <1>4

LEMMA TypeStep == AccountsTypeOK /\ [AccountsNext]_accountsVars => AccountsTypeOK'
<1> SUFFICES ASSUME AccountsTypeOK, [AccountsNext]_accountsVars PROVE AccountsTypeOK'
  OBVIOUS
<1>1. CASE UNCHANGED accountsVars
  BY <1>1 DEF accountsVars, db, AccountsTypeOK
<1> QED
  BY <1>1, RoutesType, ManageType, RequestStepType, OtherType DEF AccountsNext

LEMMA TypeInit == AccountsInit => AccountsTypeOK
BY AccountsAssumption DEF AccountsInit, Empty, AccountsTypeOK, Request, Safe, Platform

\* Every reachable state is well typed.
THEOREM AccountsTyping == AccountsSpec => []AccountsTypeOK
  BY TypeInit, TypeStep, PTL DEF AccountsSpec

-----------------------------------------------------------------------------
(* Why the guard is there while the service is an owner.  A request that   *)
(* submits a Safe transaction is current as long as the Safe's nonce is    *)
(* the one its signatures were made for: for its first transaction, or its *)
(* second.                                                                 *)
LivesAt(u, a) == Live(u) /\ user[u].address = a
First(r)  == /\ request[r].pc \in {"addOwner", "removeOwner", "swap"}
             /\ safe[request[r].address].nonce = request[r].nonce
Second(r) == /\ request[r].pc \in {"setGuard", "clearGuard"}
             /\ safe[request[r].address].nonce = request[r].nonce + 1

\* A Safe's address is that of one live row at most; only a deployed wallet is enrolled,
\* and until it is deployed it is that of the signer on record.
RowsInv ==
  /\ \A u \in UserIds : Live(u) /\ user[u].address \in Safes => <<u, user[u].address>> \in wallets
  /\ \A u, v \in UserIds, a \in Safes : <<u, a>> \in wallets /\ <<v, a>> \in wallets => u = v
  /\ \A u \in UserIds : Live(u) /\ user[u].wallet => user[u].deployed
  /\ \A u \in UserIds : Live(u) /\ user[u].address \in Safes /\ (~user[u].deployed \/ ~OnChain(user[u].address))
        => user[u].address = SafeOf(user[u].signer)

\* A request's copy names the row's Safe, unless the account was moved meanwhile, and
\* its signatures are not ahead of the Safe.
RequestInv ==
  \A r \in Requests :
    /\ Works(r) => user[request[r].id].status # "none"
    /\ Works(r) /\ Live(request[r].id) /\ user[request[r].id].address \in Safes
         => user[request[r].id].address = request[r].address
    /\ Manages(r) => OnChain(request[r].address) /\ (Live(request[r].id) => user[request[r].id].deployed)
    /\ request[r].pc = "deploy" /\ Live(request[r].id) /\ user[request[r].id].address \in Safes
         => request[r].address = SafeOf(request[r].signer)
    /\ request[r].pc \in {"addOwner", "removeOwner", "swap"}
         => request[r].nonce <= safe[request[r].address].nonce
    /\ request[r].pc \in {"setGuard", "clearGuard"}
         => request[r].nonce + 1 <= safe[request[r].address].nonce

\* While an enrolment waits to be recorded, nobody can take it apart; one that waits for
\* its guard is not recorded; and who clears a guard has removed the owner.
EnrolmentInv(r) ==
  /\ request[r].pc = "recordEnable" =>
       /\ Service \in safe[request[r].address].owners /\ safe[request[r].address].guard
       /\ \A u \in UserIds : LivesAt(u, request[r].address) => ~user[u].wallet
       /\ \A s \in Requests : request[s].pc = "recordEnable" /\ request[s].address = request[r].address => s = r
       /\ \A s \in Requests : First(s) /\ request[s].pc = "removeOwner"
                                 => request[s].address # request[r].address
  /\ request[r].pc = "setGuard" /\ Second(r) =>
       /\ Service \in safe[request[r].address].owners
       /\ \A u \in UserIds : LivesAt(u, request[r].address) => ~user[u].wallet
       /\ \A s \in Requests : request[s].pc = "recordEnable" => request[s].address # request[r].address
  /\ request[r].pc = "addOwner" /\ First(r) /\ Service \notin safe[request[r].address].owners =>
       \A u \in UserIds : LivesAt(u, request[r].address) => ~user[u].wallet
  /\ request[r].pc = "clearGuard" /\ Second(r) => Service \notin safe[request[r].address].owners
GuardInv == GuardedWhileOwner /\ \A r \in Requests : EnrolmentInv(r)

\* A row that came to an address whose wallet was already there never counts as deployed;
\* any other fits its wallet, and nobody else has requests for that.
Late(u) == ~user[u].deployed /\ \A r \in Requests : request[r].pc = "recordDeploy" => request[r].id # u
Fits(u) == /\ \/ user[u].signer \in safe[user[u].address].owners
              \/ user[u].address \in unrecorded \cup Swapped(Requests)
           /\ \A r \in Requests : Manages(r) /\ request[r].address = user[u].address => request[r].id = u
\* A swap is recorded before the next one starts.
SwapInv(r) ==
  /\ request[r].pc = "recordSwap" =>
       /\ request[r].new \in safe[request[r].address].owners
       /\ request[r].signer \notin safe[request[r].address].owners
       /\ LivesAt(request[r].id, request[r].address) => user[request[r].id].signer = request[r].signer
       /\ \A s \in Requests : request[s].pc = "recordSwap" /\ request[s].address = request[r].address => s = r
  /\ request[r].pc = "swap" /\ First(r) =>
       /\ request[r].signer \in safe[request[r].address].owners
       /\ LivesAt(request[r].id, request[r].address) => user[request[r].id].signer = request[r].signer
       /\ \A s \in Requests : request[s].pc = "recordSwap" => request[s].address # request[r].address
SignerInv ==
  /\ \A u \in UserIds : Live(u) /\ OnChain(user[u].address) => Late(u) \/ Fits(u)
  /\ \A r \in Requests : SwapInv(r)

AccountsInv == AccountsTypeOK /\ RowsInv /\ RequestInv /\ GuardInv /\ SignerInv

\* What the invariants need of the types.
LEMMA TypeFacts ==
  ASSUME AccountsTypeOK
  PROVE  /\ \A u \in UserIds : Live(u) => /\ user[u].signer \in Keys /\ user[u].address \in Addresses
                                          /\ user[u].deployed \in BOOLEAN /\ user[u].wallet \in BOOLEAN
                                          /\ user[u].status = "live"
         /\ \A r \in Requests : Works(r) => /\ request[r].id \in UserIds /\ request[r].signer \in Keys
                                            /\ request[r].address \in Addresses /\ request[r].new \in Keys
                                            /\ request[r].nonce \in Nat
         /\ \A a \in Safes : /\ safe[a].owners \subseteq Keys \cup {Service} /\ safe[a].nonce \in Nat
                             /\ safe[a].guard \in BOOLEAN
         /\ \A r \in Requests : Manages(r) => Works(r)
         /\ \A r \in Requests : First(r) \/ Second(r) => Manages(r)
BY StateFacts, RowFacts, WorkFacts, SafeFacts DEF Works, Manages, First, Second

-----------------------------------------------------------------------------
\* A step that leaves Safes and wallet rows alone, changes rows but for what the
\* invariants are about, and at most ends requests.
Quiet ==
  /\ safe' = safe /\ wallets' = wallets
  /\ \A u \in UserIds :
       \/ user'[u] = user[u]
       \/ user[u].status # "none" /\ user'[u].status = "deleted"
       \/ /\ Live(u) /\ Live(u)' /\ user'[u].address = user[u].address /\ user'[u].signer = user[u].signer
          /\ user'[u].deployed = user[u].deployed /\ (user'[u].wallet => user[u].wallet)
  /\ \A r \in Requests : request'[r] = request[r] \/ ~Works(r)'
  /\ unrecorded \subseteq unrecorded'
  /\ \A r \in Requests : request[r].pc = "recordSwap" /\ request'[r] # request[r]
                           => request[r].address \in unrecorded'

LEMMA QuietRows ==
  ASSUME AccountsInv, Quiet
  PROVE  RowsInv'
<1>1. \A u \in UserIds : Live(u)' => /\ Live(u) /\ user'[u].address = user[u].address
                                     /\ user'[u].signer = user[u].signer
                                     /\ user'[u].deployed = user[u].deployed
                                     /\ (user'[u].wallet => user[u].wallet)
  BY DEF Quiet, Live
<1> QED
  BY <1>1 DEF AccountsInv, RowsInv, OnChain, Quiet

LEMMA QuietRequests ==
  ASSUME AccountsInv, Quiet
  PROVE  RequestInv'
<1>1. \A u \in UserIds : Live(u)' => /\ Live(u) /\ user'[u].address = user[u].address
                                     /\ user'[u].deployed = user[u].deployed
  BY DEF Quiet, Live
<1>2. \A u \in UserIds : user[u].status # "none" => user'[u].status # "none"
  BY DEF Quiet, Live
<1>3. \A r \in Requests : Works(r)' => Works(r) /\ request'[r] = request[r]
  BY DEF Quiet, Works
<1>4. \A r \in Requests : Works(r) => request[r].id \in UserIds
  BY TypeFacts DEF AccountsInv
<1>5. \A r \in Requests : Manages(r)' => Works(r)' /\ Manages(r)
  BY <1>3 DEF Manages, Works
<1>6. safe' = safe /\ \A a : OnChain(a)' = OnChain(a)
  BY DEF Quiet, OnChain
<1> SUFFICES ASSUME NEW r \in Requests, Works(r)'
             PROVE  /\ user'[request'[r].id].status # "none"
                    /\ Live(request[r].id)' /\ user'[request'[r].id].address \in Safes
                         => user'[request'[r].id].address = request'[r].address
                    /\ Manages(r)' => OnChain(request[r].address)' /\ (Live(request[r].id)' => user'[request'[r].id].deployed)
                    /\ request'[r].pc = "deploy" /\ Live(request[r].id)' /\ user'[request'[r].id].address \in Safes
                         => request'[r].address = SafeOf(request'[r].signer)
                    /\ request'[r].pc \in {"addOwner", "removeOwner", "swap"}
                         => request'[r].nonce <= safe'[request'[r].address].nonce
                    /\ request'[r].pc \in {"setGuard", "clearGuard"}
                         => request'[r].nonce + 1 <= safe'[request'[r].address].nonce
  BY <1>5 DEF RequestInv, Works
<1> QED
  BY <1>1, <1>2, <1>3, <1>4, <1>5, <1>6 DEF AccountsInv, RequestInv

LEMMA QuietGuard ==
  ASSUME AccountsInv, Quiet
  PROVE  GuardInv'
<1>1. \A u \in UserIds : Live(u)' => /\ Live(u) /\ user'[u].address = user[u].address
                                     /\ (user'[u].wallet => user[u].wallet)
  BY DEF Quiet, Live
<1>3. \A r \in Requests : Works(r)' => Works(r) /\ request'[r] = request[r]
  BY DEF Quiet, Works
<1>6. safe' = safe /\ \A a : OnChain(a)' = OnChain(a)
  BY DEF Quiet, OnChain
<1>7. GuardedWhileOwner'
  BY <1>1, <1>6 DEF AccountsInv, GuardInv, GuardedWhileOwner
<1>8. \A r \in Requests : /\ First(r)' => First(r) /\ request'[r] = request[r]
                          /\ Second(r)' => Second(r) /\ request'[r] = request[r]
                          /\ request'[r].pc = "recordEnable" => request'[r] = request[r]
  BY <1>3, <1>6 DEF First, Second, Works
<1>9. \A u \in UserIds, a \in Addresses : LivesAt(u, a)' => LivesAt(u, a) /\ (user'[u].wallet => user[u].wallet)
  BY <1>1 DEF LivesAt
<1>10. ASSUME NEW r \in Requests PROVE EnrolmentInv(r)'
  <2>1. EnrolmentInv(r)
    BY DEF AccountsInv, GuardInv
  <2>2. Works(r) => request[r].address \in Addresses
    BY TypeFacts DEF AccountsInv
  <2>3. request'[r].pc = "recordEnable" => Works(r)'
    BY DEF Works
  <2>4. First(r)' \/ Second(r)' => Works(r)'
    BY DEF First, Second, Works
  <2> QED
    BY <1>3, <1>6, <1>8, <1>9, <2>1, <2>2, <2>3, <2>4 DEF EnrolmentInv
<1> QED
  BY <1>7, <1>10 DEF GuardInv

LEMMA QuietSigner ==
  ASSUME AccountsInv, Quiet
  PROVE  SignerInv'
<1>1. \A u \in UserIds : Live(u)' => /\ Live(u) /\ user'[u].address = user[u].address
                                     /\ user'[u].signer = user[u].signer
                                     /\ user'[u].deployed = user[u].deployed
  BY DEF Quiet, Live
<1>3. \A r \in Requests : Works(r)' => Works(r) /\ request'[r] = request[r]
  BY DEF Quiet, Works
<1>6. safe' = safe /\ \A a : OnChain(a)' = OnChain(a)
  BY DEF Quiet, OnChain
<1>7. \A r \in Requests : /\ request'[r].pc \in {"recordDeploy", "recordSwap"} => request'[r] = request[r]
                          /\ Manages(r)' => request'[r] = request[r]
                          /\ First(r)' => First(r) /\ request'[r] = request[r]
  BY <1>3, <1>6 DEF Manages, Works, First
<1>8. \A a \in unrecorded \cup Swapped(Requests) : a \in unrecorded' \cup Swapped(Requests)'
  BY DEF Quiet, Swapped
<1>9. ASSUME NEW u \in UserIds, Live(u)', OnChain(user[u].address)' PROVE Late(u)' \/ Fits(u)'
  <2>1. Late(u) \/ Fits(u)
    BY <1>1, <1>6, <1>9 DEF AccountsInv, SignerInv
  <2>2. Late(u) => Late(u)'
    BY <1>1, <1>7, <1>9 DEF Late
  <2>3. Fits(u) => Fits(u)'
    BY <1>1, <1>6, <1>7, <1>8, <1>9 DEF Fits, Manages
  <2> QED
    BY <2>1, <2>2, <2>3
<1>10. ASSUME NEW r \in Requests PROVE SwapInv(r)'
  <2>1. SwapInv(r)
    BY DEF AccountsInv, SignerInv
  <2>2. Works(r) => request[r].id \in UserIds
    BY TypeFacts DEF AccountsInv
  <2>3. request'[r].pc = "recordSwap" => Works(r)'
    BY DEF Works
  <2>4. First(r)' => Works(r)'
    BY DEF First, Works
  <2>5. \A a : \A u \in UserIds : LivesAt(u, a)' => LivesAt(u, a) /\ user'[u].signer = user[u].signer
    BY <1>1 DEF LivesAt
  <2> QED
    BY <1>3, <1>6, <1>7, <2>1, <2>2, <2>3, <2>4, <2>5 DEF SwapInv
<1> QED
  BY <1>9, <1>10 DEF SignerInv

LEMMA QuietStep ==
  ASSUME AccountsInv, AccountsTypeOK', Quiet
  PROVE  AccountsInv'
BY QuietRows, QuietRequests, QuietGuard, QuietSigner DEF AccountsInv

-----------------------------------------------------------------------------
\* A request begins with a copy of a row, under its route's conditions.
Begins(r) ==
  /\ user' = user /\ wallets' = wallets /\ safe' = safe /\ unrecorded' = unrecorded
  /\ ~Works(r) /\ \A s \in Requests : s # r => request'[s] = request[s]
  /\ request'[r] \in Work /\ request'[r].pc \in {"deploy", "addOwner", "removeOwner", "swap", "move"}
  /\ \E u \in UserIds :
       /\ Live(u) /\ request'[r].id = u
       /\ request'[r].address = user[u].address /\ request'[r].signer = user[u].signer
       /\ request'[r].pc = "deploy" => ~user[u].deployed
       /\ request'[r].pc \in {"addOwner", "removeOwner", "swap"} =>
            OnChain(user[u].address) /\ request'[r].nonce = safe[user[u].address].nonce
       /\ request'[r].pc = "addOwner" => user[u].deployed /\ ~user[u].wallet
       /\ request'[r].pc = "removeOwner" => user[u].wallet /\ Service \in safe[user[u].address].owners
       /\ request'[r].pc = "swap" => user[u].wallet /\ user[u].signer \in safe[user[u].address].owners

\* Two live rows never share a Safe's address.
LEMMA OneRow ==
  ASSUME RowsInv, NEW u \in UserIds, NEW v \in UserIds, NEW a \in Safes, LivesAt(u, a), LivesAt(v, a)
  PROVE  u = v
BY DEF RowsInv, LivesAt

LEMMA BeginRequests ==
  ASSUME AccountsInv, NEW r \in Requests, Begins(r)
  PROVE  RequestInv'
<1>1. PICK u \in UserIds :
       /\ Live(u) /\ request'[r].id = u
       /\ request'[r].address = user[u].address /\ request'[r].signer = user[u].signer
       /\ request'[r].pc = "deploy" => ~user[u].deployed
       /\ request'[r].pc \in {"addOwner", "removeOwner", "swap"} =>
            OnChain(user[u].address) /\ request'[r].nonce = safe[user[u].address].nonce
       /\ request'[r].pc = "addOwner" => user[u].deployed /\ ~user[u].wallet
       /\ request'[r].pc = "removeOwner" => user[u].wallet
       /\ request'[r].pc = "swap" => user[u].wallet
  BY DEF Begins
<1>2. user' = user /\ safe' = safe /\ \A s \in Requests : s # r => request'[s] = request[s]
  BY DEF Begins
<1>3. user[u].status # "none"
  BY <1>1 DEF Live
<1>4. request'[r].pc \in {"addOwner", "removeOwner", "swap"} => user[u].deployed
  BY <1>1 DEF AccountsInv, RowsInv
<1>5. request'[r].pc = "deploy" /\ user[u].address \in Safes => user[u].address = SafeOf(user[u].signer)
  BY <1>1 DEF AccountsInv, RowsInv
<1>6. request'[r].pc \in {"deploy", "addOwner", "removeOwner", "swap", "move"} /\ request'[r].nonce \in Nat
  BY WorkFacts DEF Begins
<1>7. \A s \in Requests \ {r} : request'[s] = request[s]
  BY <1>2
<1> QED
  BY <1>1, <1>2, <1>3, <1>4, <1>5, <1>6, <1>7 DEF AccountsInv, RequestInv, Works, Manages, Live, OnChain

LEMMA BeginGuard ==
  ASSUME AccountsInv, NEW r \in Requests, Begins(r)
  PROVE  GuardInv'
<1>1. PICK u \in UserIds :
       /\ LivesAt(u, request'[r].address)
       /\ request'[r].pc \in {"addOwner", "removeOwner", "swap"} => OnChain(request'[r].address)
       /\ request'[r].pc = "addOwner" => ~user[u].wallet
       /\ request'[r].pc = "removeOwner" => user[u].wallet
  BY DEF Begins, LivesAt
<1>2. user' = user /\ safe' = safe /\ \A s \in Requests : s # r => request'[s] = request[s]
  BY DEF Begins
<1>3. request'[r].pc \in {"deploy", "addOwner", "removeOwner", "swap", "move"}
  BY DEF Begins
<1>4. GuardedWhileOwner'
  BY <1>2 DEF AccountsInv, GuardInv, GuardedWhileOwner, Live, OnChain
<1>5. \A v \in UserIds : \A a : LivesAt(v, a)' <=> LivesAt(v, a)
  BY <1>2 DEF LivesAt, Live
<1>6. \A s \in Requests : s # r => /\ EnrolmentInv(s)
                                   /\ First(s)' <=> First(s)
                                   /\ Second(s)' <=> Second(s)
                                   /\ request'[s] = request[s]
  BY <1>2 DEF First, Second, AccountsInv, GuardInv
<1>7. ASSUME NEW s \in Requests, s # r PROVE EnrolmentInv(s)'
  <2>1. request[s].pc = "recordEnable" /\ request'[r].pc = "removeOwner" => request'[r].address # request[s].address
    BY <1>1, <1>6, <1>7 DEF EnrolmentInv
  <2> QED
    BY <1>2, <1>3, <1>5, <1>6, <1>7, <2>1 DEF EnrolmentInv
<1>8. EnrolmentInv(r)'
  <2>1. request'[r].pc = "addOwner" => \A v \in UserIds : LivesAt(v, request'[r].address) => ~user[v].wallet
    <3>1. OnChain(request'[r].address) => request'[r].address \in Safes
      BY DEF OnChain
    <3> QED
      BY <1>1, <3>1, OneRow DEF AccountsInv
  <2> QED
    BY <1>2, <1>3, <1>5, <2>1 DEF EnrolmentInv
<1> QED
  BY <1>4, <1>7, <1>8 DEF GuardInv

LEMMA BeginSigner ==
  ASSUME AccountsInv, NEW r \in Requests, Begins(r)
  PROVE  SignerInv'
<1>1. PICK u \in UserIds :
       /\ LivesAt(u, request'[r].address) /\ request'[r].id = u
       /\ request'[r].signer = user[u].signer
       /\ request'[r].pc \in {"addOwner", "removeOwner", "swap"} => OnChain(request'[r].address)
       /\ request'[r].pc = "swap" => user[u].wallet /\ user[u].signer \in safe[user[u].address].owners
  BY DEF Begins, LivesAt
<1>2. user' = user /\ safe' = safe /\ \A s \in Requests : s # r => request'[s] = request[s]
  BY DEF Begins
<1>3. request'[r].pc \in {"deploy", "addOwner", "removeOwner", "swap", "move"}
  BY DEF Begins
<1>4. \A v \in UserIds : /\ \A a : LivesAt(v, a)' <=> LivesAt(v, a)
                         /\ Live(v)' <=> Live(v)
                         /\ OnChain(user[v].address)' <=> OnChain(user[v].address)
  BY <1>2 DEF LivesAt, Live, OnChain
<1>5. unrecorded' = unrecorded /\ Swapped(Requests)' = Swapped(Requests)
  <2>1. \A s \in Requests : request'[s].pc = "recordSwap" <=> request[s].pc = "recordSwap"
    BY <1>2, <1>3 DEF Begins, Works
  <2>2. \A s \in Requests : request[s].pc = "recordSwap" => s # r
    BY DEF Begins, Works
  <2> QED
    BY <1>2, <2>1, <2>2 DEF Swapped, Begins
<1>6. \A s \in Requests : request'[s].pc = "recordSwap" => s # r /\ request[s].pc = "recordSwap"
  BY <1>2, <1>3
<1>7. ASSUME NEW v \in UserIds, Live(v), OnChain(user[v].address) PROVE Late(v)' \/ Fits(v)'
  <2>1. Late(v) \/ Fits(v)
    BY <1>7 DEF AccountsInv, SignerInv
  <2>2. Late(v) => Late(v)'
    BY <1>2, <1>3 DEF Late
  <2>3. Manages(r)' /\ request'[r].address = user[v].address => v = u
    <3>1. user[v].address \in Safes
      BY <1>7 DEF OnChain
    <3> QED
      BY <1>1, <1>7, <3>1, OneRow DEF AccountsInv, LivesAt
  <2>4. ASSUME Fits(v) PROVE Fits(v)'
    <3>1. \A s \in Requests : Manages(s)' /\ request'[s].address = user'[v].address => request'[s].id = v
      BY <1>1, <1>2, <2>3, <2>4 DEF Fits, Manages
    <3> QED
      BY <1>2, <1>5, <2>4, <3>1 DEF Fits
  <2> QED
    BY <2>1, <2>2, <2>4
<1>8. ASSUME NEW s \in Requests, s # r PROVE SwapInv(s)'
  <2>1. SwapInv(s) /\ request'[s] = request[s]
    BY <1>2, <1>8 DEF AccountsInv, SignerInv
  <2>2. First(s)' <=> First(s)
    BY <1>2, <2>1 DEF First
  <2>3. request[s].pc = "recordSwap" \/ First(s) => request[s].id \in UserIds
    BY TypeFacts DEF AccountsInv, Works
  <2>4. \A t \in Requests : request'[t].pc = "recordSwap" => request'[t] = request[t]
    BY <1>2, <1>6
  <2> QED
    BY <1>2, <1>4, <1>6, <2>1, <2>2, <2>3, <2>4 DEF SwapInv
<1>9. SwapInv(r)'
  <2>1. request'[r].pc # "recordSwap"
    BY <1>3
  <2>2. ASSUME request'[r].pc = "swap", NEW s \in Requests, request'[s].pc = "recordSwap",
               request'[s].address = request'[r].address
        PROVE  FALSE
    <3>1. request'[s] = request[s] /\ request[s].pc = "recordSwap" /\ SwapInv(s)
      BY <1>2, <1>6, <2>2 DEF AccountsInv, SignerInv
    <3>2. Live(u) /\ OnChain(user[u].address) /\ user[u].deployed
      BY <1>1, <2>2 DEF LivesAt, AccountsInv, RowsInv
    <3>3. Fits(u)
      BY <3>2 DEF AccountsInv, SignerInv, Late
    <3>4. request[s].id = u
      BY <1>1, <2>2, <3>1, <3>3 DEF Fits, Manages, LivesAt
    <3> QED
      BY <1>1, <2>2, <3>1, <3>4 DEF SwapInv, LivesAt
  <2> QED
    BY <1>1, <1>2, <1>4, <2>1, <2>2 DEF SwapInv, LivesAt
<1> QED
  BY <1>2, <1>4, <1>7, <1>8, <1>9 DEF SignerInv

LEMMA BeginStep ==
  ASSUME AccountsInv, AccountsTypeOK', NEW r \in Requests, Begins(r)
  PROVE  AccountsInv'
<1>1. RowsInv'
  BY DEF AccountsInv, RowsInv, Begins, Live, OnChain
<1> QED
  BY <1>1, BeginRequests, BeginGuard, BeginSigner DEF AccountsInv

-----------------------------------------------------------------------------
\* A new row is neither deployed nor enrolled, and no request is about it.
LEMMA RegisterStep ==
  ASSUME AccountsInv, AccountsTypeOK', NEW u \in UserIds, NEW k \in Keys, Register(u, k)
  PROVE  AccountsInv'
<1>1. /\ user[u].status = "none" /\ user'[u].status = "live" /\ user'[u].signer = k
      /\ user'[u].address = SafeOf(k) /\ ~user'[u].deployed /\ ~user'[u].wallet
      /\ \A v \in UserIds : v # u => user'[v] = user[v]
  BY DEF Register, AccountsInv, AccountsTypeOK
<1>2. /\ wallets' = wallets \cup {<<u, SafeOf(k)>>} /\ \A w \in wallets : w[2] # SafeOf(k)
      /\ safe' = safe /\ request' = request /\ unrecorded' = unrecorded
  BY DEF Register
<1>3. \A v \in UserIds : v # u => /\ Live(v)' <=> Live(v)
                                  /\ \A a : LivesAt(v, a)' <=> LivesAt(v, a)
  BY <1>1 DEF Live, LivesAt
<1>4. \A r \in Requests : Works(r) => request[r].id \in UserIds \ {u}
  BY <1>1, TypeFacts DEF AccountsInv, RequestInv
<1>5. \A a : OnChain(a)' <=> OnChain(a)
  BY <1>2 DEF OnChain
<1>6. \A r \in Requests : /\ First(r)' <=> First(r)
                          /\ Second(r)' <=> Second(r)
                          /\ Manages(r)' <=> Manages(r)
                          /\ Works(r)' <=> Works(r)
  BY <1>2 DEF First, Second, Manages, Works
<1>7. \A r \in Requests : First(r) \/ Second(r) \/ Manages(r) => Works(r)
  BY DEF First, Second, Manages, Works
<1>8. RowsInv'
  <2>1. \A v \in UserIds : <<v, SafeOf(k)>> \notin wallets
    BY <1>2
  <2>2. \A v, w \in UserIds, a \in Safes : <<v, a>> \in wallets' /\ <<w, a>> \in wallets' => v = w
    BY <1>2, <2>1 DEF AccountsInv, RowsInv
  <2>3. \A v \in UserIds : Live(v)' /\ user'[v].address \in Safes => <<v, user'[v].address>> \in wallets'
    BY <1>1, <1>2, <1>3 DEF AccountsInv, RowsInv
  <2>4. \A v \in UserIds : Live(v)' /\ user'[v].wallet => user'[v].deployed
    BY <1>1, <1>3 DEF AccountsInv, RowsInv
  <2>5. ASSUME NEW v \in UserIds, Live(v)', user'[v].address \in Safes,
               ~user'[v].deployed \/ ~OnChain(user[v].address)'
        PROVE  user'[v].address = SafeOf(user'[v].signer)
    <3>1. OnChain(user[v].address)' <=> OnChain(user'[v].address)
      BY <1>2 DEF OnChain
    <3> QED
      BY <1>1, <1>3, <2>5, <3>1 DEF AccountsInv, RowsInv
  <2> QED
    BY <2>2, <2>3, <2>4, <2>5 DEF RowsInv
<1>9. RequestInv'
  <2>1. \A r \in Requests : Works(r) => /\ user'[request[r].id] = user[request[r].id]
                                        /\ Live(request[r].id)' <=> Live(request[r].id)
    BY <1>1, <1>2, <1>4 DEF Live
  <2>2. \A r \in Requests : request[r].pc \in {"deploy", "addOwner", "removeOwner", "swap", "setGuard", "clearGuard"}
                               => Works(r)
    BY DEF Works
  <2> QED
    BY <1>2, <1>6, <1>7, <2>1, <2>2 DEF AccountsInv, RequestInv, OnChain
<1>10. GuardInv'
  <2>1. GuardedWhileOwner'
    BY <1>1, <1>2, <1>3 DEF AccountsInv, GuardInv, GuardedWhileOwner, OnChain
  <2>2. \A v \in UserIds : \A a : LivesAt(v, a)' => LivesAt(v, a) \/ ~user'[v].wallet
    BY <1>1, <1>3
  <2>3. \A v \in UserIds : user'[v].wallet => user'[v] = user[v]
    BY <1>1
  <2> QED
    BY <1>2, <1>6, <2>1, <2>2, <2>3 DEF AccountsInv, GuardInv, EnrolmentInv
<1>11. SignerInv'
  <2>1. Swapped(Requests)' = Swapped(Requests)
    BY <1>2 DEF Swapped
  <2>2. Late(u)'
    <3>1. \A r \in Requests : request[r].pc = "recordDeploy" => request[r].id # u
      BY <1>4 DEF Works
    <3> QED
      BY <1>1, <1>2, <3>1 DEF Late
  <2>3. ASSUME NEW v \in UserIds, v # u, Live(v)', OnChain(user[v].address)' PROVE Late(v)' \/ Fits(v)'
    <3>1. user'[v] = user[v] /\ Live(v) /\ OnChain(user[v].address)
      BY <1>1, <1>2, <1>3, <2>3 DEF OnChain
    <3>2. Late(v) \/ Fits(v)
      BY <3>1 DEF AccountsInv, SignerInv
    <3> QED
      BY <1>2, <1>6, <2>1, <3>1, <3>2 DEF Late, Fits
  <2>4. ASSUME NEW r \in Requests PROVE SwapInv(r)'
    <3>1. SwapInv(r)
      BY DEF AccountsInv, SignerInv
    <3>2. request[r].pc \in {"recordSwap", "swap"} => request[r].id \in UserIds \ {u}
      BY <1>4 DEF Works
    <3> QED
      BY <1>1, <1>2, <1>3, <1>6, <3>1, <3>2 DEF SwapInv
  <2> QED
    BY <2>2, <2>3, <2>4 DEF SignerInv
<1> QED
  BY <1>8, <1>9, <1>10, <1>11 DEF AccountsInv

-----------------------------------------------------------------------------
\* A deployment is submitted for a wallet that is not there yet, and lands once.
LEMMA SubmitDeployStep ==
  ASSUME AccountsInv, AccountsTypeOK', NEW r \in Requests, SubmitDeploy(r),
         safe[SafeOf(request[r].signer)].state # "deployed"
  PROVE  AccountsInv'
<1> DEFINE a == SafeOf(request[r].signer)
<1>1. request[r].pc = "deploy" /\ Works(r) /\ "recordDeploy" \in Pcs
  BY DEF SubmitDeploy, Works, Pcs
<1>2. a \in Safes /\ ~OnChain(a) /\ request[r].id \in UserIds
  BY <1>1, TypeFacts, AddressFacts DEF AccountsInv, OnChain
<1>3. /\ safe' = [safe EXCEPT ![a].state = "pending"] /\ Goto(r, "recordDeploy")
      /\ user' = user /\ wallets' = wallets /\ unrecorded' = unrecorded
  BY DEF SubmitDeploy, db
<1>4. /\ request'[r].pc = "recordDeploy" /\ request'[r].id = request[r].id /\ request'[r].address = request[r].address
      /\ \A s \in Requests : s # r => request'[s] = request[s]
  BY <1>1, <1>3, GotoEffect DEF AccountsInv
<1>5. \A b \in Safes : /\ safe'[b].owners = safe[b].owners /\ safe'[b].nonce = safe[b].nonce
                       /\ safe'[b].guard = safe[b].guard
  BY <1>2, <1>3 DEF AccountsInv, AccountsTypeOK, Safe
<1>6. \A b : OnChain(b)' <=> OnChain(b)
  BY <1>2, <1>3 DEF OnChain, AccountsInv, AccountsTypeOK, Safe
<1>7. \A u \in UserIds : /\ Live(u)' <=> Live(u)
                         /\ \A b : LivesAt(u, b)' <=> LivesAt(u, b)
  BY <1>3 DEF Live, LivesAt
<1>8. ~Manages(r) /\ ~Manages(r)' /\ ~First(r)' /\ ~Second(r)'
  BY <1>1, <1>4 DEF Manages, First, Second
<1>9. \A s \in Requests : s # r => /\ Manages(s)' <=> Manages(s)
                                   /\ Works(s)' <=> Works(s)
  BY <1>4 DEF Manages, Works
<1>10. \A s \in Requests : Manages(s) => OnChain(request[s].address) /\ request[s].address \in Safes
  BY DEF AccountsInv, RequestInv, OnChain
<1>11. \A s \in Requests : s # r => /\ First(s)' <=> First(s)
                                    /\ Second(s)' <=> Second(s)
  BY <1>4, <1>5, <1>10 DEF First, Second, Manages
<1>12. RowsInv'
  BY <1>3, <1>6, <1>7 DEF AccountsInv, RowsInv
<1>13. RequestInv'
  BY <1>1, <1>3, <1>4, <1>5, <1>6, <1>7, <1>9, <1>10 DEF AccountsInv, RequestInv, Works, Manages, Live
<1>14. GuardInv'
  <2>1. GuardedWhileOwner'
    BY <1>3, <1>5, <1>6, <1>7 DEF AccountsInv, GuardInv, GuardedWhileOwner, OnChain
  <2>2. ASSUME NEW s \in Requests PROVE EnrolmentInv(s)'
    <3>1. EnrolmentInv(s)
      BY DEF AccountsInv, GuardInv
    <3> QED
      BY <1>3, <1>4, <1>5, <1>7, <1>8, <1>10, <1>11, <3>1 DEF EnrolmentInv, Manages
  <2> QED
    BY <2>1, <2>2 DEF GuardInv
<1>15. SignerInv'
  <2>1. Swapped(Requests)' = Swapped(Requests)
    BY <1>1, <1>4 DEF Swapped
  <2>2. ASSUME NEW u \in UserIds, Live(u)', OnChain(user[u].address)' PROVE Late(u)' \/ Fits(u)'
    <3>1. Live(u) /\ OnChain(user[u].address)
      BY <1>3, <1>6, <1>7, <2>2
    <3>2. Late(u) \/ Fits(u)
      BY <3>1 DEF AccountsInv, SignerInv
    <3>3. request[r].id # u
      <4>1. ASSUME request[r].id = u PROVE FALSE
        <5>1. user[u].address = a
          BY <1>1, <3>1, <4>1 DEF AccountsInv, RequestInv, OnChain
        <5> QED
          BY <1>2, <3>1, <5>1
      <4> QED
        BY <4>1
    <3>4. Late(u) => Late(u)'
      BY <1>3, <1>4, <3>3 DEF Late
    <3>5. Fits(u) => Fits(u)'
      BY <1>3, <1>4, <1>5, <1>8, <1>9, <2>1, <3>1 DEF Fits, OnChain
    <3> QED
      BY <3>2, <3>4, <3>5
  <2>3. ASSUME NEW s \in Requests PROVE SwapInv(s)'
    <3>1. SwapInv(s)
      BY DEF AccountsInv, SignerInv
    <3>2. \A t \in Requests : request'[t].pc = "recordSwap" => request'[t] = request[t]
      BY <1>4
    <3>3. request[s].pc \in {"recordSwap", "swap"} => request[s].id \in UserIds
      BY TypeFacts DEF AccountsInv, Works
    <3> QED
      BY <1>3, <1>4, <1>5, <1>7, <1>8, <1>10, <1>11, <3>1, <3>2, <3>3 DEF SwapInv, Manages
  <2> QED
    BY <2>2, <2>3 DEF SignerInv
<1> QED
  BY <1>12, <1>13, <1>14, <1>15 DEF AccountsInv

LEMMA DeployLandsStep ==
  ASSUME AccountsInv, AccountsTypeOK', NEW k \in Keys, DeployLands(k)
  PROVE  AccountsInv'
<1> DEFINE a == SafeOf(k)
<1>1. a \in Safes /\ ~OnChain(a)
  BY AddressFacts DEF DeployLands, OnChain
<1>2. /\ user' = user /\ wallets' = wallets /\ request' = request /\ unrecorded' = unrecorded
      /\ safe' = [safe EXCEPT ![a] = [safe[a] EXCEPT !.state = "deployed", !.owners = {k}]]
  BY DEF DeployLands, db
<1>3. /\ safe'[a].owners = {k}
      /\ \A b \in Safes : b # a => safe'[b] = safe[b]
      /\ \A b \in Safes : safe'[b].nonce = safe[b].nonce /\ safe'[b].guard = safe[b].guard
  BY <1>1, <1>2 DEF AccountsInv, AccountsTypeOK, Safe
<1>4. \A b : OnChain(b)' <=> OnChain(b) \/ b = a
  BY <1>1, <1>2 DEF OnChain, AccountsInv, AccountsTypeOK, Safe
<1>5. \A u \in UserIds : /\ Live(u)' <=> Live(u)
                         /\ \A b : LivesAt(u, b)' <=> LivesAt(u, b)
  BY <1>2 DEF Live, LivesAt
<1>6. \A s \in Requests : Manages(s) => request[s].address \in Safes \ {a}
  BY <1>1 DEF AccountsInv, RequestInv, OnChain
<1>7. \A s \in Requests : /\ Manages(s)' <=> Manages(s)
                          /\ Works(s)' <=> Works(s)
                          /\ First(s)' <=> First(s)
                          /\ Second(s)' <=> Second(s)
  BY <1>2, <1>3, <1>6 DEF Manages, Works, First, Second
<1>8. RowsInv'
  BY <1>2, <1>4, <1>5 DEF AccountsInv, RowsInv
<1>9. RequestInv'
  BY <1>2, <1>3, <1>4, <1>5, <1>6, <1>7 DEF AccountsInv, RequestInv, Works, Manages, Live
<1>10. GuardInv'
  <2>1. Service \notin safe'[a].owners
    BY <1>3, AccountsAssumption
  <2>2. GuardedWhileOwner'
    BY <1>2, <1>3, <1>4, <1>5, <2>1 DEF AccountsInv, GuardInv, GuardedWhileOwner, OnChain
  <2>3. ASSUME NEW s \in Requests PROVE EnrolmentInv(s)'
    <3>1. EnrolmentInv(s)
      BY DEF AccountsInv, GuardInv
    <3> QED
      BY <1>2, <1>3, <1>5, <1>6, <1>7, <3>1 DEF EnrolmentInv, Manages
  <2> QED
    BY <2>2, <2>3 DEF GuardInv
<1>11. SignerInv'
  <2>1. Swapped(Requests)' = Swapped(Requests)
    BY <1>2 DEF Swapped
  <2>2. ASSUME NEW u \in UserIds, Live(u), user[u].address = a PROVE Fits(u)'
    <3>1. user[u].signer = k
      BY <1>1, <2>2, AddressFacts, TypeFacts DEF AccountsInv, RowsInv
    <3>2. \A s \in Requests : Manages(s) => request[s].address # a
      BY <1>6
    <3> QED
      BY <1>2, <1>3, <1>7, <2>2, <3>1, <3>2 DEF Fits
  <2>3. ASSUME NEW u \in UserIds, Live(u), OnChain(user[u].address), user[u].address # a
        PROVE  Late(u)' \/ Fits(u)'
    <3>1. Late(u) \/ Fits(u)
      BY <2>3 DEF AccountsInv, SignerInv
    <3>2. user[u].address \in Safes
      BY <2>3 DEF OnChain
    <3> QED
      BY <1>2, <1>3, <1>7, <2>1, <2>3, <3>1, <3>2 DEF Late, Fits
  <2>4. ASSUME NEW s \in Requests PROVE SwapInv(s)'
    <3>1. SwapInv(s)
      BY DEF AccountsInv, SignerInv
    <3>2. request[s].pc \in {"recordSwap", "swap"} => request[s].id \in UserIds
      BY TypeFacts DEF AccountsInv, Works
    <3> QED
      BY <1>2, <1>3, <1>5, <1>6, <1>7, <3>1, <3>2 DEF SwapInv, Manages
  <2> QED
    BY <1>2, <1>4, <1>5, <2>2, <2>3, <2>4 DEF SignerInv
<1> QED
  BY <1>8, <1>9, <1>10, <1>11 DEF AccountsInv

-----------------------------------------------------------------------------
\* A row that is marked as deployed has its request's deployment, and so is not late.
LEMMA RecordDeployStep ==
  ASSUME AccountsInv, AccountsTypeOK', NEW r \in Requests, RecordDeploy(r)
  PROVE  AccountsInv'
<1> DEFINE i == request[r].id
<1>1. request[r].pc = "recordDeploy" /\ Works(r) /\ "group" \in Pcs /\ i \in UserIds
  <2>1. request[r].pc = "recordDeploy" /\ Works(r)
    BY DEF RecordDeploy, Works
  <2> QED
    BY <2>1, TypeFacts DEF AccountsInv, Pcs
<1>2. /\ safe' = safe /\ wallets' = wallets /\ unrecorded' = unrecorded /\ Goto(r, "group")
      /\ UpdateUser(i, [user[i] EXCEPT !.deployed = TRUE])
  BY DEF RecordDeploy
<1>3. /\ request'[r].pc = "group" /\ request'[r].id = request[r].id /\ request'[r].address = request[r].address
      /\ \A s \in Requests : s # r => request'[s] = request[s]
  BY <1>1, <1>2, GotoEffect DEF AccountsInv
<1>4. \A u \in UserIds : /\ user'[u].status = user[u].status
                         /\ Live(u)' <=> Live(u)
                         /\ u # i => user'[u] = user[u]
                         /\ Live(u) => /\ user'[u].address = user[u].address /\ user'[u].signer = user[u].signer
                                       /\ user'[u].wallet = user[u].wallet
                                       /\ (user[u].deployed => user'[u].deployed)
  <2>1. Live(i) => user[i] \in User /\ [user[i] EXCEPT !.deployed = TRUE] \in User
    BY <1>1, StateFacts, RowFacts DEF AccountsInv
  <2>2. /\ Live(i) => user'[i] = [user[i] EXCEPT !.deployed = TRUE]
        /\ ~Live(i) => user'[i] = user[i]
        /\ \A u \in UserIds : u # i => user'[u] = user[u]
    BY <1>1, <1>2, <2>1, UpdateEffect DEF AccountsInv
  <2>3. Live(i) => /\ user'[i].status = user[i].status
                   /\ user'[i].address = user[i].address /\ user'[i].signer = user[i].signer
                   /\ user'[i].wallet = user[i].wallet /\ user'[i].deployed
    BY <2>1, <2>2 DEF User
  <2> QED
    BY <2>2, <2>3 DEF Live
<1>5. \A u \in UserIds : \A b : LivesAt(u, b)' <=> LivesAt(u, b)
  BY <1>4 DEF LivesAt
<1>6. \A b : OnChain(b)' <=> OnChain(b)
  BY <1>2 DEF OnChain
<1>7. \A s \in Requests : /\ Manages(s)' <=> Manages(s)
                          /\ Works(s)' <=> Works(s)
                          /\ First(s)' <=> First(s)
                          /\ Second(s)' <=> Second(s)
                          /\ Manages(s) => s # r
                          /\ Works(s) => request[s].id \in UserIds
  BY <1>1, <1>2, <1>3, TypeFacts DEF Manages, Works, First, Second, AccountsInv
<1>8. RowsInv'
  BY <1>2, <1>4, <1>6 DEF AccountsInv, RowsInv
<1>9. RequestInv'
  BY <1>1, <1>2, <1>3, <1>4, <1>6, <1>7 DEF AccountsInv, RequestInv, Works, Manages
<1>10. GuardInv'
  <2>1. GuardedWhileOwner'
    BY <1>2, <1>4, <1>6 DEF AccountsInv, GuardInv, GuardedWhileOwner
  <2>2. ASSUME NEW s \in Requests PROVE EnrolmentInv(s)'
    <3>1. EnrolmentInv(s)
      BY DEF AccountsInv, GuardInv
    <3>2. \A u \in UserIds : \A b : LivesAt(u, b) => Live(u)
      BY DEF LivesAt
    <3> QED
      BY <1>2, <1>3, <1>4, <1>5, <1>7, <3>1, <3>2 DEF EnrolmentInv, Manages
  <2> QED
    BY <2>1, <2>2 DEF GuardInv
<1>11. SignerInv'
  <2>1. Swapped(Requests)' = Swapped(Requests)
    BY <1>1, <1>3 DEF Swapped
  <2>2. ASSUME NEW u \in UserIds, Live(u)', OnChain(user[u].address)' PROVE Late(u)' \/ Fits(u)'
    <3>1. Live(u) /\ OnChain(user[u].address)
      BY <1>2, <1>4, <2>2 DEF OnChain
    <3>2. Late(u) \/ Fits(u)
      BY <3>1 DEF AccountsInv, SignerInv
    <3>3. Late(u) => Late(u)'
      BY <1>1, <1>3, <1>4 DEF Late
    <3>4. Fits(u) => Fits(u)'
      BY <1>2, <1>3, <1>4, <1>7, <2>1, <3>1 DEF Fits
    <3> QED
      BY <3>2, <3>3, <3>4
  <2>3. ASSUME NEW s \in Requests PROVE SwapInv(s)'
    <3>1. SwapInv(s)
      BY DEF AccountsInv, SignerInv
    <3>2. request[s].pc \in {"recordSwap", "swap"} => request[s].id \in UserIds
      BY TypeFacts DEF AccountsInv, Works
    <3>3. \A u \in UserIds : \A b : LivesAt(u, b) => Live(u)
      BY DEF LivesAt
    <3> QED
      BY <1>2, <1>3, <1>4, <1>5, <1>7, <3>1, <3>2, <3>3 DEF SwapInv, Manages
  <2> QED
    BY <2>2, <2>3 DEF SignerInv
<1> QED
  BY <1>8, <1>9, <1>10, <1>11 DEF AccountsInv

\* The flag is set when the guard is there, and nobody is about to remove the owner.
LEMMA RecordEnabledStep ==
  ASSUME AccountsInv, AccountsTypeOK', NEW r \in Requests, RecordEnabled(r)
  PROVE  AccountsInv'
<1> DEFINE i == request[r].id
           a == request[r].address
<1>1. request[r].pc = "recordEnable" /\ Works(r) /\ Manages(r) /\ i \in UserIds
  <2>1. request[r].pc = "recordEnable" /\ Works(r) /\ Manages(r)
    BY DEF RecordEnabled, Works, Manages
  <2> QED
    BY <2>1, TypeFacts DEF AccountsInv
<1>2. /\ safe' = safe /\ wallets' = wallets /\ unrecorded' = unrecorded /\ Finish(r)
      /\ UpdateUser(i, [user[i] EXCEPT !.wallet = TRUE])
  BY DEF RecordEnabled
<1>3. /\ request'[r].pc = "over"
      /\ \A s \in Requests : s # r => request'[s] = request[s]
  BY <1>2, FinishEffect DEF AccountsInv, Over
<1>4. \A u \in UserIds : /\ user'[u].status = user[u].status
                         /\ Live(u)' <=> Live(u)
                         /\ u # i => user'[u] = user[u]
                         /\ Live(u) => /\ user'[u].address = user[u].address /\ user'[u].signer = user[u].signer
                                       /\ user'[u].deployed = user[u].deployed
  <2>1. Live(i) => user[i] \in User /\ [user[i] EXCEPT !.wallet = TRUE] \in User
    BY <1>1, StateFacts, RowFacts DEF AccountsInv
  <2>2. /\ Live(i) => user'[i] = [user[i] EXCEPT !.wallet = TRUE]
        /\ ~Live(i) => user'[i] = user[i]
        /\ \A u \in UserIds : u # i => user'[u] = user[u]
    BY <1>1, <1>2, <2>1, UpdateEffect DEF AccountsInv
  <2>3. Live(i) => /\ user'[i].status = user[i].status
                   /\ user'[i].address = user[i].address /\ user'[i].signer = user[i].signer
                   /\ user'[i].deployed = user[i].deployed
    BY <2>1, <2>2 DEF User
  <2> QED
    BY <2>2, <2>3 DEF Live
<1>5. \A u \in UserIds : \A b : LivesAt(u, b)' <=> LivesAt(u, b)
  BY <1>4 DEF LivesAt
<1>6. \A b : OnChain(b)' <=> OnChain(b)
  BY <1>2 DEF OnChain
<1>7. \A s \in Requests : /\ Manages(s)' <=> Manages(s) /\ s # r
                          /\ Works(s)' <=> Works(s) /\ s # r
                          /\ First(s)' <=> First(s)
                          /\ Second(s)' <=> Second(s)
                          /\ First(s) \/ Second(s) => s # r
                          /\ Works(s) => request[s].id \in UserIds
  BY <1>1, <1>2, <1>3, TypeFacts DEF Manages, Works, First, Second, AccountsInv
<1>8. \A b \in Safes : LivesAt(i, b) => b = a
  BY <1>1 DEF AccountsInv, RequestInv, LivesAt
<1>9. /\ Service \in safe[a].owners /\ safe[a].guard
      /\ \A s \in Requests : request[s].pc = "recordEnable" /\ request[s].address = a => s = r
      /\ OnChain(a) /\ (Live(i) => user[i].deployed)
  BY <1>1 DEF AccountsInv, GuardInv, EnrolmentInv, RequestInv
<1>10. \A s \in Requests : Manages(s) => request[s].address \in Safes
  BY DEF AccountsInv, RequestInv, OnChain
<1>11. RowsInv'
  <2>1. \A u \in UserIds : Live(u)' /\ user'[u].wallet => user'[u].deployed
    BY <1>4, <1>9 DEF AccountsInv, RowsInv
  <2> QED
    BY <1>2, <1>4, <1>6, <2>1 DEF AccountsInv, RowsInv
<1>12. RequestInv'
  BY <1>1, <1>2, <1>3, <1>4, <1>6, <1>7 DEF AccountsInv, RequestInv, Works, Manages
<1>13. GuardInv'
  <2>1. GuardedWhileOwner'
    <3>1. ASSUME NEW u \in UserIds, Live(u), OnChain(user[u].address), user'[u].wallet,
                 Service \in safe[user[u].address].owners
          PROVE  safe[user[u].address].guard
      <4>1. CASE u # i
        BY <1>4, <3>1, <4>1 DEF AccountsInv, GuardInv, GuardedWhileOwner
      <4>2. CASE u = i
        BY <1>8, <1>9, <3>1, <4>2 DEF LivesAt, OnChain
      <4> QED
        BY <4>1, <4>2
    <3> QED
      BY <1>2, <1>4, <1>6, <3>1 DEF GuardedWhileOwner
  <2>2. ASSUME NEW s \in Requests, s # r PROVE EnrolmentInv(s)'
    <3>1. EnrolmentInv(s) /\ request'[s] = request[s]
      BY <1>3, <2>2 DEF AccountsInv, GuardInv
    <3>2. request[s].pc = "recordEnable" => request[s].address # a
      BY <1>9, <2>2
    <3>3. request[s].pc = "setGuard" /\ Second(s) => request[s].address # a
      BY <1>1, <3>1 DEF EnrolmentInv
    <3>4. request[s].pc = "addOwner" /\ Service \notin safe[request[s].address].owners => request[s].address # a
      BY <1>9
    <3>5. request[s].pc \in {"recordEnable", "setGuard", "addOwner"} /\ request[s].address # a =>
            \A u \in UserIds : LivesAt(u, request[s].address) => user'[u] = user[u]
      BY <1>4, <1>8, <1>10 DEF Manages
    <3> QED
      BY <1>2, <1>3, <1>5, <1>7, <3>1, <3>2, <3>3, <3>4, <3>5 DEF EnrolmentInv
  <2>3. EnrolmentInv(r)'
    BY <1>3 DEF EnrolmentInv
  <2> QED
    BY <2>1, <2>2, <2>3 DEF GuardInv
<1>14. SignerInv'
  <2>1. Swapped(Requests)' = Swapped(Requests)
    BY <1>1, <1>3 DEF Swapped
  <2>2. ASSUME NEW u \in UserIds, Live(u)', OnChain(user[u].address)' PROVE Late(u)' \/ Fits(u)'
    <3>1. Live(u) /\ OnChain(user[u].address)
      BY <1>2, <1>4, <2>2 DEF OnChain
    <3>2. Late(u) \/ Fits(u)
      BY <3>1 DEF AccountsInv, SignerInv
    <3>3. Late(u) => Late(u)'
      BY <1>1, <1>3, <1>4, <3>1 DEF Late
    <3>4. Fits(u) => Fits(u)'
      BY <1>2, <1>3, <1>4, <1>7, <2>1, <3>1 DEF Fits
    <3> QED
      BY <3>2, <3>3, <3>4
  <2>3. ASSUME NEW s \in Requests PROVE SwapInv(s)'
    <3>1. SwapInv(s)
      BY DEF AccountsInv, SignerInv
    <3>2. request[s].pc \in {"recordSwap", "swap"} => request[s].id \in UserIds
      BY TypeFacts DEF AccountsInv, Works
    <3>3. \A u \in UserIds : \A b : LivesAt(u, b) => Live(u)
      BY DEF LivesAt
    <3> QED
      BY <1>1, <1>2, <1>3, <1>4, <1>5, <1>7, <3>1, <3>2, <3>3 DEF SwapInv, Manages
  <2> QED
    BY <2>2, <2>3 DEF SignerInv
<1> QED
  BY <1>11, <1>12, <1>13, <1>14 DEF AccountsInv

-----------------------------------------------------------------------------
\* A Safe transaction of request r lands: the Safe's nonce moves on, and with that the
\* signatures of every other request for this Safe are void.
Transacts(r) ==
  /\ First(r) \/ Second(r)
  /\ user' = user /\ wallets' = wallets /\ unrecorded \subseteq unrecorded'
  /\ \A b \in Safes : b # request[r].address => safe'[b] = safe[b]
  /\ safe'[request[r].address].nonce = safe[request[r].address].nonce + 1
  /\ safe'[request[r].address].state = safe[request[r].address].state
  /\ \A s \in Requests : s # r => request'[s] = request[s]
  /\ \/ request'[r].pc = "over"
     \/ /\ request'[r].pc \in {"setGuard", "recordEnable", "clearGuard", "recordDisable", "recordSwap"}
        /\ request'[r].pc \in {"setGuard", "clearGuard"} => First(r)
        /\ request'[r].id = request[r].id /\ request'[r].address = request[r].address
        /\ request'[r].signer = request[r].signer /\ request'[r].new = request[r].new
        /\ request'[r].nonce = request[r].nonce

LEMMA TransactFacts ==
  ASSUME AccountsInv, NEW r \in Requests, Transacts(r)
  PROVE  /\ request[r].address \in Safes
         /\ \A b : OnChain(b)' <=> OnChain(b)
         /\ \A s \in Requests : First(s)' => s # r /\ First(s) /\ request[s].address # request[r].address
         /\ \A s \in Requests : s # r /\ Second(s)' => Second(s) /\ request[s].address # request[r].address
         /\ \A s \in Requests : s # r => /\ Manages(s)' <=> Manages(s)
                                         /\ Works(s)' <=> Works(s)
         /\ Manages(r)' => request'[r].id = request[r].id /\ request'[r].address = request[r].address
         /\ Works(r) /\ Manages(r)
         /\ \A s \in Requests : Works(s) => request[s].id \in UserIds
         /\ \A s \in Requests : Manages(s) => request[s].address \in Safes
         /\ \A u \in UserIds : /\ Live(u)' <=> Live(u)
                               /\ \A b : LivesAt(u, b)' <=> LivesAt(u, b)
<1>1. /\ Manages(r) /\ Works(r)
      /\ \A s \in Requests : Works(s) => request[s].id \in UserIds /\ request[s].nonce \in Nat
      /\ \A s \in Requests : First(s) \/ Second(s) => Manages(s)
      /\ \A s \in Requests : Manages(s) => Works(s)
      /\ \A b \in Safes : safe[b].nonce \in Nat
  BY TypeFacts DEF Transacts, AccountsInv
<1>2. \A s \in Requests : Manages(s) => request[s].address \in Safes
  BY DEF AccountsInv, RequestInv, OnChain
<1>3. \A b : OnChain(b)' <=> OnChain(b)
  BY <1>1, <1>2 DEF OnChain, Transacts
<1>4. \A s \in Requests : s # r => /\ Manages(s)' <=> Manages(s)
                                   /\ Works(s)' <=> Works(s)
                                   /\ request'[s] = request[s]
  BY DEF Transacts, Manages, Works
<1>5. ASSUME NEW s \in Requests, First(s)' PROVE s # r /\ First(s) /\ request[s].address # request[r].address
  <2>1. s # r /\ request'[s] = request[s]
    BY <1>5 DEF Transacts, First
  <2>2. request[s].pc \in {"addOwner", "removeOwner", "swap"} /\ safe'[request[s].address].nonce = request[s].nonce
    BY <1>5, <2>1 DEF First
  <2>3. request[s].nonce <= safe[request[s].address].nonce
    BY <2>2 DEF AccountsInv, RequestInv
  <2>4. Manages(s) /\ request[s].address \in Safes
    BY <1>2, <2>2 DEF Manages
  <2>5. request[s].address # request[r].address
    BY <1>1, <1>2, <2>2, <2>3, <2>4 DEF Transacts
  <2> QED
    BY <2>1, <2>2, <2>4, <2>5 DEF First, Transacts
<1>6. ASSUME NEW s \in Requests, s # r, Second(s)' PROVE Second(s) /\ request[s].address # request[r].address
  <2>1. request'[s] = request[s]
    BY <1>4, <1>6
  <2>2. request[s].pc \in {"setGuard", "clearGuard"} /\ safe'[request[s].address].nonce = request[s].nonce + 1
    BY <1>6, <2>1 DEF Second
  <2>3. request[s].nonce + 1 <= safe[request[s].address].nonce
    BY <2>2 DEF AccountsInv, RequestInv
  <2>4. Manages(s) /\ request[s].address \in Safes
    BY <1>2, <2>2 DEF Manages
  <2>5. request[s].address # request[r].address
    BY <1>1, <1>2, <2>2, <2>3, <2>4 DEF Transacts
  <2> QED
    BY <2>2, <2>4, <2>5 DEF Second, Transacts
<1>7. Manages(r)' => request'[r].id = request[r].id /\ request'[r].address = request[r].address
  BY DEF Transacts, Manages
<1>8. \A u \in UserIds : /\ Live(u)' <=> Live(u)
                         /\ \A b : LivesAt(u, b)' <=> LivesAt(u, b)
  BY DEF Transacts, Live, LivesAt
<1> QED
  BY <1>1, <1>2, <1>3, <1>4, <1>5, <1>6, <1>7, <1>8

LEMMA TransactRequests ==
  ASSUME AccountsInv, NEW r \in Requests, Transacts(r)
  PROVE  RowsInv' /\ RequestInv'
<1>1. user' = user /\ wallets' = wallets
  BY DEF Transacts
<1>2. RowsInv'
  BY <1>1, TransactFacts DEF AccountsInv, RowsInv
<1>3. \A b \in Safes : safe[b].nonce \in Nat /\ safe[b].nonce <= safe'[b].nonce
  BY TransactFacts, TypeFacts DEF AccountsInv, Transacts
<1>4. ASSUME NEW s \in Requests, s # r
      PROVE  /\ Works(s)' => user'[request'[s].id].status # "none"
             /\ Works(s)' /\ Live(request[s].id)' /\ user'[request'[s].id].address \in Safes
                  => user'[request'[s].id].address = request'[s].address
             /\ Manages(s)' => OnChain(request[s].address)' /\ (Live(request[s].id)' => user'[request'[s].id].deployed)
             /\ request'[s].pc = "deploy" /\ Live(request[s].id)' /\ user'[request'[s].id].address \in Safes
                  => request'[s].address = SafeOf(request'[s].signer)
             /\ request'[s].pc \in {"addOwner", "removeOwner", "swap"}
                  => request'[s].nonce <= safe'[request'[s].address].nonce
             /\ request'[s].pc \in {"setGuard", "clearGuard"}
                  => request'[s].nonce + 1 <= safe'[request'[s].address].nonce
  <2>1. request'[s] = request[s]
    BY <1>4 DEF Transacts
  <2>2. request[s].pc \in {"addOwner", "removeOwner", "swap", "setGuard", "clearGuard"} =>
          /\ request[s].nonce \in Nat
          /\ safe[request[s].address].nonce \in Nat /\ safe'[request[s].address].nonce \in Nat
          /\ safe[request[s].address].nonce <= safe'[request[s].address].nonce
    <3>1. request[s].pc \in {"addOwner", "removeOwner", "swap", "setGuard", "clearGuard"} => Manages(s) /\ Works(s)
      BY DEF Manages, Works
    <3>2. \A b \in Safes : safe'[b].nonce \in Nat
      BY TypeFacts, TransactFacts DEF AccountsInv, Transacts
    <3> QED
      BY <1>3, <3>1, <3>2, TransactFacts, TypeFacts DEF AccountsInv
  <2>3. Works(s) => request[s].id \in UserIds
    BY TransactFacts
  <2>4. Manages(s)' <=> Manages(s)
    BY <1>4, TransactFacts
  <2>5. Works(s)' <=> Works(s)
    BY <1>4, TransactFacts
  <2>6. OnChain(request[s].address)' <=> OnChain(request[s].address)
    <3>1. \A b : OnChain(b)' <=> OnChain(b)
      BY TransactFacts
    <3> QED
      BY <2>1, <3>1 DEF OnChain
  <2>7. Live(request[s].id)' <=> Live(request[s].id)
    BY <1>1, <2>1 DEF Live
  <2>8. /\ request[s].pc \in {"addOwner", "removeOwner", "swap"} => request[s].nonce <= safe'[request[s].address].nonce
        /\ request[s].pc \in {"setGuard", "clearGuard"} => request[s].nonce + 1 <= safe'[request[s].address].nonce
    BY <2>2 DEF AccountsInv, RequestInv
  <2> QED
    BY <1>1, <2>1, <2>3, <2>4, <2>5, <2>6, <2>7, <2>8 DEF AccountsInv, RequestInv
<1>5. /\ Works(r)' => Manages(r)' /\ user'[request'[r].id].status # "none"
      /\ Works(r)' /\ Live(request[r].id)' /\ user'[request'[r].id].address \in Safes
           => user'[request'[r].id].address = request'[r].address
      /\ Manages(r)' => OnChain(request[r].address)' /\ (Live(request[r].id)' => user'[request'[r].id].deployed)
      /\ request'[r].pc # "deploy"
      /\ request'[r].pc \notin {"addOwner", "removeOwner", "swap"}
      /\ request'[r].pc \in {"setGuard", "clearGuard"}
           => request'[r].nonce + 1 <= safe'[request'[r].address].nonce
  <2>1. Works(r)' => /\ Manages(r)'
                     /\ request'[r].id = request[r].id /\ request'[r].address = request[r].address
    BY DEF Transacts, Works, Manages
  <2>2. Works(r) /\ Manages(r)
    BY TransactFacts
  <2>3. Works(r)' => Live(request[r].id)' = Live(request[r].id)
    BY <1>1, <2>1 DEF Live
  <2>4. Works(r)' => (OnChain(request[r].address)' <=> OnChain(request[r].address))
    <3>1. \A b : OnChain(b)' <=> OnChain(b)
      BY TransactFacts
    <3> QED
      BY <2>1, <3>1 DEF OnChain
  <2>5. request'[r].pc \in {"setGuard", "clearGuard"}
           => request'[r].nonce + 1 <= safe'[request'[r].address].nonce
    <3>1. ASSUME request'[r].pc \in {"setGuard", "clearGuard"}
          PROVE  request'[r].nonce + 1 <= safe'[request'[r].address].nonce
      <4>1. First(r) /\ request'[r].nonce = request[r].nonce /\ request'[r].address = request[r].address
        BY <3>1 DEF Transacts
      <4>2. request[r].nonce \in Nat /\ safe'[request[r].address].nonce = request[r].nonce + 1
        BY <2>2, <4>1, TypeFacts DEF Transacts, First, AccountsInv
      <4> QED
        BY <4>1, <4>2
    <3> QED
      BY <3>1
  <2>6. request'[r].pc \notin {"deploy", "addOwner", "removeOwner", "swap"}
    BY DEF Transacts
  <2>7. Manages(r)' => Works(r)'
    BY DEF Manages, Works
  <2> QED
    BY <1>1, <2>1, <2>2, <2>3, <2>4, <2>5, <2>6, <2>7 DEF AccountsInv, RequestInv
<1>6. RequestInv'
  BY <1>4, <1>5 DEF RequestInv
<1> QED
  BY <1>2, <1>6

-----------------------------------------------------------------------------
\* Transactions that leave the keys among the owners alone keep the signer in step.
LEMMA TransactSigner ==
  ASSUME AccountsInv, NEW r \in Requests, Transacts(r),
         request[r].pc \in {"addOwner", "setGuard", "removeOwner", "clearGuard"},
         request'[r].pc # "recordSwap",
         \A k \in Keys : k \in safe'[request[r].address].owners <=> k \in safe[request[r].address].owners
  PROVE  SignerInv'
<1>1. \A b \in Safes : \A k \in Keys : k \in safe'[b].owners <=> k \in safe[b].owners
  BY DEF Transacts
<1>2. user' = user /\ unrecorded \subseteq unrecorded' /\ \A s \in Requests : s # r => request'[s] = request[s]
  BY DEF Transacts
<1>3. \A s \in Requests : (s # r => request'[s].pc = request[s].pc) /\ (request'[s].pc = "recordSwap" => s # r)
                          /\ (request[s].pc = "recordSwap" => s # r)
  BY <1>2
<1>4. Swapped(Requests) \subseteq Swapped(Requests)'
  BY <1>2, <1>3 DEF Swapped
<1>5. ASSUME NEW u \in UserIds, Live(u)', OnChain(user[u].address)' PROVE Late(u)' \/ Fits(u)'
  <2>1. Live(u) /\ OnChain(user[u].address)
    <3>1. \A b : OnChain(b)' <=> OnChain(b)
      BY TransactFacts
    <3> QED
      BY <1>2, <1>5, <3>1 DEF Live, OnChain
  <2>2. Late(u) \/ Fits(u)
    BY <2>1 DEF AccountsInv, SignerInv
  <2>3. Late(u) => Late(u)'
    <3>1. request'[r].pc # "recordDeploy"
      BY DEF Transacts
    <3> QED
      BY <1>2, <3>1 DEF Late
  <2>4. ASSUME Fits(u) PROVE Fits(u)'
    <3>1. user[u].signer \in Keys /\ user[u].address \in Safes
      BY <2>1, TypeFacts DEF AccountsInv, OnChain
    <3>2. \/ user'[u].signer \in safe'[user'[u].address].owners
          \/ user'[u].address \in unrecorded' \cup Swapped(Requests)'
      BY <1>1, <1>2, <1>4, <2>4, <3>1 DEF Fits
    <3>3. \A s \in Requests : Manages(s)' /\ request'[s].address = user'[u].address => request'[s].id = u
      BY <1>2, <2>4, TransactFacts DEF Fits
    <3> QED
      BY <3>2, <3>3 DEF Fits
  <2> QED
    BY <2>2, <2>3, <2>4
<1>6. ASSUME NEW s \in Requests, s # r PROVE SwapInv(s)'
  <2>1. SwapInv(s) /\ request'[s] = request[s]
    BY <1>2, <1>6 DEF AccountsInv, SignerInv
  <2>2. request[s].pc \in {"recordSwap", "swap"} =>
          /\ request[s].id \in UserIds /\ request[s].new \in Keys /\ request[s].signer \in Keys
          /\ request[s].address \in Safes
    BY TypeFacts, TransactFacts DEF AccountsInv, Works, Manages
  <2>3. \A t \in Requests : request'[t].pc = "recordSwap" => request'[t] = request[t]
    BY <1>2, <1>3
  <2>4. First(s)' => First(s)
    BY TransactFacts
  <2>5. \A u \in UserIds : \A b : LivesAt(u, b)' <=> LivesAt(u, b)
    BY TransactFacts
  <2> QED
    BY <1>1, <1>2, <2>1, <2>2, <2>3, <2>4, <2>5 DEF SwapInv
<1>7. SwapInv(r)'
  BY DEF SwapInv, Transacts
<1> QED
  BY <1>5, <1>6, <1>7 DEF SignerInv

\* What the four of them do to the Safe.
LEMMA SelfManageEffect ==
  ASSUME AccountsInv, NEW r \in Requests, NEW offset \in {0, 1}, NEW fits \in BOOLEAN, NEW changed \in Safe,
         NEW from \in {"addOwner", "setGuard", "removeOwner", "clearGuard"},
         NEW next \in {"setGuard", "recordEnable", "clearGuard", "recordDisable"},
         from \in {"addOwner", "removeOwner"} <=> offset = 0,
         next \in {"setGuard", "clearGuard"} => offset = 0,
         changed.nonce = safe[request[r].address].nonce, changed.state = safe[request[r].address].state,
         SelfManage(r, from, offset, fits, changed, next)
  PROVE  \/ Quiet
         \/ /\ Transacts(r) /\ request[r].pc = from /\ fits
            /\ request'[r].pc \in {"over", next}
            /\ safe'[request[r].address].owners = changed.owners
            /\ safe'[request[r].address].guard = changed.guard
<1> DEFINE a == request[r].address
<1>1. /\ request[r].pc = from /\ Works(r) /\ Manages(r) /\ next \in Pcs
      /\ UNCHANGED <<db, platform, unrecorded>>
  BY DEF SelfManage, Works, Manages, Pcs
<1>2. a \in Safes /\ request[r].nonce \in Nat
  BY <1>1, TypeFacts DEF AccountsInv, RequestInv, OnChain
<1>3. CASE Accepts(a, request[r].nonce + offset, request[r].signer) /\ fits
  <2>1. /\ safe' = [safe EXCEPT ![a] = [changed EXCEPT !.nonce = @ + 1]]
        /\ Goto(r, next) \/ Finish(r)
    BY <1>3 DEF SelfManage
  <2>2. /\ safe'[a].nonce = safe[a].nonce + 1 /\ safe'[a].state = safe[a].state
        /\ safe'[a].owners = changed.owners /\ safe'[a].guard = changed.guard
        /\ \A b \in Safes : b # a => safe'[b] = safe[b]
    BY <1>2, <2>1 DEF AccountsInv, AccountsTypeOK, Safe
  <2>3. First(r) \/ Second(r)
    BY <1>1, <1>2, <1>3 DEF First, Second, Accepts
  <2>4. offset = 0 => First(r)
    BY <1>1, <1>2, <1>3 DEF First, Accepts
  <2>5. /\ \A s \in Requests : s # r => request'[s] = request[s]
        /\ \/ request'[r].pc = "over"
           \/ /\ request'[r].pc = next
              /\ request'[r].id = request[r].id /\ request'[r].address = request[r].address
              /\ request'[r].signer = request[r].signer /\ request'[r].new = request[r].new
              /\ request'[r].nonce = request[r].nonce
    <3>1. CASE Goto(r, next)
      BY <1>1, <3>1, GotoEffect DEF AccountsInv
    <3>2. CASE Finish(r)
      BY <3>2, FinishEffect DEF AccountsInv, Over
    <3> QED
      BY <2>1, <3>1, <3>2
  <2>6. Transacts(r)
    BY <1>1, <2>2, <2>3, <2>4, <2>5 DEF Transacts, db
  <2> QED
    BY <1>1, <1>3, <2>2, <2>5, <2>6
<1>4. CASE ~(Accepts(a, request[r].nonce + offset, request[r].signer) /\ fits)
  <2>1. Finish(r) /\ safe' = safe
    BY <1>4 DEF SelfManage
  <2>2. /\ request'[r].pc = "over"
        /\ \A s \in Requests : s # r => request'[s] = request[s]
    BY <2>1, FinishEffect DEF AccountsInv, Over
  <2> QED
    BY <1>1, <2>1, <2>2 DEF Quiet, Works, db
<1> QED
  BY <1>3, <1>4

-----------------------------------------------------------------------------
\* A transaction on the Safe at a: what it leaves of the enrolments of other Safes.
LEMMA OthersEnrolled ==
  ASSUME AccountsInv, NEW r \in Requests, Transacts(r), NEW s \in Requests, s # r,
         request[s].address # request[r].address,
         request'[r].pc = "recordEnable" => request'[r].address = request[r].address
  PROVE  EnrolmentInv(s)'
<1>1. EnrolmentInv(s) /\ request'[s] = request[s] /\ user' = user
  BY DEF AccountsInv, GuardInv, Transacts
<1>2. request[s].pc \in {"recordEnable", "setGuard", "addOwner", "clearGuard"} =>
        safe'[request[s].address] = safe[request[s].address]
  BY TransactFacts DEF Transacts, Manages
<1>3. \A t \in Requests : t # r => request'[t] = request[t]
  BY DEF Transacts
<1>4. \A t \in Requests : First(t)' => First(t) /\ t # r
  BY TransactFacts
<1>5. Second(s)' => Second(s)
  BY TransactFacts
<1>6. \A u \in UserIds : \A b : LivesAt(u, b)' <=> LivesAt(u, b)
  BY TransactFacts
<1> QED
  BY <1>1, <1>2, <1>3, <1>4, <1>5, <1>6 DEF EnrolmentInv

\* An enrolled wallet keeps its guard while the service is its owner.
LEMMA GuardedOthers ==
  ASSUME AccountsInv, NEW r \in Requests, Transacts(r),
         \/ \A u \in UserIds : LivesAt(u, request[r].address) => ~user[u].wallet
         \/ Service \notin safe'[request[r].address].owners
         \/ safe'[request[r].address].guard
         \/ /\ Service \in safe'[request[r].address].owners => Service \in safe[request[r].address].owners
            /\ safe'[request[r].address].guard = safe[request[r].address].guard
  PROVE  GuardedWhileOwner'
<1>1. user' = user
  BY DEF Transacts
<1>2. ASSUME NEW u \in UserIds, Live(u), user[u].wallet, OnChain(user[u].address),
             Service \in safe'[user[u].address].owners
      PROVE  safe'[user[u].address].guard
  <2>1. user[u].address \in Safes /\ (Service \in safe[user[u].address].owners => safe[user[u].address].guard)
    BY <1>2 DEF OnChain, AccountsInv, GuardInv, GuardedWhileOwner
  <2>2. CASE user[u].address # request[r].address
    BY <1>2, <2>1, <2>2 DEF Transacts
  <2>3. CASE user[u].address = request[r].address
    BY <1>2, <2>1, <2>3 DEF LivesAt
  <2> QED
    BY <2>2, <2>3
<1>3. \A u \in UserIds : OnChain(user[u].address)' <=> OnChain(user[u].address)
  <2>1. \A b : OnChain(b)' <=> OnChain(b)
    BY TransactFacts
  <2> QED
    BY <1>1, <2>1 DEF OnChain
<1>4. \A u \in UserIds : Live(u)' <=> Live(u)
  BY TransactFacts
<1> QED
  BY <1>1, <1>2, <1>3, <1>4 DEF GuardedWhileOwner

\* Nor does it touch other requests for this Safe, when no enrolment of it waits to be recorded.
LEMMA AllEnrolled ==
  ASSUME AccountsInv, NEW r \in Requests, Transacts(r), NEW q \in Requests, q # r,
         \A p \in Requests : request[p].pc = "recordEnable" => request[p].address # request[r].address
  PROVE  EnrolmentInv(q)'
<1>1. CASE request[q].address # request[r].address
  <2>1. request'[r].pc = "recordEnable" => request'[r].address = request[r].address
    BY DEF Transacts
  <2> QED
    BY <1>1, <2>1, OthersEnrolled
<1>2. CASE request[q].address = request[r].address
  <2>1. request'[q] = request[q] /\ ~First(q)' /\ ~Second(q)'
    BY <1>2, TransactFacts DEF Transacts
  <2> QED
    BY <1>2, <2>1 DEF EnrolmentInv
<1> QED
  BY <1>1, <1>2

LEMMA AddOwnerStep ==
  ASSUME AccountsInv, AccountsTypeOK', NEW r \in Requests, AddOwner(r)
  PROVE  AccountsInv'
<1> DEFINE a == request[r].address
           s == safe[a]
           t == [s EXCEPT !.owners = @ \cup {Service}]
<1>1. request[r].pc = "addOwner" /\ SelfManage(r, "addOwner", 0, Service \notin s.owners, t, "setGuard")
  BY DEF AddOwner, SelfManage
<1>2. s \in Safe /\ t \in Safe /\ t.nonce = s.nonce /\ t.state = s.state
      /\ t.owners = s.owners \cup {Service} /\ t.guard = s.guard
  <2>1. s \in Safe
    BY <1>1 DEF AccountsInv, RequestInv, Manages, OnChain, AccountsTypeOK
  <2> QED
    BY <2>1 DEF Safe
<1>3. \/ Quiet
      \/ /\ Transacts(r) /\ Service \notin s.owners
         /\ request'[r].pc \in {"over", "setGuard"}
         /\ safe'[a].owners = s.owners \cup {Service} /\ safe'[a].guard = s.guard
  <2>1. (Service \notin s.owners) \in BOOLEAN
    OBVIOUS
  <2> HIDE DEF s, t, a
  <2>2. a = request[r].address /\ t.nonce = safe[request[r].address].nonce /\ t.state = safe[request[r].address].state
    BY <1>2 DEF s, a
  <2> QED
    BY <1>1, <1>2, <2>1, <2>2, SelfManageEffect
<1>4. CASE Quiet
  BY <1>4, QuietStep
<1>5. CASE Transacts(r) /\ Service \notin s.owners /\ request'[r].pc \in {"over", "setGuard"}
           /\ safe'[a].owners = s.owners \cup {Service} /\ safe'[a].guard = s.guard
  <2>1. First(r) /\ \A u \in UserIds : LivesAt(u, a) => ~user[u].wallet
    BY <1>1, <1>5 DEF Transacts, Second, AccountsInv, GuardInv, EnrolmentInv
  <2>2. GuardedWhileOwner'
    BY <1>5, <2>1, GuardedOthers
  <2>3. \A q \in Requests : request[q].pc = "recordEnable" => request[q].address # a
    BY <1>5 DEF AccountsInv, GuardInv, EnrolmentInv
  <2>4. \A q \in Requests : q # r => EnrolmentInv(q)'
    BY <1>5, <2>3, AllEnrolled
  <2>5. EnrolmentInv(r)'
    <3>1. request'[r].pc = "setGuard" => request'[r].address = a
      BY <1>5 DEF Transacts
    <3>2. \A q \in Requests : request'[q].pc = "recordEnable" => request'[q] = request[q]
      BY <1>5 DEF Transacts
    <3>3. \A u \in UserIds : \A b : LivesAt(u, b)' <=> LivesAt(u, b)
      BY <1>5, TransactFacts
    <3> QED
      BY <1>5, <2>1, <2>3, <3>1, <3>2, <3>3 DEF EnrolmentInv, Transacts
  <2>6. GuardInv'
    BY <2>2, <2>4, <2>5 DEF GuardInv
  <2>7. SignerInv'
    <3>1. \A k \in Keys : k \in safe'[a].owners <=> k \in safe[a].owners
      BY <1>5, AccountsAssumption
    <3> QED
      BY <1>1, <1>5, <3>1, TransactSigner
  <2> QED
    BY <1>5, <2>6, <2>7, TransactRequests DEF AccountsInv
<1> QED
  BY <1>3, <1>4, <1>5

LEMMA SetGuardStep ==
  ASSUME AccountsInv, AccountsTypeOK', NEW r \in Requests, SetGuard(r)
  PROVE  AccountsInv'
<1> DEFINE a == request[r].address
           s == safe[a]
           t == [s EXCEPT !.guard = TRUE]
<1>1. request[r].pc = "setGuard" /\ SelfManage(r, "setGuard", 1, TRUE, t, "recordEnable")
  BY DEF SetGuard, SelfManage
<1>2. s \in Safe /\ t \in Safe /\ t.nonce = s.nonce /\ t.state = s.state
      /\ t.owners = s.owners /\ t.guard = TRUE
  <2>1. s \in Safe
    BY <1>1 DEF AccountsInv, RequestInv, Manages, OnChain, AccountsTypeOK
  <2> QED
    BY <2>1 DEF Safe
<1>3. \/ Quiet
      \/ /\ Transacts(r) /\ request'[r].pc \in {"over", "recordEnable"}
         /\ safe'[a].owners = s.owners /\ safe'[a].guard = TRUE
  <2> HIDE DEF s, t, a
  <2>1. a = request[r].address /\ t.nonce = safe[request[r].address].nonce /\ t.state = safe[request[r].address].state
    BY <1>2 DEF s, a
  <2>2. ("setGuard" \in {"addOwner", "removeOwner"} <=> 1 = 0) /\ ("recordEnable" \in {"setGuard", "clearGuard"} => 1 = 0)
    OBVIOUS
  <2>3. 1 \in {0, 1} /\ TRUE \in BOOLEAN
    OBVIOUS
  <2> QED
    BY <1>1, <1>2, <2>1, <2>2, <2>3, SelfManageEffect
<1>4. CASE Quiet
  BY <1>4, QuietStep
<1>5. CASE /\ Transacts(r) /\ request'[r].pc \in {"over", "recordEnable"}
           /\ safe'[a].owners = s.owners /\ safe'[a].guard = TRUE
  <2>1. /\ Service \in s.owners /\ \A u \in UserIds : LivesAt(u, a) => ~user[u].wallet
        /\ \A q \in Requests : request[q].pc = "recordEnable" => request[q].address # a
    BY <1>1, <1>5 DEF Transacts, First, AccountsInv, GuardInv, EnrolmentInv
  <2>2. GuardedWhileOwner'
    BY <1>5, <2>1, GuardedOthers
  <2>3. \A q \in Requests : q # r => EnrolmentInv(q)'
    BY <1>5, <2>1, AllEnrolled
  <2>4. EnrolmentInv(r)'
    <3>1. request'[r].pc = "recordEnable" => request'[r].address = a
      BY <1>5 DEF Transacts
    <3>2. \A q \in Requests : q # r => request'[q] = request[q]
      BY <1>5 DEF Transacts
    <3>3. \A u \in UserIds : \A b : LivesAt(u, b)' <=> LivesAt(u, b)
      BY <1>5, TransactFacts
    <3>4. \A q \in Requests : First(q)' => q # r /\ request[q].address # a
      BY <1>5, TransactFacts
    <3>5. user' = user
      BY <1>5 DEF Transacts
    <3> QED
      BY <1>5, <2>1, <3>1, <3>2, <3>3, <3>4, <3>5 DEF EnrolmentInv
  <2>5. GuardInv'
    BY <2>2, <2>3, <2>4 DEF GuardInv
  <2>6. SignerInv'
    <3>1. \A k \in Keys : k \in safe'[a].owners <=> k \in safe[a].owners
      BY <1>5, AccountsAssumption
    <3> QED
      BY <1>1, <1>5, <3>1, TransactSigner
  <2> QED
    BY <1>5, <2>5, <2>6, TransactRequests DEF AccountsInv
<1> QED
  BY <1>3, <1>4, <1>5

LEMMA RemoveOwnerStep ==
  ASSUME AccountsInv, AccountsTypeOK', NEW r \in Requests, RemoveOwner(r)
  PROVE  AccountsInv'
<1> DEFINE a == request[r].address
           s == safe[a]
           t == [s EXCEPT !.owners = @ \ {Service}]
<1>1. request[r].pc = "removeOwner" /\ SelfManage(r, "removeOwner", 0, TRUE, t, "clearGuard")
  BY DEF RemoveOwner, SelfManage
<1>2. s \in Safe /\ t \in Safe /\ t.nonce = s.nonce /\ t.state = s.state
      /\ t.owners = s.owners \ {Service} /\ t.guard = s.guard
  <2>1. s \in Safe
    BY <1>1 DEF AccountsInv, RequestInv, Manages, OnChain, AccountsTypeOK
  <2> QED
    BY <2>1 DEF Safe
<1>3. \/ Quiet
      \/ /\ Transacts(r) /\ request'[r].pc \in {"over", "clearGuard"}
         /\ safe'[a].owners = s.owners \ {Service} /\ safe'[a].guard = s.guard
  <2> HIDE DEF s, t, a
  <2>1. a = request[r].address /\ t.nonce = safe[request[r].address].nonce /\ t.state = safe[request[r].address].state
    BY <1>2 DEF s, a
  <2> QED
    BY <1>1, <1>2, <2>1, SelfManageEffect
<1>4. CASE Quiet
  BY <1>4, QuietStep
<1>5. CASE /\ Transacts(r) /\ request'[r].pc \in {"over", "clearGuard"}
           /\ safe'[a].owners = s.owners \ {Service} /\ safe'[a].guard = s.guard
  <2>1. \A q \in Requests : request[q].pc = "recordEnable" => request[q].address # a
    BY <1>1, <1>5 DEF Transacts, Second, AccountsInv, GuardInv, EnrolmentInv
  <2>2. GuardedWhileOwner'
    BY <1>5, GuardedOthers
  <2>3. \A q \in Requests : q # r => EnrolmentInv(q)'
    BY <1>5, <2>1, AllEnrolled
  <2>4. EnrolmentInv(r)'
    BY <1>5 DEF EnrolmentInv, Transacts
  <2>5. GuardInv'
    BY <2>2, <2>3, <2>4 DEF GuardInv
  <2>6. SignerInv'
    <3>1. \A k \in Keys : k \in safe'[a].owners <=> k \in safe[a].owners
      BY <1>5, AccountsAssumption
    <3> QED
      BY <1>1, <1>5, <3>1, TransactSigner
  <2> QED
    BY <1>5, <2>5, <2>6, TransactRequests DEF AccountsInv
<1> QED
  BY <1>3, <1>4, <1>5

LEMMA ClearGuardStep ==
  ASSUME AccountsInv, AccountsTypeOK', NEW r \in Requests, ClearGuard(r)
  PROVE  AccountsInv'
<1> DEFINE a == request[r].address
           s == safe[a]
           t == [s EXCEPT !.guard = FALSE]
<1>1. request[r].pc = "clearGuard" /\ SelfManage(r, "clearGuard", 1, TRUE, t, "recordDisable")
  BY DEF ClearGuard, SelfManage
<1>2. s \in Safe /\ t \in Safe /\ t.nonce = s.nonce /\ t.state = s.state
      /\ t.owners = s.owners /\ t.guard = FALSE
  <2>1. s \in Safe
    BY <1>1 DEF AccountsInv, RequestInv, Manages, OnChain, AccountsTypeOK
  <2> QED
    BY <2>1 DEF Safe
<1>3. \/ Quiet
      \/ /\ Transacts(r) /\ request'[r].pc \in {"over", "recordDisable"}
         /\ safe'[a].owners = s.owners /\ safe'[a].guard = FALSE
  <2> HIDE DEF s, t, a
  <2>1. a = request[r].address /\ t.nonce = safe[request[r].address].nonce /\ t.state = safe[request[r].address].state
    BY <1>2 DEF s, a
  <2>2. ("clearGuard" \in {"addOwner", "removeOwner"} <=> 1 = 0) /\ ("recordDisable" \in {"setGuard", "clearGuard"} => 1 = 0)
    OBVIOUS
  <2>3. 1 \in {0, 1} /\ TRUE \in BOOLEAN
    OBVIOUS
  <2> QED
    BY <1>1, <1>2, <2>1, <2>2, <2>3, SelfManageEffect
<1>4. CASE Quiet
  BY <1>4, QuietStep
<1>5. CASE /\ Transacts(r) /\ request'[r].pc \in {"over", "recordDisable"}
           /\ safe'[a].owners = s.owners /\ safe'[a].guard = FALSE
  <2>1. Service \notin s.owners /\ \A q \in Requests : request[q].pc = "recordEnable" => request[q].address # a
    BY <1>1, <1>5 DEF Transacts, First, AccountsInv, GuardInv, EnrolmentInv
  <2>2. GuardedWhileOwner'
    BY <1>5, <2>1, GuardedOthers
  <2>3. \A q \in Requests : q # r => EnrolmentInv(q)'
    BY <1>5, <2>1, AllEnrolled
  <2>4. EnrolmentInv(r)'
    BY <1>5 DEF EnrolmentInv, Transacts
  <2>5. GuardInv'
    BY <2>2, <2>3, <2>4 DEF GuardInv
  <2>6. SignerInv'
    <3>1. \A k \in Keys : k \in safe'[a].owners <=> k \in safe[a].owners
      BY <1>5, AccountsAssumption
    <3> QED
      BY <1>1, <1>5, <3>1, TransactSigner
  <2> QED
    BY <1>5, <2>5, <2>6, TransactRequests DEF AccountsInv
<1> QED
  BY <1>3, <1>4, <1>5

-----------------------------------------------------------------------------
\* A swap replaces the signer of the copy by the new key, and its record is still to come.
LEMMA SwapEffect ==
  ASSUME AccountsInv, NEW r \in Requests, Swap(r)
  PROVE  \/ Quiet
         \/ /\ Transacts(r) /\ request[r].pc = "swap" /\ First(r)
            /\ request[r].new \notin safe[request[r].address].owners
            /\ safe'[request[r].address].owners =
                 (safe[request[r].address].owners \ {request[r].signer}) \cup {request[r].new}
            /\ safe'[request[r].address].guard = safe[request[r].address].guard
            /\ request'[r].pc = "recordSwap" \/ (request'[r].pc = "over" /\ request[r].address \in unrecorded')
<1> DEFINE a == request[r].address
           o == (safe[a].owners \ {request[r].signer}) \cup {request[r].new}
<1>1. /\ request[r].pc = "swap" /\ Works(r) /\ Manages(r) /\ "recordSwap" \in Pcs
      /\ UNCHANGED <<db, platform>>
  BY DEF Swap, Works, Manages, Pcs
<1>2. a \in Safes /\ request[r].nonce \in Nat /\ o \in SUBSET (Keys \cup {Service})
  BY <1>1, TypeFacts DEF AccountsInv, RequestInv, OnChain
<1>3. CASE Accepts(a, request[r].nonce, Service) /\ request[r].new \notin safe[a].owners
  <2>1. /\ safe' = [safe EXCEPT ![a] = [safe[a] EXCEPT !.owners = o, !.nonce = safe[a].nonce + 1]]
        /\ \/ Goto(r, "recordSwap") /\ UNCHANGED unrecorded
           \/ Finish(r) /\ unrecorded' = unrecorded \cup {a}
    <3>1. safe[a] \in Safe
      BY <1>2 DEF AccountsInv, AccountsTypeOK
    <3>2. [safe[a] EXCEPT !.owners = (@ \ {request[r].signer}) \cup {request[r].new}, !.nonce = @ + 1]
            = [safe[a] EXCEPT !.owners = o, !.nonce = safe[a].nonce + 1]
      BY <3>1 DEF Safe
    <3> QED
      BY <1>3, <3>2 DEF Swap
  <2>2. /\ safe'[a].nonce = safe[a].nonce + 1 /\ safe'[a].state = safe[a].state
        /\ safe'[a].owners = o /\ safe'[a].guard = safe[a].guard
        /\ \A b \in Safes : b # a => safe'[b] = safe[b]
    BY <1>2, <2>1 DEF AccountsInv, AccountsTypeOK, Safe
  <2>3. First(r)
    BY <1>1, <1>2, <1>3 DEF First, Accepts
  <2>4. /\ \A q \in Requests : q # r => request'[q] = request[q]
        /\ unrecorded \subseteq unrecorded'
        /\ \/ request'[r].pc = "over" /\ a \in unrecorded'
           \/ /\ request'[r].pc = "recordSwap"
              /\ request'[r].id = request[r].id /\ request'[r].address = request[r].address
              /\ request'[r].signer = request[r].signer /\ request'[r].new = request[r].new
              /\ request'[r].nonce = request[r].nonce
    <3>1. CASE Goto(r, "recordSwap") /\ UNCHANGED unrecorded
      BY <1>1, <3>1, GotoEffect DEF AccountsInv
    <3>2. CASE Finish(r) /\ unrecorded' = unrecorded \cup {a}
      BY <3>2, FinishEffect DEF AccountsInv, Over
    <3> QED
      BY <2>1, <3>1, <3>2
  <2>5. Transacts(r)
    BY <1>1, <2>2, <2>3, <2>4 DEF Transacts, db
  <2> QED
    BY <1>1, <1>3, <2>2, <2>3, <2>4, <2>5
<1>4. CASE ~(Accepts(a, request[r].nonce, Service) /\ request[r].new \notin safe[a].owners)
  <2>1. Finish(r) /\ safe' = safe /\ unrecorded' = unrecorded
    BY <1>4 DEF Swap
  <2>2. /\ request'[r].pc = "over"
        /\ \A q \in Requests : q # r => request'[q] = request[q]
    BY <2>1, FinishEffect DEF AccountsInv, Over
  <2> QED
    BY <1>1, <2>1, <2>2 DEF Quiet, Works, db
<1> QED
  BY <1>3, <1>4

LEMMA SwapStep ==
  ASSUME AccountsInv, AccountsTypeOK', NEW r \in Requests, Swap(r)
  PROVE  AccountsInv'
<1> DEFINE a == request[r].address
<1>1. CASE Quiet
  BY <1>1, QuietStep
<1>2. CASE /\ Transacts(r) /\ request[r].pc = "swap" /\ First(r)
           /\ request[r].new \notin safe[a].owners
           /\ safe'[a].owners = (safe[a].owners \ {request[r].signer}) \cup {request[r].new}
           /\ safe'[a].guard = safe[a].guard
           /\ request'[r].pc = "recordSwap" \/ (request'[r].pc = "over" /\ a \in unrecorded')
  <2>1. /\ request[r].signer \in safe[a].owners
        /\ LivesAt(request[r].id, a) => user[request[r].id].signer = request[r].signer
        /\ \A q \in Requests : request[q].pc = "recordSwap" => request[q].address # a
    BY <1>2 DEF AccountsInv, SignerInv, SwapInv
  <2>2. request[r].signer \in Keys /\ request[r].new \in Keys /\ a \in Safes /\ request[r].id \in UserIds
    BY <1>2, TypeFacts, TransactFacts DEF AccountsInv
  <2>3. Service \in safe'[a].owners <=> Service \in safe[a].owners
    BY <1>2, <2>2, AccountsAssumption
  <2>4. /\ user' = user /\ unrecorded \subseteq unrecorded'
        /\ \A q \in Requests : q # r => request'[q] = request[q]
        /\ request'[r].pc = "recordSwap" => /\ request'[r].address = a /\ request'[r].id = request[r].id
                                            /\ request'[r].signer = request[r].signer
                                            /\ request'[r].new = request[r].new
    BY <1>2 DEF Transacts
  <2>5. /\ \A u \in UserIds : \A b : LivesAt(u, b)' <=> LivesAt(u, b)
        /\ \A q \in Requests : First(q)' => q # r /\ First(q) /\ request[q].address # a
        /\ \A b : OnChain(b)' <=> OnChain(b)
    BY <1>2, TransactFacts
  <2>6. GuardInv'
    <3>1. GuardedWhileOwner'
      BY <1>2, <2>3, GuardedOthers
    <3>2. ASSUME NEW q \in Requests, q # r PROVE EnrolmentInv(q)'
      <4>1. CASE request[q].address # a
        BY <1>2, <3>2, <4>1, OthersEnrolled
      <4>2. CASE request[q].address = a
        <5>1. request'[q] = request[q] /\ ~First(q)' /\ ~Second(q)' /\ EnrolmentInv(q)
          BY <1>2, <3>2, <4>2, TransactFacts DEF Transacts, AccountsInv, GuardInv
        <5>2. \A t \in Requests : request'[t].pc = "recordEnable" => request'[t] = request[t]
          BY <1>2, <2>4
        <5> QED
          BY <1>2, <2>3, <2>4, <2>5, <4>2, <5>1, <5>2 DEF EnrolmentInv
      <4> QED
        BY <4>1, <4>2
    <3>3. EnrolmentInv(r)'
      BY <1>2 DEF EnrolmentInv
    <3> QED
      BY <3>1, <3>2, <3>3 DEF GuardInv
  <2>7. SignerInv'
    <3>1. unrecorded \cup Swapped(Requests) \cup {a} \subseteq unrecorded' \cup Swapped(Requests)'
      BY <1>2, <2>4 DEF Swapped
    <3>2. ASSUME NEW u \in UserIds, Live(u)', OnChain(user[u].address)' PROVE Late(u)' \/ Fits(u)'
      <4>1. Live(u) /\ OnChain(user[u].address)
        BY <2>4, <2>5, <3>2 DEF Live, OnChain
      <4>2. Late(u) \/ Fits(u)
        BY <4>1 DEF AccountsInv, SignerInv
      <4>3. Late(u) => Late(u)'
        <5>1. request'[r].pc # "recordDeploy"
          BY <1>2
        <5> QED
          BY <2>4, <5>1 DEF Late
      <4>4. ASSUME Fits(u) PROVE Fits(u)'
        <5>1. user[u].address \in Safes /\ (user[u].address # a => safe'[user[u].address] = safe[user[u].address])
          BY <1>2, <4>1 DEF OnChain, Transacts
        <5>2. \/ user'[u].signer \in safe'[user'[u].address].owners
              \/ user'[u].address \in unrecorded' \cup Swapped(Requests)'
          BY <2>4, <3>1, <4>4, <5>1 DEF Fits
        <5>3. \A q \in Requests : Manages(q)' /\ request'[q].address = user'[u].address => request'[q].id = u
          BY <1>2, <2>4, <4>4, TransactFacts DEF Fits
        <5> QED
          BY <5>2, <5>3 DEF Fits
      <4> QED
        BY <4>2, <4>3, <4>4
    <3>3. ASSUME NEW q \in Requests, q # r PROVE SwapInv(q)'
      <4>1. SwapInv(q) /\ request'[q] = request[q]
        BY <2>4, <3>3 DEF AccountsInv, SignerInv
      <4>2. request[q].pc \in {"recordSwap", "swap"} => request[q].address \in Safes /\ request[q].id \in UserIds
        BY <1>2, TransactFacts DEF Manages, Works
      <4>3. request[q].pc \in {"recordSwap", "swap"} /\ request[q].address # a =>
              safe'[request[q].address] = safe[request[q].address]
        BY <1>2, <4>2 DEF Transacts
      <4>4. \A t \in Requests : request'[t].pc = "recordSwap" => request'[t] = request[t] \/ (t = r /\ request'[t].address = a)
        BY <2>4
      <4> QED
        BY <2>1, <2>4, <2>5, <4>1, <4>2, <4>3, <4>4 DEF SwapInv
    <3>4. SwapInv(r)'
      <4>1. ASSUME request'[r].pc = "recordSwap"
            PROVE  /\ request[r].new \in safe'[a].owners /\ request[r].signer \notin safe'[a].owners
                   /\ \A q \in Requests : request'[q].pc = "recordSwap" /\ request'[q].address = a => q = r
        BY <1>2, <2>1, <2>2, <2>4
      <4> QED
        BY <1>2, <2>1, <2>2, <2>4, <2>5, <4>1 DEF SwapInv
    <3> QED
      BY <3>2, <3>3, <3>4 DEF SignerInv
  <2> QED
    BY <1>2, <2>6, <2>7, TransactRequests DEF AccountsInv
<1> QED
  BY <1>1, <1>2, SwapEffect

\* The record of a swap names the new owner, whoever else came to the Safe's address meanwhile.
LEMMA RecordSwapStep ==
  ASSUME AccountsInv, AccountsTypeOK', NEW r \in Requests, RecordSwap(r)
  PROVE  AccountsInv'
<1> DEFINE i == request[r].id
           a == request[r].address
<1>1. /\ request[r].pc = "recordSwap" /\ Works(r) /\ Manages(r) /\ i \in UserIds
      /\ request[r].new \in Keys /\ request[r].signer \in Keys
  <2>1. request[r].pc = "recordSwap" /\ Works(r) /\ Manages(r)
    BY DEF RecordSwap, Works, Manages
  <2> QED
    BY <2>1, TypeFacts DEF AccountsInv
<1>2. safe' = safe /\ wallets' = wallets /\ Finish(r)
  BY DEF RecordSwap
<1>3. /\ request'[r].pc = "over"
      /\ \A s \in Requests : s # r => request'[s] = request[s]
  BY <1>2, FinishEffect DEF AccountsInv, Over
<1>4. CASE user' = user /\ unrecorded' = unrecorded \cup {a}
  <2>1. Quiet
    BY <1>2, <1>3, <1>4 DEF Quiet, Works
  <2> QED
    BY <2>1, QuietStep
<1>5. CASE UpdateUser(i, [user[i] EXCEPT !.signer = request[r].new]) /\ unrecorded' = unrecorded
  <2>1. \A u \in UserIds : /\ user'[u].status = user[u].status
                           /\ Live(u)' <=> Live(u)
                           /\ u # i => user'[u] = user[u]
                           /\ Live(u) => /\ user'[u].address = user[u].address
                                         /\ user'[u].deployed = user[u].deployed
                                         /\ user'[u].wallet = user[u].wallet
    <3>1. Live(i) => user[i] \in User /\ [user[i] EXCEPT !.signer = request[r].new] \in User
      BY <1>1, StateFacts, RowFacts DEF AccountsInv
    <3>2. /\ Live(i) => user'[i] = [user[i] EXCEPT !.signer = request[r].new]
          /\ ~Live(i) => user'[i] = user[i]
          /\ \A u \in UserIds : u # i => user'[u] = user[u]
      BY <1>1, <1>5, <3>1, UpdateEffect DEF AccountsInv
    <3>3. Live(i) => /\ user'[i].status = user[i].status /\ user'[i].address = user[i].address
                     /\ user'[i].deployed = user[i].deployed /\ user'[i].wallet = user[i].wallet
      BY <3>1, <3>2 DEF User
    <3> QED
      BY <3>2, <3>3 DEF Live
  <2>2. Live(i) => user'[i].signer = request[r].new
    <3>1. Live(i) => user[i] \in User /\ [user[i] EXCEPT !.signer = request[r].new] \in User
      BY <1>1, StateFacts, RowFacts DEF AccountsInv
    <3>2. Live(i) => user'[i] = [user[i] EXCEPT !.signer = request[r].new]
      BY <1>1, <1>5, <3>1, UpdateEffect DEF AccountsInv
    <3> QED
      BY <3>1, <3>2 DEF User
  <2>3. \A u \in UserIds : \A b : LivesAt(u, b)' <=> LivesAt(u, b)
    BY <2>1 DEF LivesAt
  <2>4. \A b : OnChain(b)' <=> OnChain(b)
    BY <1>2 DEF OnChain
  <2>5. \A s \in Requests : /\ Manages(s)' <=> Manages(s) /\ s # r
                            /\ Works(s)' <=> Works(s) /\ s # r
                            /\ First(s)' <=> First(s)
                            /\ Second(s)' <=> Second(s)
                            /\ First(s) \/ Second(s) => s # r
                            /\ Works(s) => request[s].id \in UserIds
    BY <1>1, <1>2, <1>3, TypeFacts DEF Manages, Works, First, Second, AccountsInv
  <2>6. \A b \in Safes : LivesAt(i, b) => b = a
    BY <1>1 DEF AccountsInv, RequestInv, LivesAt
  <2>7. /\ request[r].new \in safe[a].owners
        /\ \A s \in Requests : request[s].pc = "recordSwap" /\ request[s].address = a => s = r
        /\ \A s \in Requests : request[s].pc = "swap" /\ First(s) => request[s].address # a
        /\ OnChain(a) /\ (Live(i) => user[i].deployed)
    BY <1>1 DEF AccountsInv, SignerInv, SwapInv, RequestInv
  <2>8. \A s \in Requests : Manages(s) => request[s].address \in Safes
    BY DEF AccountsInv, RequestInv, OnChain
  <2>9. RowsInv'
    <3>1. ASSUME NEW u \in UserIds, Live(u)', user'[u].address \in Safes,
                 ~user'[u].deployed \/ ~OnChain(user[u].address)'
          PROVE  user'[u].address = SafeOf(user'[u].signer)
      <4>1. CASE u # i
        BY <1>2, <2>1, <2>4, <3>1, <4>1 DEF AccountsInv, RowsInv, OnChain
      <4>2. CASE u = i
        <5>1. Live(i) /\ user[i].deployed /\ user[i].address \in Safes
          BY <2>1, <2>7, <3>1, <4>2
        <5>2. user[i].address = a
          BY <1>1, <2>6, <5>1 DEF LivesAt
        <5>3. OnChain(user[u].address)' /\ user'[u].deployed
          BY <1>2, <2>1, <2>7, <4>2, <5>1, <5>2 DEF OnChain
        <5> QED
          BY <3>1, <5>3
      <4> QED
        BY <4>1, <4>2
    <3>2. \A u \in UserIds : Live(u)' /\ user'[u].wallet => user'[u].deployed
      BY <2>1 DEF AccountsInv, RowsInv
    <3>3. \A u \in UserIds : Live(u)' /\ user'[u].address \in Safes => <<u, user'[u].address>> \in wallets'
      BY <1>2, <2>1 DEF AccountsInv, RowsInv
    <3>4. \A u, v \in UserIds, b \in Safes : <<u, b>> \in wallets' /\ <<v, b>> \in wallets' => u = v
      BY <1>2 DEF AccountsInv, RowsInv
    <3> QED
      BY <3>1, <3>2, <3>3, <3>4 DEF RowsInv
  <2>10. RequestInv'
    BY <1>1, <1>2, <1>3, <2>1, <2>4, <2>5 DEF AccountsInv, RequestInv, Works, Manages
  <2>11. GuardInv'
    <3>1. GuardedWhileOwner'
      BY <1>2, <2>1, <2>4 DEF AccountsInv, GuardInv, GuardedWhileOwner
    <3>2. \A u \in UserIds : \A b : LivesAt(u, b) => user'[u].wallet = user[u].wallet
      BY <2>1 DEF LivesAt
    <3>3. ASSUME NEW s \in Requests, s # r PROVE EnrolmentInv(s)'
      <4>1. EnrolmentInv(s) /\ request'[s] = request[s]
        BY <1>3, <3>3 DEF AccountsInv, GuardInv
      <4>2. \A t \in Requests : request'[t].pc = "recordEnable" => request'[t] = request[t]
        BY <1>3
      <4>3. \A t \in Requests : First(t) => request'[t] = request[t]
        BY <1>3, <2>5
      <4> QED
        BY <1>2, <2>3, <2>5, <3>2, <4>1, <4>2, <4>3 DEF EnrolmentInv
    <3>4. EnrolmentInv(r)'
      BY <1>3 DEF EnrolmentInv
    <3> QED
      BY <3>1, <3>3, <3>4 DEF GuardInv
  <2>12. SignerInv'
    <3>1. \A b \in unrecorded \cup Swapped(Requests) : b # a => b \in unrecorded' \cup Swapped(Requests)'
      BY <1>3, <1>5 DEF Swapped
    <3>2. ASSUME NEW u \in UserIds, Live(u)', OnChain(user[u].address)' PROVE Late(u)' \/ Fits(u)'
      <4>1. Live(u) /\ OnChain(user[u].address) /\ user[u].address \in Safes
        BY <1>2, <2>1, <3>2 DEF OnChain
      <4>2. Late(u) \/ Fits(u)
        BY <4>1 DEF AccountsInv, SignerInv
      <4>3. Late(u) => Late(u)'
        BY <1>1, <1>3, <2>1, <4>1 DEF Late
      <4>4. ASSUME Fits(u) PROVE Fits(u)'
        <5>1. user'[u].address = user[u].address
          BY <2>1, <4>1
        <5>2. user[u].address = a => u = i
          BY <1>1, <4>4 DEF Fits
        <5>3. u = i => user[u].address = a
          BY <1>1, <2>6, <4>1 DEF LivesAt
        <5>4. \/ user'[u].signer \in safe'[user'[u].address].owners
              \/ user'[u].address \in unrecorded' \cup Swapped(Requests)'
          <6>1. CASE u = i
            BY <1>2, <2>2, <2>7, <4>1, <5>1, <5>3, <6>1
          <6>2. CASE u # i
            BY <1>2, <2>1, <3>1, <4>4, <5>1, <5>2, <6>2 DEF Fits
          <6> QED
            BY <6>1, <6>2
        <5>5. \A s \in Requests : Manages(s)' /\ request'[s].address = user'[u].address => request'[s].id = u
          BY <1>3, <2>5, <4>4, <5>1 DEF Fits
        <5> QED
          BY <5>4, <5>5 DEF Fits
      <4> QED
        BY <4>2, <4>3, <4>4
    <3>3. ASSUME NEW s \in Requests, s # r PROVE SwapInv(s)'
      <4>1. SwapInv(s) /\ request'[s] = request[s]
        BY <1>3, <3>3 DEF AccountsInv, SignerInv
      <4>2. ASSUME request[s].pc = "recordSwap" \/ (request[s].pc = "swap" /\ First(s))
            PROVE  /\ request[s].id \in UserIds /\ request[s].address \in Safes /\ request[s].address # a
                   /\ LivesAt(request[s].id, request[s].address) => user'[request[s].id] = user[request[s].id]
        <5>1. request[s].id \in UserIds /\ request[s].address \in Safes
          BY <2>5, <2>8, <4>2 DEF Works, Manages
        <5>2. request[s].address # a
          BY <2>7, <3>3, <4>2
        <5>3. request[s].id = i => ~LivesAt(request[s].id, request[s].address)
          BY <2>6, <5>1, <5>2
        <5> QED
          BY <2>1, <5>1, <5>2, <5>3
      <4>3. \A t \in Requests : request'[t].pc = "recordSwap" => request'[t] = request[t]
        BY <1>3
      <4> QED
        BY <1>2, <2>3, <2>5, <4>1, <4>2, <4>3 DEF SwapInv
    <3>4. SwapInv(r)'
      BY <1>3 DEF SwapInv
    <3> QED
      BY <3>2, <3>3, <3>4 DEF SignerInv
  <2> QED
    BY <2>9, <2>10, <2>11, <2>12 DEF AccountsInv
<1>6. \/ user' = user /\ unrecorded' = unrecorded \cup {a}
      \/ UpdateUser(i, [user[i] EXCEPT !.signer = request[r].new]) /\ unrecorded' = unrecorded
  BY DEF RecordSwap
<1> QED
  BY <1>4, <1>5, <1>6

-----------------------------------------------------------------------------
\* A moved account has left its Safe, with all requests about it.
LEMMA MoveAccountStep ==
  ASSUME AccountsInv, AccountsTypeOK', NEW r \in Requests, MoveAccount(r)
  PROVE  AccountsInv'
<1> DEFINE i == request[r].id
           e == EOA(request[r].new)
           row == [user[i] EXCEPT !.address = EOA(request[r].new), !.signer = request[r].new]
<1>1. /\ request[r].pc = "move" /\ Works(r) /\ ~Manages(r) /\ i \in UserIds
      /\ request[r].new \in Keys /\ e \notin Safes
  <2>1. request[r].pc = "move" /\ Works(r) /\ ~Manages(r)
    BY DEF MoveAccount, Works, Manages
  <2> QED
    BY <2>1, TypeFacts, AddressFacts DEF AccountsInv
<1>2. safe' = safe /\ unrecorded' = unrecorded /\ Finish(r)
  BY DEF MoveAccount
<1>3. /\ request'[r].pc = "over"
      /\ \A s \in Requests : s # r => request'[s] = request[s]
  BY <1>2, FinishEffect DEF AccountsInv, Over
<1>4. CASE user' = user /\ wallets' = wallets
  <2>1. Quiet
    BY <1>1, <1>2, <1>3, <1>4 DEF Quiet, Works
  <2> QED
    BY <2>1, QuietStep
<1>5. CASE UpdateUser(i, row) /\ wallets' = {w \in wallets : w[1] # i} \cup {<<i, e>>}
  <2>1. /\ \A u \in UserIds : /\ user'[u].status = user[u].status
                              /\ Live(u)' <=> Live(u)
                              /\ u # i => user'[u] = user[u]
                              /\ Live(u) => user'[u].deployed = user[u].deployed /\ user'[u].wallet = user[u].wallet
        /\ Live(i) => user'[i].address = e
    <3>1. Live(i) => user[i] \in User /\ row \in User
      BY <1>1, StateFacts, RowFacts DEF AccountsInv
    <3>2. /\ Live(i) => user'[i] = row
          /\ ~Live(i) => user'[i] = user[i]
          /\ \A u \in UserIds : u # i => user'[u] = user[u]
      BY <1>1, <1>5, <3>1, UpdateEffect DEF AccountsInv
    <3>3. Live(i) => /\ user'[i].status = user[i].status /\ user'[i].address = e
                     /\ user'[i].deployed = user[i].deployed /\ user'[i].wallet = user[i].wallet
      BY <3>1, <3>2 DEF User
    <3> QED
      BY <3>2, <3>3 DEF Live
  <2>2. \A u \in UserIds : Live(u)' /\ user'[u].address \in Safes => u # i /\ user'[u] = user[u] /\ Live(u)
    BY <1>1, <2>1
  <2>3. \A u \in UserIds : \A b \in Safes : LivesAt(u, b)' => LivesAt(u, b) /\ user'[u] = user[u]
    BY <2>2 DEF LivesAt
  <2>4. \A b : OnChain(b)' <=> OnChain(b)
    BY <1>2 DEF OnChain
  <2>5. \A s \in Requests : /\ Manages(s)' <=> Manages(s)
                            /\ Manages(s) => s # r
                            /\ Works(s)' <=> Works(s) /\ s # r
                            /\ First(s)' <=> First(s)
                            /\ Second(s)' <=> Second(s)
                            /\ First(s) \/ Second(s) => s # r
                            /\ Works(s) => request[s].id \in UserIds
    BY <1>1, <1>2, <1>3, TypeFacts DEF Manages, Works, First, Second, AccountsInv
  <2>6. \A s \in Requests : Manages(s) => request[s].address \in Safes
    BY DEF AccountsInv, RequestInv, OnChain
  <2>7. RowsInv'
    <3>1. ASSUME NEW u \in UserIds, Live(u)', user'[u].address \in Safes
          PROVE  /\ <<u, user'[u].address>> \in wallets'
                 /\ ~user'[u].deployed \/ ~OnChain(user[u].address)' => user'[u].address = SafeOf(user'[u].signer)
      <4>1. u # i /\ user'[u] = user[u] /\ Live(u)
        BY <2>2, <3>1
      <4>2. <<u, user[u].address>> \in wallets
        BY <3>1, <4>1 DEF AccountsInv, RowsInv
      <4>3. OnChain(user[u].address)' <=> OnChain(user[u].address)
        BY <1>2, <4>1 DEF OnChain
      <4> QED
        BY <1>5, <3>1, <4>1, <4>2, <4>3 DEF AccountsInv, RowsInv
    <3>2. \A u, v \in UserIds, b \in Safes : <<u, b>> \in wallets' /\ <<v, b>> \in wallets' => u = v
      <4>1. \A u \in UserIds, b \in Safes : <<u, b>> \in wallets' => <<u, b>> \in wallets
        BY <1>1, <1>5
      <4> QED
        BY <4>1 DEF AccountsInv, RowsInv
    <3>3. \A u \in UserIds : Live(u)' /\ user'[u].wallet => user'[u].deployed
      BY <2>1 DEF AccountsInv, RowsInv
    <3> QED
      BY <3>1, <3>2, <3>3 DEF RowsInv
  <2>8. RequestInv'
    <3>1. ASSUME NEW s \in Requests, Works(s)'
          PROVE  /\ user'[request'[s].id].status # "none"
                 /\ Live(request[s].id)' /\ user'[request'[s].id].address \in Safes
                      => user'[request'[s].id].address = request'[s].address
                 /\ Manages(s)' => OnChain(request[s].address)' /\ (Live(request[s].id)' => user'[request'[s].id].deployed)
                 /\ request'[s].pc = "deploy" /\ Live(request[s].id)' /\ user'[request'[s].id].address \in Safes
                      => request'[s].address = SafeOf(request'[s].signer)
                 /\ request'[s].pc \in {"addOwner", "removeOwner", "swap"}
                      => request'[s].nonce <= safe'[request'[s].address].nonce
                 /\ request'[s].pc \in {"setGuard", "clearGuard"}
                      => request'[s].nonce + 1 <= safe'[request'[s].address].nonce
      <4>1. request'[s] = request[s] /\ Works(s) /\ request[s].id \in UserIds
        BY <1>3, <2>5, <3>1
      <4>2. Live(request[s].id)' <=> Live(request[s].id)
        BY <2>1, <4>1 DEF Live
      <4>3. OnChain(request[s].address)' <=> OnChain(request[s].address)
        BY <1>2, <4>1 DEF OnChain
      <4> QED
        BY <1>2, <2>1, <2>2, <2>5, <4>1, <4>2, <4>3 DEF AccountsInv, RequestInv
    <3>2. \A s \in Requests : Manages(s)' => Works(s)'
      BY DEF Manages, Works
    <3>3. \A s \in Requests : request'[s].pc \in {"deploy", "addOwner", "removeOwner", "swap", "setGuard", "clearGuard"}
                                => Works(s)'
      BY DEF Works
    <3> QED
      BY <3>1, <3>2, <3>3 DEF RequestInv
  <2>9. GuardInv'
    <3>1. GuardedWhileOwner'
      <4>1. ASSUME NEW u \in UserIds, Live(u)', user'[u].wallet, OnChain(user[u].address)',
                   Service \in safe'[user'[u].address].owners
            PROVE  safe'[user'[u].address].guard
        <5>1. user'[u] = user[u] /\ Live(u) /\ OnChain(user[u].address)
          BY <1>2, <2>2, <4>1 DEF OnChain
        <5> QED
          BY <1>2, <4>1, <5>1 DEF AccountsInv, GuardInv, GuardedWhileOwner
      <4> QED
        BY <4>1 DEF GuardedWhileOwner
    <3>2. ASSUME NEW s \in Requests, s # r PROVE EnrolmentInv(s)'
      <4>1. EnrolmentInv(s) /\ request'[s] = request[s]
        BY <1>3, <3>2 DEF AccountsInv, GuardInv
      <4>2. \A t \in Requests : request'[t].pc = "recordEnable" => request'[t] = request[t]
        BY <1>3
      <4>3. \A t \in Requests : First(t) => request'[t] = request[t]
        BY <1>3, <2>5
      <4>4. request[s].pc \in {"recordEnable", "setGuard", "addOwner"} => request[s].address \in Safes
        BY <2>6 DEF Manages
      <4> QED
        BY <1>2, <2>3, <2>5, <4>1, <4>2, <4>3, <4>4 DEF EnrolmentInv
    <3>3. EnrolmentInv(r)'
      BY <1>3 DEF EnrolmentInv
    <3> QED
      BY <3>1, <3>2, <3>3 DEF GuardInv
  <2>10. SignerInv'
    <3>1. Swapped(Requests)' = Swapped(Requests)
      BY <1>1, <1>3 DEF Swapped
    <3>2. ASSUME NEW u \in UserIds, Live(u)', OnChain(user[u].address)' PROVE Late(u)' \/ Fits(u)'
      <4>1. user'[u] = user[u] /\ Live(u) /\ OnChain(user[u].address)
        BY <1>2, <2>2, <3>2 DEF OnChain
      <4>2. Late(u) \/ Fits(u)
        BY <4>1 DEF AccountsInv, SignerInv
      <4>3. Late(u) => Late(u)'
        BY <1>3, <4>1 DEF Late
      <4>4. Fits(u) => Fits(u)'
        BY <1>2, <1>3, <2>5, <3>1, <4>1 DEF Fits
      <4> QED
        BY <4>2, <4>3, <4>4
    <3>3. ASSUME NEW s \in Requests, s # r PROVE SwapInv(s)'
      <4>1. SwapInv(s) /\ request'[s] = request[s]
        BY <1>3, <3>3 DEF AccountsInv, SignerInv
      <4>2. request[s].pc \in {"recordSwap", "swap"} => request[s].id \in UserIds /\ request[s].address \in Safes
        BY <2>5, <2>6 DEF Works, Manages
      <4>3. \A t \in Requests : request'[t].pc = "recordSwap" => request'[t] = request[t]
        BY <1>3
      <4> QED
        BY <1>2, <2>3, <2>5, <4>1, <4>2, <4>3 DEF SwapInv
    <3>4. SwapInv(r)'
      BY <1>3 DEF SwapInv
    <3> QED
      BY <3>2, <3>3, <3>4 DEF SignerInv
  <2> QED
    BY <2>7, <2>8, <2>9, <2>10 DEF AccountsInv
<1>6. \/ user' = user /\ wallets' = wallets
      \/ UpdateUser(i, row) /\ wallets' = {w \in wallets : w[1] # i} \cup {<<i, e>>}
  BY DEF MoveAccount, db
<1> QED
  BY <1>4, <1>5, <1>6

-----------------------------------------------------------------------------
(* Each remaining step is a quiet one or begins a request.                 *)
LEMMA RowRouteStep ==
  ASSUME AccountsInv, AccountsTypeOK', NEW u \in UserIds,
         \/ SetSecurityAnswer(u) \/ Delete(u)
         \/ \E enabled \in BOOLEAN : SetAccountRecovery(u, enabled)
         \/ \E c \in Codes : RequestRecoveryOTP(u, c)
  PROVE  AccountsInv'
<1>1. user \in [UserIds -> User \cup {NoUser, Deleted}]
  BY DEF AccountsInv, AccountsTypeOK
<1>2. CASE SetSecurityAnswer(u)
  <2>1. user[u] \in User /\ user' = [user EXCEPT ![u] = [user[u] EXCEPT !.answers = TRUE]] /\ Live(u)
    BY <1>1, <1>2, StateFacts DEF SetSecurityAnswer, AccountsInv
  <2>2. /\ Live(u)' /\ user'[u].address = user[u].address /\ user'[u].signer = user[u].signer
        /\ user'[u].deployed = user[u].deployed /\ user'[u].wallet = user[u].wallet
        /\ \A v \in UserIds : v # u => user'[v] = user[v]
    BY <1>1, <2>1 DEF Live, User
  <2>3. Quiet
    BY <1>2, <2>1, <2>2 DEF Quiet, SetSecurityAnswer
  <2> QED
    BY <2>3, QuietStep
<1>3. ASSUME NEW enabled \in BOOLEAN, SetAccountRecovery(u, enabled) PROVE AccountsInv'
  <2>1. user[u] \in User /\ user' = [user EXCEPT ![u] = [user[u] EXCEPT !.account = enabled]] /\ Live(u)
    BY <1>1, <1>3, StateFacts DEF SetAccountRecovery, AccountsInv
  <2>2. /\ Live(u)' /\ user'[u].address = user[u].address /\ user'[u].signer = user[u].signer
        /\ user'[u].deployed = user[u].deployed /\ user'[u].wallet = user[u].wallet
        /\ \A v \in UserIds : v # u => user'[v] = user[v]
    BY <1>1, <2>1 DEF Live, User
  <2>3. Quiet
    BY <1>3, <2>1, <2>2 DEF Quiet, SetAccountRecovery
  <2> QED
    BY <2>3, QuietStep
<1>4. CASE Delete(u)
  <2>1. Quiet
    BY <1>1, <1>4 DEF Quiet, Delete, Deleted, Live
  <2> QED
    BY <2>1, QuietStep
<1>5. ASSUME NEW c \in Codes, RequestRecoveryOTP(u, c) PROVE AccountsInv'
  <2>1. Quiet
    BY <1>5 DEF Quiet, RequestRecoveryOTP
  <2> QED
    BY <2>1, QuietStep
<1> QED
  BY <1>2, <1>3, <1>4, <1>5

\* A request starts with a copy of the row, or is done at once.
LEMMA StartStep ==
  ASSUME AccountsInv, AccountsTypeOK', NEW r \in Requests, NEW u \in UserIds,
         \/ DeployPrimaryWallet(r, u)
         \/ ConfirmEnableWalletRecovery(r, u) \/ ConfirmDisableWalletRecovery(r, u)
         \/ \E new \in Keys, c \in Codes : RecoverWallet(r, u, new, c) \/ Recover(r, u, new, c)
  PROVE  AccountsInv'
<1>1. request[r] = Idle /\ Live(u) /\ AccountsTypeOK
  BY DEF DeployPrimaryWallet, ConfirmEnableWalletRecovery, ConfirmDisableWalletRecovery, RecoverWallet, Recover,
         Proves, AccountsInv
<1>2. ~Works(r)
  BY <1>1 DEF Works, Idle
<1>3. {"deploy", "addOwner", "removeOwner", "swap", "move"} \subseteq Pcs
  BY DEF Pcs
<1>4. ASSUME NEW q \in Work, request' = [request EXCEPT ![r] = q], UNCHANGED <<db, safe, unrecorded>>,
             q.id = u, q.address = user[u].address, q.signer = user[u].signer,
             q.pc \in {"deploy", "addOwner", "removeOwner", "swap", "move"},
             q.pc = "deploy" => ~user[u].deployed,
             q.pc \in {"addOwner", "removeOwner", "swap"} =>
               OnChain(user[u].address) /\ q.nonce = safe[user[u].address].nonce,
             q.pc = "addOwner" => user[u].deployed /\ ~user[u].wallet,
             q.pc = "removeOwner" => user[u].wallet /\ Service \in safe[user[u].address].owners,
             q.pc = "swap" => user[u].wallet /\ user[u].signer \in safe[user[u].address].owners
      PROVE  AccountsInv'
  <2>1. request'[r] = q /\ \A s \in Requests : s # r => request'[s] = request[s]
    BY <1>1, <1>4, BeginEffect
  <2>2. Begins(r)
    BY <1>1, <1>2, <1>4, <2>1 DEF Begins, db
  <2> QED
    BY <2>2, BeginStep
<1>5. CASE DeployPrimaryWallet(r, u)
  <2>1. CASE user[u].deployed
    <3>1. Finish(r) /\ UNCHANGED <<user, wallets, safe, unrecorded>>
      BY <1>5, <2>1 DEF DeployPrimaryWallet
    <3>2. request'[r].pc = "over" /\ \A s \in Requests : s # r => request'[s] = request[s]
      BY <1>1, <3>1, FinishEffect DEF Over
    <3>3. Quiet
      BY <1>1, <3>1, <3>2 DEF Quiet, Works, Idle
    <3> QED
      BY <3>3, QuietStep
  <2>2. CASE ~user[u].deployed
    <3>1. /\ request' = [request EXCEPT ![r] = Copy(u, "deploy")]
          /\ UNCHANGED <<user, wallets, safe, unrecorded>>
      BY <1>5, <2>2 DEF DeployPrimaryWallet
    <3>2. /\ Copy(u, "deploy") \in Work /\ Copy(u, "deploy").pc = "deploy" /\ Copy(u, "deploy").id = u
          /\ Copy(u, "deploy").address = user[u].address /\ Copy(u, "deploy").signer = user[u].signer
      BY <1>1, <1>3, CopyFacts
    <3>3. request'[r] = Copy(u, "deploy") /\ \A s \in Requests : s # r => request'[s] = request[s]
      BY <1>1, <3>1, <3>2, BeginEffect
    <3>4. Begins(r)
      BY <1>1, <1>2, <2>2, <3>1, <3>2, <3>3 DEF Begins
    <3> QED
      BY <3>4, BeginStep
  <2> QED
    BY <2>1, <2>2
<1>6. CASE ConfirmEnableWalletRecovery(r, u)
  <2> DEFINE n == safe[user[u].address].nonce
             q == [Copy(u, "addOwner") EXCEPT !.nonce = n]
  <2>1. n \in Nat /\ OnChain(user[u].address) /\ user[u].deployed /\ ~user[u].wallet
    BY <1>1, <1>6, TypeFacts DEF ConfirmEnableWalletRecovery, OnChain
  <2>2. /\ q \in Work /\ q.pc = "addOwner" /\ q.id = u /\ q.address = user[u].address
        /\ q.signer = user[u].signer /\ q.nonce = n
    <3> HIDE DEF n
    <3> QED
      BY <1>1, <1>3, <2>1, CopyFacts
  <2>3. request' = [request EXCEPT ![r] = q] /\ UNCHANGED <<db, safe, unrecorded>>
    BY <1>6 DEF ConfirmEnableWalletRecovery
  <2> HIDE DEF q
  <2> QED
    BY <1>4, <2>1, <2>2, <2>3
<1>7. CASE ConfirmDisableWalletRecovery(r, u)
  <2> DEFINE n == safe[user[u].address].nonce
             q == [Copy(u, "removeOwner") EXCEPT !.nonce = n]
  <2>1. n \in Nat /\ OnChain(user[u].address) /\ user[u].wallet /\ Service \in safe[user[u].address].owners
    BY <1>1, <1>7, TypeFacts DEF ConfirmDisableWalletRecovery, OnChain
  <2>2. /\ q \in Work /\ q.pc = "removeOwner" /\ q.id = u /\ q.address = user[u].address
        /\ q.signer = user[u].signer /\ q.nonce = n
    <3> HIDE DEF n
    <3> QED
      BY <1>1, <1>3, <2>1, CopyFacts
  <2>3. request' = [request EXCEPT ![r] = q] /\ UNCHANGED <<db, safe, unrecorded>>
    BY <1>7 DEF ConfirmDisableWalletRecovery
  <2> HIDE DEF q
  <2> QED
    BY <1>4, <2>1, <2>2, <2>3
<1>8. ASSUME NEW new \in Keys, NEW c \in Codes, NEW pc \in {"swap", "move"}, Recovery(r, u, new, c, pc),
             UNCHANGED <<db, safe, unrecorded>>,
             pc = "swap" => /\ OnChain(user[u].address) /\ user[u].wallet
                            /\ user[u].signer \in safe[user[u].address].owners
      PROVE  AccountsInv'
  <2> DEFINE n == IF OnChain(user[u].address) THEN safe[user[u].address].nonce ELSE 0
             q == [Copy(u, pc) EXCEPT !.new = new, !.code = c, !.nonce = n]
  <2>1. n \in Nat /\ (OnChain(user[u].address) => n = safe[user[u].address].nonce)
    BY <1>1, TypeFacts DEF OnChain
  <2>2. /\ q \in Work /\ q.pc = pc /\ q.id = u /\ q.address = user[u].address
        /\ q.signer = user[u].signer /\ q.nonce = n
    <3>1. Copy(u, pc) \in Work /\ Copy(u, pc).pc = pc /\ Copy(u, pc).id = u
          /\ Copy(u, pc).address = user[u].address /\ Copy(u, pc).signer = user[u].signer
      BY <1>1, <1>3, <1>8, CopyFacts
    <3> HIDE DEF n
    <3> QED
      BY <2>1, <3>1 DEF Work
  <2>3. request' = [request EXCEPT ![r] = q]
    BY <1>8 DEF Recovery
  <2> HIDE DEF q, n
  <2> QED
    BY <1>4, <1>8, <2>1, <2>2, <2>3
<1>9. ASSUME NEW new \in Keys, NEW c \in Codes, RecoverWallet(r, u, new, c) PROVE AccountsInv'
  BY <1>8, <1>9 DEF RecoverWallet
<1>10. ASSUME NEW new \in Keys, NEW c \in Codes, Recover(r, u, new, c) PROVE AccountsInv'
  BY <1>8, <1>10 DEF Recover
<1> QED
  BY <1>5, <1>6, <1>7, <1>9, <1>10

\* Statements that the invariants are not about, and failures: a request ends.
LEMMA EndStep ==
  ASSUME AccountsInv, AccountsTypeOK', NEW r \in Requests, CreateGroup(r) \/ RecordDisabled(r) \/ Fail(r)
  PROVE  AccountsInv'
<1>1. Finish(r) /\ safe' = safe /\ wallets' = wallets /\ unrecorded \subseteq unrecorded'
  BY DEF CreateGroup, RecordDisabled, Fail, db
<1>2. request'[r].pc = "over" /\ \A s \in Requests : s # r => request'[s] = request[s]
  BY <1>1, FinishEffect DEF AccountsInv, Over
<1>3. request[r].pc = "recordSwap" => request[r].address \in unrecorded'
  BY DEF CreateGroup, RecordDisabled, Fail, Swapped
<1>4. \A u \in UserIds :
       \/ user'[u] = user[u]
       \/ /\ Live(u) /\ Live(u)' /\ user'[u].address = user[u].address /\ user'[u].signer = user[u].signer
          /\ user'[u].deployed = user[u].deployed /\ (user'[u].wallet => user[u].wallet)
  <2>1. CASE user' = user
    BY <2>1
  <2>2. CASE RecordDisabled(r)
    <3> DEFINE i == request[r].id
    <3>1. i \in UserIds /\ UpdateUser(i, [user[i] EXCEPT !.wallet = FALSE])
      BY <2>2, TypeFacts DEF RecordDisabled, Works, AccountsInv
    <3>2. Live(i) => user[i] \in User /\ [user[i] EXCEPT !.wallet = FALSE] \in User
      BY <3>1, StateFacts, RowFacts DEF AccountsInv
    <3>3. /\ Live(i) => user'[i] = [user[i] EXCEPT !.wallet = FALSE]
          /\ ~Live(i) => user'[i] = user[i]
          /\ \A u \in UserIds : u # i => user'[u] = user[u]
      BY <3>1, <3>2, UpdateEffect DEF AccountsInv
    <3>4. Live(i) => /\ user'[i].status = user[i].status
                     /\ user'[i].address = user[i].address /\ user'[i].signer = user[i].signer
                     /\ user'[i].deployed = user[i].deployed /\ ~user'[i].wallet
      BY <3>2, <3>3 DEF User
    <3> QED
      BY <3>3, <3>4 DEF Live
  <2> QED
    BY <2>1, <2>2 DEF CreateGroup, Fail, db
<1>5. Quiet
  BY <1>1, <1>2, <1>3, <1>4 DEF Quiet, Works
<1> QED
  BY <1>5, QuietStep

LEMMA LateDeployStep ==
  ASSUME AccountsInv, AccountsTypeOK', NEW r \in Requests, SubmitDeploy(r)
  PROVE  AccountsInv'
<1>1. CASE safe[SafeOf(request[r].signer)].state = "deployed"
  <2>1. Finish(r) /\ UNCHANGED <<db, safe, unrecorded>> /\ request[r].pc = "deploy"
    BY <1>1 DEF SubmitDeploy
  <2>2. request'[r].pc = "over" /\ \A s \in Requests : s # r => request'[s] = request[s]
    BY <2>1, FinishEffect DEF AccountsInv, Over
  <2>3. Quiet
    BY <2>1, <2>2 DEF Quiet, Works, db
  <2> QED
    BY <2>3, QuietStep
<1> QED
  BY <1>1, SubmitDeployStep

LEMMA SystemStep ==
  ASSUME AccountsInv, AccountsTypeOK',
         \/ \E c \in Codes : ExpireOTP(c)
         \/ BootService \/ BootSaveService \/ BootGuard \/ BootSaveGuard \/ Restart
         \/ UNCHANGED accountsVars
  PROVE  AccountsInv'
<1>1. CASE Restart
  <2>1. \A r \in Requests : request'[r] = request[r] \/ request'[r] = Over
    BY <1>1 DEF Restart
  <2>2. \A r \in Requests : request[r].pc = "recordSwap" => request[r].address \in unrecorded'
    BY <1>1 DEF Restart, Swapped
  <2>3. Quiet
    BY <1>1, <2>1, <2>2 DEF Quiet, Works, Over, Restart, db
  <2> QED
    BY <2>3, QuietStep
<1>2. CASE UNCHANGED <<user, wallets, safe, request, unrecorded>>
  <2>1. Quiet
    BY <1>2 DEF Quiet
  <2> QED
    BY <2>1, QuietStep
<1>3. Restart \/ UNCHANGED <<user, wallets, safe, request, unrecorded>>
  BY DEF ExpireOTP, BootService, BootSaveService, BootGuard, BootSaveGuard, Boot, accountsVars, db
<1> QED
  BY <1>1, <1>2, <1>3

LEMMA AccountsInvStep == AccountsInv /\ [AccountsNext]_accountsVars => AccountsInv'
<1> SUFFICES ASSUME AccountsInv, [AccountsNext]_accountsVars PROVE AccountsInv'
  OBVIOUS
<1>1. AccountsTypeOK'
  BY TypeStep DEF AccountsInv
<1>2. CASE AccountRoutes
  BY <1>1, <1>2, RegisterStep, RowRouteStep, StartStep DEF AccountRoutes
<1>3. CASE RecoveryRoutes
  BY <1>1, <1>3, RowRouteStep, StartStep DEF RecoveryRoutes
<1>4. CASE WalletRecoveryRoutes
  BY <1>1, <1>4, StartStep DEF WalletRecoveryRoutes
<1>5. ASSUME NEW r \in Requests,
             \/ SubmitDeploy(r) \/ RecordDeploy(r) \/ CreateGroup(r)
             \/ AddOwner(r) \/ SetGuard(r) \/ RecordEnabled(r)
             \/ RemoveOwner(r) \/ ClearGuard(r) \/ RecordDisabled(r)
             \/ Swap(r) \/ RecordSwap(r) \/ MoveAccount(r) \/ Fail(r)
      PROVE  AccountsInv'
  BY <1>1, <1>5, LateDeployStep, RecordDeployStep, EndStep, AddOwnerStep, SetGuardStep, RecordEnabledStep,
     RemoveOwnerStep, ClearGuardStep, SwapStep, RecordSwapStep, MoveAccountStep
<1>6. ASSUME NEW k \in Keys, DeployLands(k) PROVE AccountsInv'
  BY <1>1, <1>6, DeployLandsStep
<1>7. CASE \/ \E c \in Codes : ExpireOTP(c)
           \/ BootService \/ BootSaveService \/ BootGuard \/ BootSaveGuard \/ Restart
           \/ UNCHANGED accountsVars
  BY <1>1, <1>7, SystemStep
<1> QED
  BY <1>2, <1>3, <1>4, <1>5, <1>6, <1>7 DEF AccountsNext

LEMMA AccountsInvInit == AccountsInit => AccountsInv
<1> SUFFICES ASSUME AccountsInit PROVE AccountsInv
  OBVIOUS
<1>1. /\ \A u \in UserIds : ~Live(u)
      /\ \A r \in Requests : request[r].pc = "idle"
      /\ wallets = {}
  BY DEF AccountsInit, Empty, Live, NoUser, Idle
<1>2. \A r \in Requests : ~Works(r) /\ ~Manages(r) /\ ~First(r) /\ ~Second(r)
  BY <1>1 DEF Works, Manages, First, Second
<1> QED
  BY <1>1, <1>2, TypeInit DEF AccountsInv, RowsInv, RequestInv, GuardInv, GuardedWhileOwner, EnrolmentInv,
     SignerInv, SwapInv

LEMMA SignerFollows == AccountsInv => SignerInStep
<1> SUFFICES ASSUME AccountsInv, NEW u \in UserIds, Live(u), user[u].deployed, OnChain(user[u].address),
                    user[u].address \notin unrecorded \cup Swapped(Requests)
             PROVE  user[u].signer \in safe[user[u].address].owners
  BY DEF SignerInStep
<1>1. Fits(u)
  BY DEF AccountsInv, SignerInv, Late
<1> QED
  BY <1>1 DEF Fits

\* Whatever enrolments, disablings, recoveries, moves, failures and restarts overlap, the
\* recovery service is an owner of an enrolled wallet only under its guard.
THEOREM ServiceStaysGuarded == AccountsSpec => []GuardedWhileOwner
<1>1. AccountsInv => GuardedWhileOwner
  BY DEF AccountsInv, GuardInv
<1> QED
  BY <1>1, AccountsInvInit, AccountsInvStep, PTL DEF AccountsSpec

\* The signer on record owns the deployed wallet, unless its swap is still to be recorded
\* or could not be.
THEOREM SignerStaysInStep == AccountsSpec => []SignerInStep
  BY AccountsInvInit, AccountsInvStep, SignerFollows, PTL DEF AccountsSpec
=============================================================================
