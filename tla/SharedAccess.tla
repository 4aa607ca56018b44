---------------------------- MODULE SharedAccess ----------------------------
(***************************************************************************)
(* One group of the shared-access component: the rows the backend keeps in *)
(* its database, the request goroutines that move an action through        *)
(* PENDING, SUBMITTED, EXECUTED and REJECTED, the relayer pool, and the    *)
(* group's Safe on Base with the transactions in flight to it.             *)
(*                                                                         *)
(* A request reads the action once, keeps that copy, and writes the whole  *)
(* row back with DB.Save; a step of a goroutine below ends where another   *)
(* goroutine's write can come between.  What the database does inside one  *)
(* transaction is one step.                                                *)
(***************************************************************************)
EXTENDS Integers, FiniteSets

CONSTANTS Members,          \* addresses; their numeric order is the address order
          MaxActions,       \* bound: rows of the pending_actions table
          MaxTxs,           \* bound: transactions submitted to the chain
          PoolSize,         \* relayers in the pool
          Requests,         \* request goroutines serving the HTTP API
          Sweeper,          \* the goroutine that expires stale actions
          Proposals,        \* what callers may propose
          InitialRoles,     \* the group's members when it was created
          InitialThreshold, \* the group's threshold when it was created
          MaxRotations,     \* bound: signing-key replacements per member
          FaultKinds,       \* which of "timeout", "lost", "database", "restart" may happen
          MaxFaults         \* bound: how many of them happen

ActionIds  == 1..MaxActions
TxIds      == 1..MaxTxs
Relayers   == 1..PoolSize
Keys       == 0..MaxRotations
NoTx       == 0
NoRelayer  == 0
NoAction   == 0
Goroutines == Requests \cup {Sweeper} \cup ActionIds  \* a boot-time waiter is named after its action

Roles       == {"INITIATOR", "APPROVER", "VIEW_ONLY", "INITIATOR_APPROVER"}
NoMember    == "NONE"
CanInitiate(role) == role \in {"INITIATOR", "INITIATOR_APPROVER"}
CanApprove(role)  == role \in {"APPROVER", "INITIATOR_APPROVER"}

ManagementKinds == {"add_member", "remove_member", "change_threshold", "disable_group"}
Kinds           == ManagementKinds \cup {"payment"}
ProposalType    ==
  {w \in [kind: Kinds, target: Members \cup {0}, role: Roles \cup {NoMember}, newThreshold: Nat] :
     w.kind \in {"add_member", "remove_member"} => w.target \in Members}
NoProposal      == [kind |-> "payment", target |-> 0, role |-> NoMember, newThreshold |-> 0]

Signatures == [member: Members, key: Keys]

ASSUME MembersAssumption   == Members \subseteq Nat \ {0} /\ IsFiniteSet(Members)
ASSUME BoundsAssumption    == /\ MaxActions \in Nat /\ MaxTxs \in Nat
                              /\ PoolSize \in Nat \ {0} /\ MaxRotations \in Nat /\ MaxFaults \in Nat
ASSUME GoroutineAssumption == /\ Sweeper \notin Requests
                              /\ (Requests \cup {Sweeper}) \cap ActionIds = {}
ASSUME ProposalAssumption  == Proposals \subseteq ProposalType
ASSUME GroupAssumption     == /\ InitialRoles \in [Members -> Roles \cup {NoMember}]
                              /\ InitialThreshold \in Nat \ {0}

VARIABLES
  group,     \* ClosedGroup: the threshold and the disabled flag
  role,      \* GroupMember rows: role[m], "NONE" when m has no row
  action,    \* PendingAction rows
  approvals, \* PendingActionApproval rows: approvals[a], a set of signatures
  signer,    \* signer[m]: the key that currently controls m's wallet
  safe,      \* the Safe on chain: its owners, threshold and nonce
  txs,       \* execTransaction calls handed to the network
  busy,      \* the relayer pool: relayers marked in use
  proc,      \* the goroutines
  hooks,     \* what the domain component that proposed an action was told
  faults     \* faults so far (bound only)

dbVars    == <<group, role, action, approvals>>
chainVars == <<safe, txs, signer>>
vars      == <<group, role, action, approvals, signer, safe, txs, busy, proc, hooks, faults>>

-----------------------------------------------------------------------------
(* Rows and goroutines *)

Statuses == {"NONE", "PENDING", "SUBMITTED", "EXECUTED", "REJECTED"}

Row    == [status: Statuses, what: ProposalType, onChain: BOOLEAN, required: Nat,
           nonce: Nat, tx: TxIds \cup {NoTx}, relayer: Relayers \cup {NoRelayer}]
NoRow  == [status |-> "NONE", what |-> NoProposal, onChain |-> FALSE, required |-> 0,
           nonce |-> 0, tx |-> NoTx, relayer |-> NoRelayer]

PCs    == {"idle", "proposing", "approving", "tallying", "executing", "saving", "waiting",
           "finishing", "syncing", "rejecting", "rejected"}

Proc   == [pc: PCs, a: ActionIds \cup {NoAction}, member: Members \cup {0}, tx: TxIds \cup {NoTx},
           relayer: Relayers \cup {NoRelayer}, sigs: SUBSET Signatures,
           what: ProposalType, onChain: BOOLEAN, required: Nat]
IdleProc == [pc |-> "idle", a |-> NoAction, member |-> 0, tx |-> NoTx, relayer |-> NoRelayer,
             sigs |-> {}, what |-> NoProposal, onChain |-> FALSE, required |-> 0]

Tx     == [status: {"unused", "pending", "success", "reverted"}, a: ActionIds \cup {NoAction},
           sigs: SUBSET Signatures, relayer: Relayers \cup {NoRelayer}]
NoTxn  == [status |-> "unused", a |-> NoAction, sigs |-> {}, relayer |-> NoRelayer]

Approvers == {m \in Members : CanApprove(role[m])}

Init ==
  /\ group     = [threshold |-> InitialThreshold, disabled |-> FALSE]
  /\ role      = InitialRoles
  /\ action    = [a \in ActionIds |-> NoRow]
  /\ approvals = [a \in ActionIds |-> {}]
  /\ signer    = [m \in Members |-> 0]
  /\ safe      = [owners |-> {m \in Members : CanApprove(InitialRoles[m])},
                  threshold |-> InitialThreshold, nonce |-> 0]
  /\ txs       = [t \in TxIds |-> NoTxn]
  /\ busy      = {}
  /\ proc      = [g \in Goroutines |-> IdleProc]
  /\ hooks     = [a \in ActionIds |-> [executed |-> 0, rejected |-> FALSE]]
  /\ faults    = 0

Goto(g, pc) == proc' = [proc EXCEPT ![g].pc = pc]
Done(g)     == proc' = [proc EXCEPT ![g] = IdleProc]

SaveRow(a, status, tx, relayer) ==  \* DB.Save of a goroutine's own copy of the row
  action' = [action EXCEPT ![a].status = status, ![a].tx = tx, ![a].relayer = relayer]

Fault(kind) == /\ kind \in FaultKinds
               /\ faults < MaxFaults
               /\ faults' = faults + 1
BothFaults(k, l) == /\ {k, l} \subseteq FaultKinds
                    /\ faults + 2 <= MaxFaults
                    /\ faults' = faults + 2

-----------------------------------------------------------------------------
(* The Safe contract, as the code relies on it *)

\* checkNSignatures reads the first `threshold` signatures in address order;
\* each must be a current owner's, made with the key that owner answers to now.
FirstSigs(sigs) == {s \in sigs : Cardinality({r \in sigs : r.member <= s.member}) <= safe.threshold}
SignaturesValid(sigs) == /\ Cardinality(sigs) >= safe.threshold
                         /\ \A s \in FirstSigs(sigs) : s.member \in safe.owners /\ s.key = signer[s.member]

\* The inner call of a management action reverts unless the Safe's owner
\* manager accepts it.
InnerCallValid(w) ==
  LET n == Cardinality(safe.owners) IN
  /\ w.kind = "add_member"       => w.target \notin safe.owners /\ w.newThreshold <= n + 1
  /\ w.kind = "remove_member"    => w.target \in safe.owners /\ w.newThreshold <= n - 1
  /\ w.kind = "change_threshold" => w.newThreshold <= n

\* Mutant: signatures that stay good for any nonce.
ExecReplayable(a, sigs) == SignaturesValid(sigs) /\ InnerCallValid(action[a].what)

ExecSucceeds(a, sigs) == /\ action[a].nonce = safe.nonce
                         /\ SignaturesValid(sigs)
                         /\ InnerCallValid(action[a].what)

SafeAfter(w) ==
  [owners    |-> CASE w.kind = "add_member"    -> safe.owners \cup {w.target}
                   [] w.kind = "remove_member" -> safe.owners \ {w.target}
                   [] OTHER                    -> safe.owners,
   threshold |-> IF w.kind \in ManagementKinds THEN w.newThreshold ELSE safe.threshold,
   nonce     |-> safe.nonce + 1]

\* A relayer's transactions are mined in the order of its account nonces.
NextOfRelayer(t) == \A u \in 1..(t - 1) : ~(txs[u].status = "pending" /\ txs[u].relayer = txs[t].relayer)

Mine(t) ==
  /\ txs[t].status = "pending"
  /\ NextOfRelayer(t)
  /\ \/ /\ ExecSucceeds(txs[t].a, txs[t].sigs)
        /\ txs'  = [txs EXCEPT ![t].status = "success"]
        /\ safe' = SafeAfter(action[txs[t].a].what)
     \/ \* the Safe's checks fail, or the payment's own call reverts
        /\ ~ExecSucceeds(txs[t].a, txs[t].sigs) \/ action[txs[t].a].what.kind = "payment"
        /\ txs' = [txs EXCEPT ![t].status = "reverted"]
        /\ UNCHANGED safe
  /\ UNCHANGED <<dbVars, signer, busy, proc, hooks, faults>>

\* Wallet recovery (users component) replaces the key behind a member's wallet.
RotateSigner(m) ==
  /\ signer[m] < MaxRotations
  /\ signer' = [signer EXCEPT ![m] = @ + 1]
  /\ UNCHANGED <<dbVars, safe, txs, busy, proc, hooks, faults>>

-----------------------------------------------------------------------------
(* Proposing *)

Pending(a)   == action[a].status = "PENDING"
InFlight(a)  == action[a].status \in {"PENDING", "SUBMITTED"}
FreeIds      == {a \in ActionIds : action[a].status = "NONE"}
Proposing    == {g \in Goroutines : proc[g].pc = "proposing"}
IsNextId(a)  == a \in FreeIds /\ \A b \in FreeIds : a <= b

RequireNoConflictingManagementAction ==
  ~\E a \in ActionIds : InFlight(a) /\ action[a].what.kind \in ManagementKinds

\* Does this proposal become a call to the Safe?
CallsSafe(w) ==
  /\ w.kind # "disable_group"
  /\ w.kind = "add_member" => CanApprove(w.role)
  /\ w.kind = "remove_member" => CanApprove(role[w.target])

ProposalAccepted(w) ==
  /\ w.kind \in {"add_member", "remove_member"} =>
       /\ w.newThreshold >= 1
       /\ ~CallsSafe(w) => w.newThreshold = group.threshold
  /\ w.kind = "add_member" => role[w.target] = NoMember
  /\ w.kind = "remove_member" =>
       /\ role[w.target] # NoMember
       /\ CallsSafe(w) => /\ w.target \in safe.owners
                          /\ w.newThreshold <= Cardinality(safe.owners \ {w.target})
  /\ w.kind = "change_threshold" => w.newThreshold \in 1..Cardinality(Approvers)

\* Everything a Propose* handler checks before createPendingAction.
ProposeCheck(g, m, w) ==
  /\ proc[g].pc = "idle"
  /\ Cardinality(FreeIds) > Cardinality(Proposing)   \* bound: a row is left for it
  /\ ~group.disabled
  /\ CanInitiate(role[m])
  /\ w.kind \in ManagementKinds => RequireNoConflictingManagementAction
  /\ ProposalAccepted(w)
  /\ proc' = [proc EXCEPT ![g] = [IdleProc EXCEPT !.pc = "proposing", !.what = w,
                                    !.onChain = CallsSafe(w), !.required = group.threshold]]
  /\ UNCHANGED <<dbVars, chainVars, busy, hooks, faults>>

\* Mutant: reserveSafeNonce does not look at the other actions.
SafeNonceUnread == FALSE
\* reserveSafeNonce's query: is a Safe call of this group outstanding?
SafeNonceTaken  == \E a \in ActionIds : action[a].onChain /\ InFlight(a)
ReserveSafeNonceFails(g) == proc[g].onChain /\ SafeNonceTaken

\* Mutant: the row is created without the approvals it requires.
RowWithoutRequirement(g) ==
  [NoRow EXCEPT !.status = "PENDING", !.what = proc[g].what, !.onChain = proc[g].onChain,
                !.nonce = IF proc[g].onChain THEN safe.nonce ELSE 0]
NewRow(g) ==
  [NoRow EXCEPT !.status = "PENDING", !.what = proc[g].what, !.onChain = proc[g].onChain,
                !.required = proc[g].required,
                !.nonce = IF proc[g].onChain THEN safe.nonce ELSE 0]

\* createPendingAction; for a Safe call, reserveSafeNonce in the same transaction.
CreatePendingAction(g) ==
  /\ proc[g].pc = "proposing"
  /\ \/ /\ ReserveSafeNonceFails(g)
        /\ UNCHANGED action
     \/ /\ ~ReserveSafeNonceFails(g)
        /\ \E a \in ActionIds : IsNextId(a) /\ action' = [action EXCEPT ![a] = NewRow(g)]
  /\ Done(g)
  /\ UNCHANGED <<group, role, approvals, chainVars, busy, hooks, faults>>

-----------------------------------------------------------------------------
(* Approving and executing *)

\* ApproveAction's checks: a member that already approved only asks for another
\* execution attempt.
HasApproved(m, a) == \E s \in approvals[a] : s.member = m
ApproveAction(g, m, a) ==
  /\ proc[g].pc = "idle"
  /\ action[a].status = "PENDING"
  /\ CanApprove(role[m])
  /\ proc' = [proc EXCEPT ![g] =
       [IdleProc EXCEPT !.pc = IF HasApproved(m, a) THEN "tallying" ELSE "approving",
                        !.a = a, !.member = m]]
  /\ UNCHANGED <<dbVars, chainVars, busy, hooks, faults>>

\* The signature is verified against the key the member's wallet has now; a
\* second row for the same member fails on the table's unique index.
RecordApproval(g) ==
  LET a == proc[g].a   m == proc[g].member IN
  /\ proc[g].pc = "approving"
  /\ IF HasApproved(m, a)
     THEN Done(g) /\ UNCHANGED approvals
     ELSE /\ approvals' = [approvals EXCEPT ![a] = @ \cup {[member |-> m, key |-> signer[m]]}]
          /\ Goto(g, "tallying")
  /\ UNCHANGED <<group, role, action, chainVars, busy, hooks, faults>>

\* Mutant: one approval too few is enough.
TallyTooEarly(g) ==
  LET a == proc[g].a IN
  /\ proc[g].pc = "tallying"
  /\ IF Cardinality(approvals[a]) + 1 < action[a].required
     THEN Done(g)
     ELSE proc' = [proc EXCEPT ![g].pc = "executing", ![g].sigs = approvals[a]]
  /\ UNCHANGED <<dbVars, chainVars, busy, hooks, faults>>

\* tallyAndMaybeExecute, and executeAction's loading of the recorded approvals.
TallyAndMaybeExecute(g) ==
  LET a == proc[g].a IN
  /\ proc[g].pc = "tallying"
  /\ IF Cardinality(approvals[a]) < action[a].required
     THEN Done(g)
     ELSE proc' = [proc EXCEPT ![g].pc = "executing", ![g].sigs = approvals[a]]
  /\ UNCHANGED <<dbVars, chainVars, busy, hooks, faults>>

\* applyMembershipSideEffectTx: one transaction, which fails as a whole when
\* the member to add already has a row.
SideEffectFails(w) == w.kind = "add_member" /\ role[w.target] # NoMember
\* Mutant: the new threshold is saved for change_threshold only.
ApplyWithoutThreshold(w) ==
  /\ role'  = CASE w.kind = "add_member"    -> [role EXCEPT ![w.target] = w.role]
                [] w.kind = "remove_member" -> [role EXCEPT ![w.target] = NoMember]
                [] OTHER                    -> role
  /\ group' = IF w.kind = "change_threshold"
              THEN [group EXCEPT !.threshold = w.newThreshold] ELSE group

ApplySideEffect(w) ==
  /\ role'  = CASE w.kind = "add_member"    -> [role EXCEPT ![w.target] = w.role]
                [] w.kind = "remove_member" -> [role EXCEPT ![w.target] = NoMember]
                [] OTHER                    -> role
  /\ group' = IF w.kind \in {"add_member", "remove_member", "change_threshold"}
              THEN [group EXCEPT !.threshold = w.newThreshold] ELSE group

\* executeDisableGroup and executeMembershipOnly.
ExecuteLocally(g) ==
  LET a == proc[g].a   w == action[a].what IN
  /\ proc[g].pc = "executing"
  /\ ~action[a].onChain
  /\ \/ /\ w.kind = "disable_group"
        /\ group' = [group EXCEPT !.disabled = TRUE]
        /\ SaveRow(a, "EXECUTED", action[a].tx, action[a].relayer)
        /\ UNCHANGED role
     \/ /\ w.kind # "disable_group"
        /\ ~SideEffectFails(w)
        /\ ApplySideEffect(w)
        /\ SaveRow(a, "EXECUTED", action[a].tx, action[a].relayer)
     \/ /\ SideEffectFails(w)
        /\ UNCHANGED <<group, role, action>>
  /\ Done(g)
  /\ UNCHANGED <<approvals, chainVars, busy, hooks, faults>>

FreshTx(t) == txs[t].status = "unused" /\ \A u \in 1..(t - 1) : txs[u].status # "unused"
Broadcast(g, t, r) == txs' = [txs EXCEPT ![t] =
    [status |-> "pending", a |-> proc[g].a, sigs |-> proc[g].sigs, relayer |-> r]]

\* RelayerPool.Claim, then SignAndSubmitTx, whose gas estimate fails on a call
\* that would revert.
Submit(g) ==
  /\ proc[g].pc = "executing"
  /\ action[proc[g].a].onChain
  /\ ExecSucceeds(proc[g].a, proc[g].sigs)
  /\ \E r \in Relayers \ busy, t \in TxIds :
        /\ FreshTx(t)
        /\ Broadcast(g, t, r)
        /\ busy' = busy \cup {r}
        /\ proc' = [proc EXCEPT ![g].pc = "saving", ![g].tx = t, ![g].relayer = r]
  /\ UNCHANGED <<dbVars, safe, signer, hooks, faults>>

\* SendTransaction reports an error although the node took the transaction:
\* the relayer is released and the action stays PENDING.
SubmitErrorAfterBroadcast(g) ==
  /\ Fault("lost")
  /\ proc[g].pc = "executing"
  /\ action[proc[g].a].onChain
  /\ ExecSucceeds(proc[g].a, proc[g].sigs)
  /\ \E r \in Relayers \ busy, t \in TxIds : FreshTx(t) /\ Broadcast(g, t, r)
  /\ Done(g)
  /\ UNCHANGED <<dbVars, safe, signer, busy, hooks>>

\* No relayer before the context ends, or SignAndSubmitTx fails outright.
SubmitError(g) ==
  /\ proc[g].pc = "executing"
  /\ action[proc[g].a].onChain
  /\ Done(g)
  /\ UNCHANGED <<dbVars, chainVars, busy, hooks, faults>>

SaveSubmitted(g) ==
  /\ proc[g].pc = "saving"
  /\ SaveRow(proc[g].a, "SUBMITTED", proc[g].tx, proc[g].relayer)
  /\ Goto(g, "waiting")
  /\ UNCHANGED <<group, role, approvals, chainVars, busy, hooks, faults>>

\* The database refuses the save: executeAction logs it and waits all the same.
SaveSubmittedFails(g) ==
  /\ Fault("database")
  /\ proc[g].pc = "saving"
  /\ Goto(g, "waiting")
  /\ UNCHANGED <<dbVars, chainVars, busy, hooks>>

\* Mutant: any receipt counts as a success.
AnyReceipt(g) ==
  /\ proc[g].pc = "waiting"
  /\ txs[proc[g].tx].status \in {"success", "reverted"}
  /\ SaveRow(proc[g].a, "EXECUTED", proc[g].tx, proc[g].relayer)
  /\ Goto(g, "finishing")
  /\ UNCHANGED <<group, role, approvals, chainVars, busy, hooks, faults>>

\* awaitExecution: the receipt says success.
ReceiptSuccess(g) ==
  /\ proc[g].pc = "waiting"
  /\ txs[proc[g].tx].status = "success"
  /\ SaveRow(proc[g].a, "EXECUTED", proc[g].tx, proc[g].relayer)
  /\ Goto(g, "finishing")
  /\ UNCHANGED <<group, role, approvals, chainVars, busy, hooks, faults>>

\* Mutants: the row is not put back; the relayer is not released.
ReleaseOnly(g) ==
  /\ busy' = busy \ {proc[g].relayer}
  /\ Done(g)
  /\ UNCHANGED <<group, role, action, approvals, chainVars, hooks>>
SaveOnly(g) ==
  /\ SaveRow(proc[g].a, "PENDING", proc[g].tx, proc[g].relayer)
  /\ Done(g)
  /\ UNCHANGED <<group, role, approvals, chainVars, busy, hooks>>

\* awaitExecution's other way out: back to PENDING, relayer released.
BackToPending(g) ==
  /\ SaveRow(proc[g].a, "PENDING", proc[g].tx, proc[g].relayer)
  /\ busy' = busy \ {proc[g].relayer}
  /\ Done(g)
  /\ UNCHANGED <<group, role, approvals, chainVars, hooks>>

ReceiptReverted(g) ==
  /\ proc[g].pc = "waiting"
  /\ txs[proc[g].tx].status = "reverted"
  /\ BackToPending(g)
  /\ UNCHANGED faults

\* The request's context ends, or the receipt query itself fails.
WaitGivesUp(g) ==
  /\ proc[g].pc = "waiting"
  /\ Fault("timeout")
  /\ BackToPending(g)

\* The database refuses awaitExecution's save, of EXECUTED or of PENDING, after a
\* receipt or after the wait gave up: no hook, no membership change, and the
\* relayer is released.
SaveResultFails(g) ==
  /\ proc[g].pc = "waiting"
  /\ \/ Fault("database") /\ txs[proc[g].tx].status \in {"success", "reverted"}
     \/ BothFaults("timeout", "database")
  /\ busy' = busy \ {proc[g].relayer}
  /\ Done(g)
  /\ UNCHANGED <<dbVars, chainVars, hooks>>

\* The domain hook, then the deferred Release.  Only executeAction goes on to
\* applyMembershipSideEffect; a boot-time waiter ends here.
FinishExecution(g) ==
  LET a == proc[g].a IN
  /\ proc[g].pc = "finishing"
  /\ hooks' = IF action[a].what.kind = "payment" THEN [hooks EXCEPT ![a].executed = @ + 1] ELSE hooks
  /\ busy' = busy \ {proc[g].relayer}
  /\ IF g \in Requests THEN Goto(g, "syncing") ELSE Done(g)
  /\ UNCHANGED <<dbVars, chainVars, faults>>

ApplyMembershipSideEffect(g) ==
  LET w == action[proc[g].a].what IN
  /\ proc[g].pc = "syncing"
  /\ IF SideEffectFails(w) THEN UNCHANGED <<group, role>> ELSE ApplySideEffect(w)
  /\ Done(g)
  /\ UNCHANGED <<action, approvals, chainVars, busy, hooks, faults>>

-----------------------------------------------------------------------------
(* Rejecting and expiring *)

ReadForRejection(g, a) ==
  /\ proc[g].pc = "idle"
  /\ action[a].status = "PENDING"
  /\ proc' = [proc EXCEPT ![g] = [IdleProc EXCEPT !.pc = "rejecting", !.a = a,
                                    !.tx = action[a].tx, !.relayer = action[a].relayer]]
  /\ UNCHANGED <<dbVars, chainVars, busy, hooks, faults>>

RejectAction(g, m, a) == CanApprove(role[m]) /\ ReadForRejection(g, a)

\* Any PENDING row may be older than the TTL when the sweep reads it.
ExpireStalePendingActions(a) == ReadForRejection(Sweeper, a)

SaveRejected(g) ==
  /\ proc[g].pc = "rejecting"
  /\ SaveRow(proc[g].a, "REJECTED", proc[g].tx, proc[g].relayer)
  /\ Goto(g, "rejected")
  /\ UNCHANGED <<group, role, approvals, chainVars, busy, hooks, faults>>

RejectedHook(g) ==
  LET a == proc[g].a IN
  /\ proc[g].pc = "rejected"
  /\ hooks' = IF action[a].what.kind = "payment" THEN [hooks EXCEPT ![a].rejected = TRUE] ELSE hooks
  /\ Done(g)
  /\ UNCHANGED <<dbVars, chainVars, busy, faults>>

-----------------------------------------------------------------------------
(* Restarting *)

\* Mutants: every action that has a transaction is resumed; none is.
EverSubmitted == {a \in ActionIds : action[a].tx # NoTx}
NoneSubmitted == {}
\* ReconcileRelayers' query.
Stuck == {a \in ActionIds : action[a].status = "SUBMITTED"}

\* Mutants: the relayers of all rows are marked in use, "" included; none is.
AllRelayers == {action[a].relayer : a \in ActionIds}
NoRelayers  == {}
ReserveAtStartup == {action[a].relayer : a \in Stuck}

\* The process stops and starts again: every goroutine is gone and the pool is
\* new; ReconcileRelayers runs before any request is served.  A SUBMITTED row
\* always names its transaction and its relayer, so there is something to wait
\* for; when the scan fails nothing is reserved and nobody waits.
Restart ==
  /\ \/ /\ Fault("restart")
        /\ busy' = ReserveAtStartup
        /\ proc' = [g \in Goroutines |->
                      IF g \in Stuck
                      THEN [IdleProc EXCEPT !.pc = "waiting", !.a = g, !.tx = action[g].tx,
                                            !.relayer = action[g].relayer]
                      ELSE IdleProc]
     \/ /\ BothFaults("restart", "database")
        /\ busy' = {}
        /\ proc' = [g \in Goroutines |-> IdleProc]
  /\ UNCHANGED <<dbVars, chainVars, hooks>>

Execute(g) ==
  \/ RecordApproval(g)
  \/ TallyAndMaybeExecute(g)
  \/ ExecuteLocally(g)
  \/ Submit(g)
  \/ SubmitErrorAfterBroadcast(g)
  \/ SubmitError(g)
  \/ SaveSubmitted(g)
  \/ SaveSubmittedFails(g)
  \/ ReceiptSuccess(g)
  \/ ReceiptReverted(g)
  \/ WaitGivesUp(g)
  \/ SaveResultFails(g)
  \/ FinishExecution(g)
  \/ ApplyMembershipSideEffect(g)

Next ==
  \/ \E t \in TxIds : Mine(t)
  \/ \E m \in Members : RotateSigner(m)
  \/ \E g \in Requests, m \in Members, w \in Proposals : ProposeCheck(g, m, w)
  \/ \E g \in Requests : CreatePendingAction(g)
  \/ \E g \in Requests, m \in Members, a \in ActionIds : ApproveAction(g, m, a) \/ RejectAction(g, m, a)
  \/ \E g \in Goroutines : Execute(g)
  \/ \E a \in ActionIds : ExpireStalePendingActions(a)
  \/ \E g \in Goroutines : SaveRejected(g) \/ RejectedHook(g)
  \/ Restart

Spec == Init /\ [][Next]_vars

\* The chain mines the transactions it accepted, and a goroutine that waits for
\* a receipt, writes its result or releases its relayer is not suspended for ever.
Resolve(g) == SaveSubmitted(g) \/ ReceiptSuccess(g) \/ ReceiptReverted(g) \/ FinishExecution(g)
Fairness   == /\ \A t \in TxIds : WF_vars(Mine(t))
              /\ \A g \in Goroutines : WF_vars(Resolve(g))
FairSpec   == Spec /\ Fairness

-----------------------------------------------------------------------------
(* Properties *)

TypeOK ==
  /\ group \in [threshold: Nat, disabled: BOOLEAN]
  /\ role \in [Members -> Roles \cup {NoMember}]
  /\ action \in [ActionIds -> Row]
  /\ approvals \in [ActionIds -> SUBSET Signatures]
  /\ signer \in [Members -> Keys]
  /\ safe \in [owners: SUBSET Members, threshold: Nat, nonce: Nat]
  /\ txs \in [TxIds -> Tx]
  /\ busy \subseteq Relayers
  /\ proc \in [Goroutines -> Proc]
  /\ hooks \in [ActionIds -> [executed: Nat, rejected: BOOLEAN]]
  /\ faults \in Nat

LandedTxs(a) == {t \in TxIds : txs[t].status = "success" /\ txs[t].a = a}
Holding(g)   == proc[g].pc \in {"saving", "waiting", "finishing"}  \* g owns a claimed relayer

\* However often an action is submitted - by racing approvals, after a timeout,
\* after a restart - its transaction takes effect on the Safe at most once.
LandsAtMostOnce == \A a \in ActionIds : \A t, u \in LandedTxs(a) : t = u

\* An action the database calls EXECUTED names the transaction that really
\* carried it out, also after late saves of other goroutines' copies of the row.
ExecutedMeansLanded ==
  \A a \in ActionIds : action[a].status = "EXECUTED" /\ action[a].onChain
                          => action[a].tx \in LandedTxs(a)

\* The component that proposed an action is told of its execution at most once,
\* and only if the Safe really executed it: it credits and debits on that call.
ExecutedHookAtMostOnce ==
  \A a \in ActionIds : /\ hooks[a].executed <= 1
                       /\ hooks[a].executed = 1 => LandedTxs(a) # {}

\* No two goroutines submit from, or wait on, the same relayer, and the pool
\* does not hand out a relayer somebody still holds - across restarts too.
RelayerExclusive ==
  \A g, h \in Goroutines : Holding(g) => /\ proc[g].relayer \in busy
                                         /\ Holding(h) /\ g # h => proc[g].relayer # proc[h].relayer

\* A SUBMITTED row always has a goroutine waiting on the very transaction it
\* names, so it cannot be left SUBMITTED for ever, not even by a restart.
SubmittedIsAwaited ==
  \A a \in ActionIds : action[a].status = "SUBMITTED" =>
     \E g \in Goroutines : /\ proc[g].pc = "waiting"
                           /\ proc[g].a = a
                           /\ proc[g].tx = action[a].tx
                           /\ proc[g].relayer = action[a].relayer

\* After a completed change, and with nothing in flight, the group's approvers
\* and threshold in the database are the owners and threshold of the Safe, so
\* the approvals the backend asks for are the ones the Safe accepts.
Quiet == /\ \A g \in Goroutines : proc[g].pc \in {"idle", "approving", "tallying", "rejecting", "rejected"}
         /\ \A t \in TxIds : txs[t].status # "pending"
Agreed == group.threshold = safe.threshold /\ Approvers = safe.owners
MembershipSynced == Quiet => Agreed

\* ProposeAddMember: the Safe's owners and the member rows change together - also
\* when the waiter that finishes the action was started at boot for it.
ResumedIsApplied == [][\A a \in ActionIds : FinishExecution(a) => Agreed']_vars

\* requireNoConflictingManagementAction: no management action is proposed while
\* another one is in flight on the group.
OneChangeInFlight ==
  \A a, b \in ActionIds : /\ InFlight(a) /\ action[a].what.kind \in ManagementKinds
                          /\ InFlight(b) /\ action[b].what.kind \in ManagementKinds
                          => a = b

\* Every change of the group - a member's row, the threshold, the disabled flag -
\* is all owed to one action: one that collected the approvals it was created to
\* need, that the Safe executed if it is a call to the Safe, and that asked for
\* exactly this - however many handlers work on it and on others meanwhile.
ApprovedEnough(a) == /\ action[a].required > 0
                     /\ Cardinality(approvals[a]) >= action[a].required
AskedFor(w) ==
  /\ \A m \in Members : role'[m] # role[m] =>
       /\ w.target = m
       /\ \/ w.kind = "add_member" /\ role'[m] = w.role
          \/ w.kind = "remove_member" /\ role'[m] = NoMember
  /\ group'.threshold # group.threshold =>
       /\ w.kind \in {"add_member", "remove_member", "change_threshold"}
       /\ group'.threshold = w.newThreshold
  /\ group'.disabled # group.disabled => w.kind = "disable_group" /\ group'.disabled
ChangesAreApproved ==
  [][\E a \in ActionIds : /\ ApprovedEnough(a)
                          /\ action[a].onChain => LandedTxs(a) # {}
                          /\ AskedFor(action[a].what)]_<<role, group>>

\* No change of the members leaves an action in flight that can never collect
\* the approvals it was created to need.
ApprovalsReachable ==
  \A a \in ActionIds : InFlight(a) =>
     Cardinality(Approvers \cup {s.member : s \in approvals[a]}) >= action[a].required

\* executeAction: an action that went back to PENDING can be executed by the next
\* approval call - the attempt that is over did not use up the action's nonce.
RetryCanSucceed ==
  \A a \in ActionIds : /\ Pending(a) /\ action[a].onChain
                       /\ ~\E g \in Goroutines : proc[g].pc \in {"saving", "waiting"} /\ proc[g].a = a
                       => action[a].nonce = safe.nonce

\* Every SUBMITTED action is resolved, given that the chain mines what it was
\* sent and goroutines keep running.
SubmittedResolves == \A a \in ActionIds :
  action[a].status = "SUBMITTED" ~> action[a].status # "SUBMITTED"

\* Every claimed relayer comes back, so the pool is never drained for good.
RelayerComesBack == \A r \in Relayers : r \in busy ~> r \notin busy

\* What the group's members were promised: an action takes effect at most once,
\* and only once as many distinct members as it needs have approved it.
Wallet == INSTANCE GroupWallet WITH
  need       <- [a \in ActionIds |-> action[a].required],
  approvedBy <- [a \in ActionIds |-> {s.member : s \in approvals[a]}],
  landed     <- {a \in ActionIds : LandedTxs(a) # {}}
ImplementsGroupWallet == Wallet!WalletSpec
=============================================================================
