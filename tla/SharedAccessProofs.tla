------------------------- MODULE SharedAccessProofs -------------------------
(***************************************************************************)
(* Theorems about SharedAccess, for any number of members, requests,       *)
(* relayers, actions and transactions, and any set of faults.              *)
(***************************************************************************)
EXTENDS SharedAccess, FiniteSetTheorems, TLAPS

ConstantFacts ==
  /\ ActionIds \subseteq Nat \ {0} /\ TxIds \subseteq Nat \ {0} /\ Relayers \subseteq Nat \ {0}
  /\ Members \subseteq Nat \ {0} /\ 0 \in Keys /\ Keys \subseteq Nat
  /\ ActionIds \subseteq Goroutines /\ Requests \subseteq Goroutines /\ Sweeper \in Goroutines
  /\ Requests \cap ActionIds = {}
  /\ Proposals \subseteq ProposalType
LEMMA Constants == ConstantFacts
  BY MembersAssumption, BoundsAssumption, GoroutineAssumption, ProposalAssumption
     DEF ConstantFacts, ActionIds, TxIds, Relayers, Keys, Goroutines

-----------------------------------------------------------------------------
(* Typing.  A goroutine that works on an action names an existing id, one   *)
(* that holds a relayer names the relayer and its transaction, and so does  *)
(* a SUBMITTED row: TypeOK is not inductive without these.                  *)

GoodProc == {p \in Proc : /\ p.pc \notin {"idle", "proposing"} => p.a \in ActionIds
                          /\ p.pc = "approving" => p.member \in Members
                          /\ p.pc \in {"saving", "waiting", "finishing"}
                                => p.tx \in TxIds /\ p.relayer \in Relayers}
GoodRow  == {r \in Row : r.status = "SUBMITTED" => r.tx \in TxIds /\ r.relayer \in Relayers}
GoodTx   == {t \in Tx : t.status # "unused" => t.a \in ActionIds}

TypeInv ==
  /\ group \in [threshold: Nat, disabled: BOOLEAN]
  /\ role \in [Members -> Roles \cup {NoMember}]
  /\ action \in [ActionIds -> GoodRow]
  /\ approvals \in [ActionIds -> SUBSET Signatures]
  /\ signer \in [Members -> Keys]
  /\ safe \in [owners: SUBSET Members, threshold: Nat, nonce: Nat]
  /\ txs \in [TxIds -> GoodTx]
  /\ busy \subseteq Relayers
  /\ proc \in [Goroutines -> GoodProc]
  /\ hooks \in [ActionIds -> [executed: Nat, rejected: BOOLEAN]]
  /\ faults \in Nat

LEMMA TypeInvImplies == TypeInv => TypeOK
  BY DEF TypeInv, TypeOK, GoodProc, GoodRow, GoodTx

LEMMA NoProposalType == NoProposal \in ProposalType
  BY DEF NoProposal, ProposalType, Kinds, ManagementKinds, NoMember

LEMMA IdleProcType == IdleProc \in GoodProc
  BY NoProposalType DEF IdleProc, GoodProc, Proc, PCs, NoAction, NoTx, NoRelayer

LEMMA NoRowType == NoRow \in GoodRow
  BY NoProposalType DEF NoRow, GoodRow, Row, Statuses, NoTx, NoRelayer

LEMMA NoTxnType == NoTxn \in GoodTx
  BY DEF NoTxn, GoodTx, Tx, NoAction, NoRelayer

LEMMA ProcUpdate == ASSUME TypeInv, NEW g \in Goroutines, NEW p \in GoodProc,
                           proc' = [proc EXCEPT ![g] = p]
                    PROVE  proc' \in [Goroutines -> GoodProc]
  BY DEF TypeInv

LEMMA DoneType == ASSUME TypeInv, NEW g \in Goroutines, Done(g)
                  PROVE  proc' \in [Goroutines -> GoodProc]
  BY ProcUpdate, IdleProcType DEF Done

\* A goroutine that works on an action goes on to another step of the same work.
LEMMA GotoType ==
  ASSUME TypeInv, NEW g \in Goroutines, NEW pc \in PCs, Goto(g, pc),
         proc[g].pc \notin {"idle", "proposing"}, pc # "approving",
         \/ pc \notin {"saving", "waiting", "finishing"}
         \/ proc[g].pc \in {"saving", "waiting", "finishing"}
  PROVE  proc' \in [Goroutines -> GoodProc]
<1> DEFINE p == [proc[g] EXCEPT !.pc = pc]
<1>1. proc \in [Goroutines -> GoodProc] /\ proc[g] \in GoodProc
  BY DEF TypeInv
<1>2. p \in GoodProc
  BY <1>1 DEF GoodProc, Proc
<1>3. proc' = [proc EXCEPT ![g] = p]
  BY DEF Goto
<1> HIDE DEF p
<1> QED
  BY <1>2, <1>3, ProcUpdate

LEMMA SaveRowType ==
  ASSUME TypeInv, NEW a \in ActionIds, NEW status \in Statuses, NEW tx \in TxIds \cup {NoTx},
         NEW relayer \in Relayers \cup {NoRelayer}, SaveRow(a, status, tx, relayer),
         status = "SUBMITTED" => tx \in TxIds /\ relayer \in Relayers
  PROVE  action' \in [ActionIds -> GoodRow]
<1> DEFINE row == [action[a] EXCEPT !.status = status, !.tx = tx, !.relayer = relayer]
<1>1. action \in [ActionIds -> GoodRow] /\ action[a] \in GoodRow
  BY DEF TypeInv
<1>2. row \in GoodRow
  BY <1>1 DEF GoodRow, Row
<1>3. action' = [action EXCEPT ![a] = row]
  BY <1>1 DEF SaveRow
<1> HIDE DEF row
<1> QED
  BY <1>1, <1>2, <1>3

LEMMA TypeInvInit == Init => TypeInv
<1> SUFFICES ASSUME Init PROVE TypeInv
  OBVIOUS
<1>1. /\ action \in [ActionIds -> GoodRow] /\ txs \in [TxIds -> GoodTx]
      /\ proc \in [Goroutines -> GoodProc]
  BY NoRowType, NoTxnType, IdleProcType DEF Init
<1>2. signer \in [Members -> Keys]
  BY Constants DEF Init, ConstantFacts
<1>3. /\ group \in [threshold: Nat, disabled: BOOLEAN]
      /\ role \in [Members -> Roles \cup {NoMember}]
      /\ approvals \in [ActionIds -> SUBSET Signatures]
      /\ safe \in [owners: SUBSET Members, threshold: Nat, nonce: Nat]
      /\ busy \subseteq Relayers
      /\ hooks \in [ActionIds -> [executed: Nat, rejected: BOOLEAN]]
      /\ faults \in Nat
  BY GroupAssumption DEF Init
<1> QED
  BY <1>1, <1>2, <1>3 DEF TypeInv

\* The calls InnerCallValid accepts leave the Safe typed.
LEMMA SafeAfterType == ASSUME TypeInv, NEW w \in ProposalType
                       PROVE  SafeAfter(w) \in [owners: SUBSET Members, threshold: Nat, nonce: Nat]
<1>1. safe.owners \subseteq Members /\ safe.threshold \in Nat /\ safe.nonce \in Nat
  BY DEF TypeInv
<1>2. w.newThreshold \in Nat /\ (w.kind \in {"add_member", "remove_member"} => w.target \in Members)
  BY DEF ProposalType
<1> QED
  BY <1>1, <1>2 DEF SafeAfter

LEMMA SideEffectType ==
  ASSUME TypeInv, NEW w \in ProposalType, ApplySideEffect(w)
  PROVE  /\ role' \in [Members -> Roles \cup {NoMember}]
         /\ group' \in [threshold: Nat, disabled: BOOLEAN]
<1>1. w.newThreshold \in Nat /\ w.role \in Roles \cup {NoMember}
  BY DEF ProposalType
<1> QED
  BY <1>1 DEF ApplySideEffect, TypeInv

\* What a handler knows of the action and the transaction it works on.
LEMMA WorkType ==
  ASSUME TypeInv, NEW g \in Goroutines
  PROVE  /\ proc[g] \in Proc
         /\ proc[g].pc \notin {"idle", "proposing"} => /\ proc[g].a \in ActionIds
                                                     /\ action[proc[g].a] \in GoodRow
                                                     /\ action[proc[g].a].what \in ProposalType
         /\ Holding(g) => proc[g].tx \in TxIds /\ proc[g].relayer \in Relayers
<1>1. proc[g] \in GoodProc /\ action \in [ActionIds -> GoodRow]
  BY DEF TypeInv
<1> QED
  BY <1>1 DEF GoodProc, GoodRow, Row, Holding

LEMMA BroadcastType ==
  ASSUME TypeInv, NEW g \in Goroutines, NEW t \in TxIds, NEW r \in Relayers,
         proc[g].pc = "executing", Broadcast(g, t, r)
  PROVE  txs' \in [TxIds -> GoodTx]
<1> DEFINE tx == [status |-> "pending", a |-> proc[g].a, sigs |-> proc[g].sigs, relayer |-> r]
<1>1. proc[g].a \in ActionIds /\ proc[g].sigs \in SUBSET Signatures
  BY WorkType DEF Proc
<1>2. tx \in GoodTx
  BY <1>1 DEF GoodTx, Tx
<1>3. txs' = [txs EXCEPT ![t] = tx]
  BY DEF Broadcast
<1> HIDE DEF tx
<1> QED
  BY <1>2, <1>3 DEF TypeInv

LEMMA MineType == ASSUME TypeInv, NEW t \in TxIds, Mine(t) PROVE TypeInv'
<1>1. txs \in [TxIds -> GoodTx] /\ txs[t] \in GoodTx /\ txs[t].status = "pending"
      /\ action \in [ActionIds -> GoodRow]
  BY DEF TypeInv, Mine
<1>2. txs[t].a \in ActionIds /\ action[txs[t].a].what \in ProposalType
  BY <1>1 DEF GoodTx, GoodRow, Row
<1>3. ASSUME NEW s \in {"success", "reverted"} PROVE [txs EXCEPT ![t].status = s] \in [TxIds -> GoodTx]
  <2>1. [txs[t] EXCEPT !.status = s] \in GoodTx
    BY <1>1, <1>2 DEF GoodTx, Tx
  <2> QED
    BY <1>1, <2>1
<1>4. txs' \in [TxIds -> GoodTx]
  BY <1>3 DEF Mine
<1>5. safe' \in [owners: SUBSET Members, threshold: Nat, nonce: Nat]
  BY <1>2, SafeAfterType DEF Mine, TypeInv
<1> QED
  BY <1>4, <1>5 DEF Mine, TypeInv, dbVars

LEMMA ProposeCheckType ==
  ASSUME TypeInv, NEW g \in Requests, NEW m \in Members, NEW w \in Proposals, ProposeCheck(g, m, w)
  PROVE  TypeInv'
<1> DEFINE p == [IdleProc EXCEPT !.pc = "proposing", !.what = w, !.onChain = CallsSafe(w),
                                 !.required = group.threshold]
<1>1. g \in Goroutines /\ w \in ProposalType /\ group.threshold \in Nat
  BY Constants DEF ConstantFacts, TypeInv
<1>2. CallsSafe(w) \in BOOLEAN
  BY DEF CallsSafe, CanApprove
<1>3. p \in GoodProc
  BY <1>1, <1>2 DEF IdleProc, GoodProc, Proc, PCs, NoAction, NoTx, NoRelayer
<1>4. proc' = [proc EXCEPT ![g] = p]
  BY DEF ProposeCheck
<1> HIDE DEF p
<1>5. proc' \in [Goroutines -> GoodProc]
  BY <1>1, <1>3, <1>4, ProcUpdate
<1> QED
  BY <1>5 DEF ProposeCheck, TypeInv, dbVars, chainVars

LEMMA CreateType == ASSUME TypeInv, NEW g \in Requests, CreatePendingAction(g) PROVE TypeInv'
<1> DEFINE row == [NoRow EXCEPT !.status = "PENDING", !.what = proc[g].what,
                                !.onChain = proc[g].onChain, !.required = proc[g].required,
                                !.nonce = IF proc[g].onChain THEN safe.nonce ELSE 0]
<1>1. g \in Goroutines /\ proc[g] \in Proc /\ safe.nonce \in Nat
  BY Constants, WorkType DEF ConstantFacts, TypeInv
<1>2. row \in GoodRow
  BY <1>1 DEF NoRow, GoodRow, Row, Proc, Statuses, NoTx, NoRelayer
<1>3. action' = action \/ \E a \in ActionIds : action' = [action EXCEPT ![a] = row]
  BY DEF CreatePendingAction, NewRow
<1> HIDE DEF row
<1>4. action' \in [ActionIds -> GoodRow]
  BY <1>2, <1>3 DEF TypeInv
<1>5. proc' \in [Goroutines -> GoodProc]
  BY <1>1, DoneType DEF CreatePendingAction
<1> QED
  BY <1>4, <1>5 DEF CreatePendingAction, TypeInv, chainVars

\* A handler that starts to work on an action.
LEMMA StartType ==
  ASSUME TypeInv, NEW g \in Goroutines, NEW a \in ActionIds, NEW m \in Members,
         NEW pc \in {"tallying", "approving"}
  PROVE  [IdleProc EXCEPT !.pc = pc, !.a = a, !.member = m] \in GoodProc
  BY NoProposalType DEF IdleProc, GoodProc, Proc, PCs, NoTx, NoRelayer

LEMMA ApproveType ==
  ASSUME TypeInv, NEW g \in Requests, NEW m \in Members, NEW a \in ActionIds, ApproveAction(g, m, a)
  PROVE  TypeInv'
<1> DEFINE pc == IF HasApproved(m, a) THEN "tallying" ELSE "approving"
<1>1. g \in Goroutines /\ pc \in {"tallying", "approving"}
  BY Constants DEF ConstantFacts
<1>2. proc' = [proc EXCEPT ![g] = [IdleProc EXCEPT !.pc = pc, !.a = a, !.member = m]]
  BY DEF ApproveAction
<1> HIDE DEF pc
<1>3. proc' \in [Goroutines -> GoodProc]
  BY <1>1, <1>2, StartType, ProcUpdate
<1> QED
  BY <1>3 DEF ApproveAction, TypeInv, dbVars, chainVars

LEMMA ReadForRejectionType ==
  ASSUME TypeInv, NEW g \in Goroutines, NEW a \in ActionIds, ReadForRejection(g, a)
  PROVE  TypeInv'
<1> DEFINE p == [IdleProc EXCEPT !.pc = "rejecting", !.a = a, !.tx = action[a].tx,
                                 !.relayer = action[a].relayer]
<1>1. action[a] \in Row
  BY DEF TypeInv, GoodRow
<1>2. p \in GoodProc
  BY <1>1, NoProposalType DEF IdleProc, GoodProc, Proc, PCs, Row
<1>3. proc' = [proc EXCEPT ![g] = p]
  BY DEF ReadForRejection
<1> HIDE DEF p
<1>4. proc' \in [Goroutines -> GoodProc]
  BY <1>2, <1>3, ProcUpdate
<1> QED
  BY <1>4 DEF ReadForRejection, TypeInv, dbVars, chainVars

LEMMA RecordApprovalType == ASSUME TypeInv, NEW g \in Goroutines, RecordApproval(g) PROVE TypeInv'
<1>1. /\ proc[g].pc = "approving" /\ proc[g].a \in ActionIds /\ proc[g].member \in Members
      /\ signer[proc[g].member] \in Keys
  BY DEF RecordApproval, TypeInv, GoodProc
<1>2. [member |-> proc[g].member, key |-> signer[proc[g].member]] \in Signatures
  BY <1>1 DEF Signatures
<1>3. approvals' \in [ActionIds -> SUBSET Signatures]
  BY <1>1, <1>2 DEF RecordApproval, TypeInv
<1>4. Done(g) \/ Goto(g, "tallying")
  BY DEF RecordApproval
<1>5. proc' \in [Goroutines -> GoodProc]
  BY <1>1, <1>4, DoneType, GotoType DEF PCs
<1> QED
  BY <1>3, <1>5 DEF RecordApproval, TypeInv, chainVars

LEMMA TallyType == ASSUME TypeInv, NEW g \in Goroutines, TallyAndMaybeExecute(g) PROVE TypeInv'
<1> DEFINE p == [proc[g] EXCEPT !.pc = "executing", !.sigs = approvals[proc[g].a]]
<1>1. proc[g] \in GoodProc /\ proc[g].pc = "tallying" /\ approvals[proc[g].a] \in SUBSET Signatures
      /\ proc \in [Goroutines -> GoodProc]
  BY DEF TallyAndMaybeExecute, TypeInv, GoodProc
<1>2. p \in GoodProc
  BY <1>1 DEF GoodProc, Proc, PCs
<1>3. Done(g) \/ proc' = [proc EXCEPT ![g] = p]
  BY <1>1 DEF TallyAndMaybeExecute
<1> HIDE DEF p
<1>4. proc' \in [Goroutines -> GoodProc]
  BY <1>2, <1>3, DoneType, ProcUpdate
<1> QED
  BY <1>4 DEF TallyAndMaybeExecute, TypeInv, dbVars, chainVars

LEMMA ExecuteLocallyType == ASSUME TypeInv, NEW g \in Goroutines, ExecuteLocally(g) PROVE TypeInv'
<1> DEFINE a == proc[g].a
<1>1. a \in ActionIds /\ action[a].what \in ProposalType /\ action[a] \in Row
  BY WorkType DEF ExecuteLocally, GoodRow
<1>2. action[a].tx \in TxIds \cup {NoTx} /\ action[a].relayer \in Relayers \cup {NoRelayer}
  BY <1>1 DEF Row
<1>3. action' = action \/ SaveRow(a, "EXECUTED", action[a].tx, action[a].relayer)
  BY DEF ExecuteLocally
<1>4. action' \in [ActionIds -> GoodRow]
  BY <1>1, <1>2, <1>3, SaveRowType DEF Statuses, TypeInv
<1>5. /\ role' \in [Members -> Roles \cup {NoMember}]
      /\ group' \in [threshold: Nat, disabled: BOOLEAN]
  BY <1>1, SideEffectType DEF ExecuteLocally, TypeInv
<1>6. proc' \in [Goroutines -> GoodProc]
  BY DoneType DEF ExecuteLocally
<1> QED
  BY <1>4, <1>5, <1>6 DEF ExecuteLocally, TypeInv, chainVars

LEMMA SubmitType == ASSUME TypeInv, NEW g \in Goroutines, Submit(g) PROVE TypeInv'
<1>1. PICK r \in Relayers \ busy, t \in TxIds :
        /\ Broadcast(g, t, r)
        /\ busy' = busy \cup {r}
        /\ proc' = [proc EXCEPT ![g].pc = "saving", ![g].tx = t, ![g].relayer = r]
  BY DEF Submit
<1> DEFINE p == [proc[g] EXCEPT !.pc = "saving", !.tx = t, !.relayer = r]
<1>2. proc[g] \in GoodProc /\ proc[g].pc = "executing" /\ proc \in [Goroutines -> GoodProc]
  BY DEF Submit, TypeInv
<1>3. p \in GoodProc
  BY <1>2 DEF GoodProc, Proc, PCs
<1>4. proc' = [proc EXCEPT ![g] = p]
  BY <1>1, <1>2
<1> HIDE DEF p
<1>5. proc' \in [Goroutines -> GoodProc] /\ txs' \in [TxIds -> GoodTx]
  BY <1>1, <1>2, <1>3, <1>4, ProcUpdate, BroadcastType
<1> QED
  BY <1>1, <1>5 DEF Submit, TypeInv, dbVars

LEMMA SubmitLostType == ASSUME TypeInv, NEW g \in Goroutines, SubmitErrorAfterBroadcast(g) PROVE TypeInv'
<1>1. txs' \in [TxIds -> GoodTx] /\ proc' \in [Goroutines -> GoodProc]
  BY BroadcastType, DoneType DEF SubmitErrorAfterBroadcast
<1> QED
  BY <1>1 DEF SubmitErrorAfterBroadcast, Fault, TypeInv, dbVars

LEMMA SaveSubmittedType == ASSUME TypeInv, NEW g \in Goroutines, SaveSubmitted(g) PROVE TypeInv'
<1>1. proc[g].pc = "saving" /\ proc[g].a \in ActionIds /\ proc[g].tx \in TxIds /\ proc[g].relayer \in Relayers
  BY WorkType DEF SaveSubmitted, Holding
<1>2. action' \in [ActionIds -> GoodRow] /\ proc' \in [Goroutines -> GoodProc]
  BY <1>1, SaveRowType, GotoType DEF SaveSubmitted, Statuses, PCs
<1> QED
  BY <1>2 DEF SaveSubmitted, TypeInv, chainVars

LEMMA ReceiptSuccessType == ASSUME TypeInv, NEW g \in Goroutines, ReceiptSuccess(g) PROVE TypeInv'
<1>1. proc[g].pc = "waiting" /\ proc[g].a \in ActionIds /\ proc[g].tx \in TxIds /\ proc[g].relayer \in Relayers
  BY WorkType DEF ReceiptSuccess, Holding
<1>2. action' \in [ActionIds -> GoodRow] /\ proc' \in [Goroutines -> GoodProc]
  BY <1>1, SaveRowType, GotoType DEF ReceiptSuccess, Statuses, PCs
<1> QED
  BY <1>2 DEF ReceiptSuccess, TypeInv, chainVars

LEMMA BackToPendingType ==
  ASSUME TypeInv, NEW g \in Goroutines, proc[g].pc = "waiting", BackToPending(g), faults' \in Nat
  PROVE  TypeInv'
<1>1. proc[g].a \in ActionIds /\ proc[g].tx \in TxIds /\ proc[g].relayer \in Relayers
  BY WorkType DEF Holding
<1>2. action' \in [ActionIds -> GoodRow] /\ proc' \in [Goroutines -> GoodProc]
  BY <1>1, SaveRowType, DoneType DEF BackToPending, Statuses
<1> QED
  BY <1>2 DEF BackToPending, TypeInv, chainVars

LEMMA FinishExecutionType == ASSUME TypeInv, NEW g \in Goroutines, FinishExecution(g) PROVE TypeInv'
<1>1. proc[g].pc = "finishing" /\ proc[g].a \in ActionIds
  BY WorkType DEF FinishExecution
<1>2. Goto(g, "syncing") \/ Done(g)
  BY DEF FinishExecution
<1>3. proc' \in [Goroutines -> GoodProc]
  BY <1>1, <1>2, GotoType, DoneType DEF PCs
<1>4. hooks' \in [ActionIds -> [executed: Nat, rejected: BOOLEAN]]
  BY <1>1 DEF FinishExecution, TypeInv
<1> QED
  BY <1>3, <1>4 DEF FinishExecution, TypeInv, dbVars, chainVars

LEMMA ApplyMembershipType == ASSUME TypeInv, NEW g \in Goroutines, ApplyMembershipSideEffect(g) PROVE TypeInv'
<1>1. action[proc[g].a].what \in ProposalType
  BY WorkType DEF ApplyMembershipSideEffect
<1>2. /\ role' \in [Members -> Roles \cup {NoMember}]
      /\ group' \in [threshold: Nat, disabled: BOOLEAN]
  BY <1>1, SideEffectType DEF ApplyMembershipSideEffect, TypeInv
<1>3. proc' \in [Goroutines -> GoodProc]
  BY DoneType DEF ApplyMembershipSideEffect
<1> QED
  BY <1>2, <1>3 DEF ApplyMembershipSideEffect, TypeInv, chainVars

LEMMA ShortExecuteType ==
  ASSUME TypeInv, NEW g \in Goroutines,
         SubmitError(g) \/ SaveSubmittedFails(g) \/ SaveResultFails(g)
  PROVE  TypeInv'
<1>1. CASE SubmitError(g)
  BY <1>1, DoneType DEF SubmitError, TypeInv, dbVars, chainVars
<1>2. CASE SaveSubmittedFails(g)
  <2>1. proc' \in [Goroutines -> GoodProc]
    BY <1>2, GotoType DEF SaveSubmittedFails, PCs
  <2> QED
    BY <1>2, <2>1 DEF SaveSubmittedFails, Fault, TypeInv, dbVars, chainVars
<1>3. CASE SaveResultFails(g)
  <2>1. proc' \in [Goroutines -> GoodProc] /\ busy' \subseteq Relayers /\ faults' \in Nat
    BY <1>3, DoneType DEF SaveResultFails, Fault, BothFaults, TypeInv
  <2> QED
    BY <1>3, <2>1 DEF SaveResultFails, TypeInv, dbVars, chainVars
<1> QED
  BY <1>1, <1>2, <1>3

LEMMA ExecuteType == ASSUME TypeInv, NEW g \in Goroutines, Execute(g) PROVE TypeInv'
<1>1. CASE ReceiptReverted(g)
  BY <1>1, BackToPendingType DEF ReceiptReverted, TypeInv
<1>2. CASE WaitGivesUp(g)
  BY <1>2, BackToPendingType DEF WaitGivesUp, Fault, TypeInv
<1> QED
  BY <1>1, <1>2, RecordApprovalType, TallyType, ExecuteLocallyType, SubmitType, SubmitLostType,
     SaveSubmittedType, ReceiptSuccessType, FinishExecutionType, ApplyMembershipType, ShortExecuteType
     DEF Execute

LEMMA SaveRejectedType == ASSUME TypeInv, NEW g \in Goroutines, SaveRejected(g) PROVE TypeInv'
<1>1. proc[g].pc = "rejecting" /\ proc[g].a \in ActionIds
      /\ proc[g].tx \in TxIds \cup {NoTx} /\ proc[g].relayer \in Relayers \cup {NoRelayer}
  BY WorkType DEF SaveRejected, Proc
<1>2. action' \in [ActionIds -> GoodRow] /\ proc' \in [Goroutines -> GoodProc]
  BY <1>1, SaveRowType, GotoType DEF SaveRejected, Statuses, PCs
<1> QED
  BY <1>2 DEF SaveRejected, TypeInv, chainVars

LEMMA RejectedHookType == ASSUME TypeInv, NEW g \in Goroutines, RejectedHook(g) PROVE TypeInv'
<1>1. proc[g].a \in ActionIds
  BY WorkType DEF RejectedHook
<1>2. hooks' \in [ActionIds -> [executed: Nat, rejected: BOOLEAN]]
  BY <1>1 DEF RejectedHook, TypeInv
<1>3. proc' \in [Goroutines -> GoodProc]
  BY DoneType DEF RejectedHook
<1> QED
  BY <1>2, <1>3 DEF RejectedHook, TypeInv, dbVars, chainVars

LEMMA RestartType == ASSUME TypeInv, Restart PROVE TypeInv'
<1> DEFINE stuck == {a \in ActionIds : action[a].status = "SUBMITTED"}
           waiter(a) == [IdleProc EXCEPT !.pc = "waiting", !.a = a, !.tx = action[a].tx,
                                         !.relayer = action[a].relayer]
<1>1. \A a \in stuck : action[a].tx \in TxIds /\ action[a].relayer \in Relayers
  BY DEF TypeInv, GoodRow
<1>2. ASSUME NEW a \in stuck PROVE waiter(a) \in GoodProc
  BY <1>1, NoProposalType DEF IdleProc, GoodProc, Proc, PCs
<1>3. \/ /\ proc' = [g \in Goroutines |-> IF g \in stuck THEN waiter(g) ELSE IdleProc]
         /\ busy' = {action[a].relayer : a \in stuck}
      \/ /\ proc' = [g \in Goroutines |-> IdleProc]
         /\ busy' = {}
  BY DEF Restart, Stuck, ReserveAtStartup
<1> HIDE DEF waiter
<1>4. proc' \in [Goroutines -> GoodProc] /\ busy' \subseteq Relayers
  BY <1>1, <1>2, <1>3, IdleProcType
<1>5. UNCHANGED <<group, role, action, approvals, signer, safe, txs, hooks>>
  BY DEF Restart, Stuck, ReserveAtStartup, dbVars, chainVars
<1>6. Fault("restart") \/ BothFaults("restart", "database")
  BY DEF Restart
<1>7. faults' \in Nat
  BY <1>6 DEF Fault, BothFaults, TypeInv
<1> QED
  BY <1>4, <1>5, <1>7 DEF TypeInv

\* A restart leaves each goroutine idle, or waiting for the row it is named after.
LEMMA RestartProc ==
  ASSUME Restart, NEW g \in Goroutines
  PROVE  \/ /\ g \in ActionIds /\ action[g].status = "SUBMITTED"
            /\ proc'[g].pc = "waiting" /\ proc'[g].a = g
            /\ proc'[g].tx = action[g].tx /\ proc'[g].relayer = action[g].relayer
         \/ proc'[g].pc = "idle"
<1> DEFINE waiter(a) == [IdleProc EXCEPT !.pc = "waiting", !.a = a, !.tx = action[a].tx,
                                         !.relayer = action[a].relayer]
<1>1. \/ proc' = [h \in Goroutines |-> IF h \in Stuck THEN waiter(h) ELSE IdleProc]
      \/ proc' = [h \in Goroutines |-> IdleProc]
  BY DEF Restart
<1>2. /\ waiter(g).pc = "waiting" /\ waiter(g).a = g
      /\ waiter(g).tx = action[g].tx /\ waiter(g).relayer = action[g].relayer
  BY DEF IdleProc
<1>3. IdleProc.pc = "idle"
  BY DEF IdleProc
<1> HIDE DEF waiter
<1>4. (g \in Stuck /\ proc'[g] = waiter(g)) \/ proc'[g] = IdleProc
  BY <1>1
<1> QED
  BY <1>2, <1>3, <1>4 DEF Stuck

LEMMA TypeStep == TypeInv /\ [Next]_vars => TypeInv'
<1> SUFFICES ASSUME TypeInv, [Next]_vars PROVE TypeInv'
  OBVIOUS
<1>1. CASE UNCHANGED vars
  BY <1>1 DEF TypeInv, vars
<1>2. ASSUME NEW m \in Members, RotateSigner(m) PROVE TypeInv'
  <2>1. signer[m] + 1 \in Keys
    BY <1>2, BoundsAssumption DEF RotateSigner, TypeInv, Keys
  <2> QED
    BY <1>2, <2>1 DEF RotateSigner, TypeInv, dbVars
<1>3. ASSUME NEW g \in Requests, NEW m \in Members, NEW a \in ActionIds, RejectAction(g, m, a)
      PROVE  TypeInv'
  BY <1>3, ReadForRejectionType, Constants DEF RejectAction, ConstantFacts
<1>4. ASSUME NEW a \in ActionIds, ExpireStalePendingActions(a) PROVE TypeInv'
  BY <1>4, ReadForRejectionType, Constants DEF ExpireStalePendingActions, ConstantFacts
<1> QED
  BY <1>1, <1>2, <1>3, <1>4, MineType, ProposeCheckType, CreateType, ApproveType, ExecuteType,
     SaveRejectedType, RejectedHookType, RestartType DEF Next

\* Every reachable state is well typed.
THEOREM SharedAccessTyping == Spec => []TypeOK
<1>1. Spec => []TypeInv
  BY TypeInvInit, TypeStep, PTL DEF Spec
<1> QED
  BY <1>1, TypeInvImplies, PTL

-----------------------------------------------------------------------------
(* At most once.  Why no interleaving of handlers, sweeps, faults and       *)
(* restarts makes an action take effect twice: whatever a handler writes    *)
(* back, a row keeps the Safe nonce it was created with, and a transaction  *)
(* that lands moves the Safe past it.                                       *)

Working(g)    == proc[g].pc \notin {"idle", "proposing"}
HeldTx(a, tx) == \E g \in Goroutines : Holding(g) /\ proc[g].a = a /\ proc[g].tx = tx
SavingTx(a, tx) == \E g \in Goroutines : proc[g].pc = "saving" /\ proc[g].a = a /\ proc[g].tx = tx
Saves(a, status, tx, relayer) ==
  /\ SaveRow(a, status, tx, relayer)
  /\ \E g \in Goroutines : Working(g) /\ proc[g].a = a
  /\ status = "SUBMITTED" => HeldTx(a, tx) /\ SavingTx(a, tx) /\ relayer \in Relayers
  /\ status = "EXECUTED" /\ action[a].onChain => HeldTx(a, tx) /\ txs[tx].status = "success"
SavesARow == \E a \in ActionIds, status \in Statuses \ {"NONE"},
                tx \in TxIds \cup {NoTx}, relayer \in Relayers \cup {NoRelayer} :
               Saves(a, status, tx, relayer)
CreatesARow == \E a \in ActionIds, g \in Requests, row \in GoodRow :
                 /\ action[a].status = "NONE" /\ CreatePendingAction(g)
                 /\ row.status = "PENDING" /\ row.what = proc[g].what /\ row.required = proc[g].required
                 /\ action' = [action EXCEPT ![a] = row]

LEMMA CreateEffects ==
  ASSUME TypeInv, NEW g \in Requests, CreatePendingAction(g) PROVE action' = action \/ CreatesARow
<1> DEFINE row == [NoRow EXCEPT !.status = "PENDING", !.what = proc[g].what,
                                !.onChain = proc[g].onChain, !.required = proc[g].required,
                                !.nonce = IF proc[g].onChain THEN safe.nonce ELSE 0]
<1>1. g \in Goroutines /\ proc[g].pc = "proposing" /\ proc[g] \in Proc /\ safe.nonce \in Nat
  BY Constants, WorkType DEF ConstantFacts, TypeInv, CreatePendingAction
<1>2. row \in GoodRow /\ row.status = "PENDING" /\ row.what = proc[g].what /\ row.required = proc[g].required
  BY <1>1 DEF NoRow, GoodRow, Row, Proc, Statuses, NoTx, NoRelayer
<1>3. action' = action \/ \E a \in ActionIds : IsNextId(a) /\ action' = [action EXCEPT ![a] = row]
  BY DEF CreatePendingAction, NewRow
<1> HIDE DEF row
<1> QED
  BY <1>2, <1>3 DEF CreatesARow, IsNextId, FreeIds

\* What a step can do to the rows.
LEMMA RowEffects == ASSUME TypeInv, [Next]_vars
                    PROVE  action' = action \/ SavesARow \/ CreatesARow
<1>1. ASSUME NEW g \in Requests, CreatePendingAction(g) PROVE action' = action \/ CreatesARow
  BY <1>1, CreateEffects
<1>2. ASSUME NEW g \in Goroutines, Execute(g) \/ SaveRejected(g) PROVE action' = action \/ SavesARow
  <2>1. Working(g) => proc[g].a \in ActionIds
    BY WorkType DEF Working
  <2>2. proc[g].tx \in TxIds \cup {NoTx} /\ proc[g].relayer \in Relayers \cup {NoRelayer}
    BY WorkType DEF Proc
  <2>3. CASE ExecuteLocally(g)
    <3>1. action[proc[g].a] \in Row
      BY <2>3, WorkType DEF ExecuteLocally, GoodRow
    <3>2. action[proc[g].a].tx \in TxIds \cup {NoTx} /\ action[proc[g].a].relayer \in Relayers \cup {NoRelayer}
      BY <3>1 DEF Row
    <3>3. proc[g].pc = "executing" /\ ~action[proc[g].a].onChain
          /\ (action' = action
              \/ SaveRow(proc[g].a, "EXECUTED", action[proc[g].a].tx, action[proc[g].a].relayer))
      BY <2>3 DEF ExecuteLocally
    <3> QED
      BY <2>1, <3>2, <3>3 DEF SavesARow, Saves, Statuses, Working
  <2>4. CASE SaveSubmitted(g) \/ ReceiptSuccess(g)
    <3>1. proc[g].a \in ActionIds /\ HeldTx(proc[g].a, proc[g].tx) /\ proc[g].relayer \in Relayers
      BY <2>1, <2>4, WorkType DEF SaveSubmitted, ReceiptSuccess, HeldTx, Holding, Working
    <3>2. CASE SaveSubmitted(g)
      <4>1. Saves(proc[g].a, "SUBMITTED", proc[g].tx, proc[g].relayer)
        BY <3>1, <3>2 DEF SaveSubmitted, Saves, SavingTx, Working
      <4> QED
        BY <2>2, <3>1, <4>1 DEF SavesARow, Statuses
    <3>3. CASE ReceiptSuccess(g)
      <4>1. Saves(proc[g].a, "EXECUTED", proc[g].tx, proc[g].relayer)
        BY <3>1, <3>3 DEF ReceiptSuccess, Saves, Working
      <4> QED
        BY <2>2, <3>1, <4>1 DEF SavesARow, Statuses
    <3> QED
      BY <2>4, <3>2, <3>3
  <2>6. CASE ReceiptReverted(g) \/ WaitGivesUp(g) \/ SaveRejected(g)
    <3>1. \E status \in {"PENDING", "REJECTED"} : SaveRow(proc[g].a, status, proc[g].tx, proc[g].relayer)
      BY <2>6 DEF ReceiptReverted, WaitGivesUp, BackToPending, SaveRejected
    <3>2. Working(g) /\ proc[g].a \in ActionIds
      BY <2>1, <2>6 DEF ReceiptReverted, WaitGivesUp, SaveRejected, Working
    <3> QED
      BY <2>2, <3>1, <3>2 DEF SavesARow, Saves, Statuses
  <2>5. CASE \/ RecordApproval(g) \/ TallyAndMaybeExecute(g) \/ Submit(g) \/ SubmitErrorAfterBroadcast(g)
             \/ SubmitError(g) \/ SaveSubmittedFails(g) \/ SaveResultFails(g) \/ FinishExecution(g)
             \/ ApplyMembershipSideEffect(g)
    BY <2>5 DEF RecordApproval, TallyAndMaybeExecute, Submit, SubmitErrorAfterBroadcast, SubmitError,
                SaveSubmittedFails, SaveResultFails, FinishExecution, ApplyMembershipSideEffect, dbVars
  <2> QED
    BY <1>2, <2>3, <2>4, <2>5, <2>6 DEF Execute
<1>3. CASE UNCHANGED vars
  BY <1>3 DEF vars
<1>4. CASE \/ \E t \in TxIds : Mine(t)
           \/ \E m \in Members : RotateSigner(m)
           \/ \E g \in Requests, m \in Members, w \in Proposals : ProposeCheck(g, m, w)
           \/ \E g \in Requests, m \in Members, a \in ActionIds : ApproveAction(g, m, a) \/ RejectAction(g, m, a)
           \/ \E a \in ActionIds : ExpireStalePendingActions(a)
           \/ \E g \in Goroutines : RejectedHook(g)
           \/ Restart
  BY <1>4 DEF Mine, RotateSigner, ProposeCheck, ApproveAction, RejectAction, ExpireStalePendingActions,
              ReadForRejection, RejectedHook, Restart, dbVars
<1> QED
  BY <1>1, <1>2, <1>3, <1>4 DEF Next

\* No step removes a row or changes what it was created with.
LEMMA RowsKept ==
  ASSUME TypeInv, [Next]_vars, NEW a \in ActionIds, action[a].status # "NONE"
  PROVE  /\ action'[a].status # "NONE"
         /\ action'[a].nonce = action[a].nonce
         /\ action'[a].onChain = action[a].onChain
         /\ action'[a].what = action[a].what
         /\ action'[a].required = action[a].required
<1>1. action \in [ActionIds -> GoodRow] /\ action[a] \in Row
  BY DEF TypeInv, GoodRow
<1>2. CASE SavesARow
  <2>1. PICK b \in ActionIds, status \in Statuses \ {"NONE"}, tx \in TxIds \cup {NoTx},
             relayer \in Relayers \cup {NoRelayer} : SaveRow(b, status, tx, relayer)
    BY <1>2 DEF SavesARow, Saves
  <2> DEFINE row == [action[b] EXCEPT !.status = status, !.tx = tx, !.relayer = relayer]
  <2>2. action' = [action EXCEPT ![b] = row]
    BY <1>1, <2>1 DEF SaveRow
  <2>3. action[b] \in Row
    BY <1>1 DEF GoodRow
  <2>4. /\ row.status # "NONE" /\ row.nonce = action[b].nonce /\ row.onChain = action[b].onChain
        /\ row.what = action[b].what /\ row.required = action[b].required
    BY <2>3 DEF Row
  <2> HIDE DEF row
  <2> QED
    BY <1>1, <2>2, <2>4
<1>3. CASE CreatesARow
  BY <1>1, <1>3 DEF CreatesARow
<1> QED
  BY <1>2, <1>3, RowEffects

SendsATx == \E g \in Goroutines, t \in TxIds, r \in Relayers :
              proc[g].pc = "executing" /\ FreshTx(t) /\ Broadcast(g, t, r)

\* What a step can do to the transactions and the Safe.
LEMMA ChainEffects == ASSUME TypeInv, [Next]_vars
                      PROVE  \/ txs' = txs /\ safe' = safe
                             \/ SendsATx /\ safe' = safe
                             \/ \E t \in TxIds : Mine(t)
<1>1. ASSUME NEW g \in Goroutines, Execute(g)
      PROVE  safe' = safe /\ (txs' = txs \/ SendsATx)
  <2>1. CASE Submit(g) \/ SubmitErrorAfterBroadcast(g)
    <3>1. \E r \in Relayers, t \in TxIds : FreshTx(t) /\ Broadcast(g, t, r)
      BY <2>1 DEF Submit, SubmitErrorAfterBroadcast
    <3>2. proc[g].pc = "executing" /\ safe' = safe
      BY <2>1 DEF Submit, SubmitErrorAfterBroadcast
    <3> QED
      BY <3>1, <3>2 DEF SendsATx
  <2>2. CASE \/ RecordApproval(g) \/ TallyAndMaybeExecute(g) \/ ExecuteLocally(g) \/ SubmitError(g)
             \/ SaveSubmitted(g) \/ SaveSubmittedFails(g) \/ ReceiptSuccess(g) \/ ReceiptReverted(g)
             \/ WaitGivesUp(g) \/ SaveResultFails(g) \/ FinishExecution(g) \/ ApplyMembershipSideEffect(g)
    BY <2>2 DEF RecordApproval, TallyAndMaybeExecute, ExecuteLocally, SubmitError, SaveSubmitted,
                SaveSubmittedFails, ReceiptSuccess, ReceiptReverted, WaitGivesUp, BackToPending,
                SaveResultFails, FinishExecution, ApplyMembershipSideEffect, chainVars
  <2> QED
    BY <1>1, <2>1, <2>2 DEF Execute
<1>2. CASE UNCHANGED vars
  BY <1>2 DEF vars
<1>3. CASE \/ \E m \in Members : RotateSigner(m)
           \/ \E g \in Requests, m \in Members, w \in Proposals : ProposeCheck(g, m, w)
           \/ \E g \in Requests : CreatePendingAction(g)
           \/ \E g \in Requests, m \in Members, a \in ActionIds : ApproveAction(g, m, a) \/ RejectAction(g, m, a)
           \/ \E a \in ActionIds : ExpireStalePendingActions(a)
           \/ \E g \in Goroutines : SaveRejected(g) \/ RejectedHook(g)
           \/ Restart
  BY <1>3 DEF RotateSigner, ProposeCheck, CreatePendingAction, ApproveAction, RejectAction,
              ExpireStalePendingActions, ReadForRejection, SaveRejected, RejectedHook, Restart, chainVars
<1> QED
  BY <1>1, <1>2, <1>3 DEF Next

\* What a step can do to a goroutine that is at work after it.
\* A goroutine past the tally, and an action with the approvals it was created to need.
Decided(g)   == proc[g].pc \in {"executing", "saving", "waiting", "finishing", "syncing"}
Enough(a)    == ~(Cardinality(approvals[a]) < action[a].required)
Continues(g) == /\ Working(g)
                /\ proc'[g].a = proc[g].a
                /\ Decided(g)' => Decided(g) \/ Enough(proc[g].a)
                /\ Holding(g)' => \/ Holding(g) /\ proc'[g].tx = proc[g].tx
                                  \/ /\ proc'[g].tx \in TxIds
                                     /\ txs'[proc'[g].tx].status = "pending"
                                     /\ txs'[proc'[g].tx].a = proc[g].a
Starts(g)    == /\ ~Holding(g)' /\ ~Decided(g)'
                /\ action[proc'[g].a].status = "PENDING"
Resumes(g)   == /\ action[proc'[g].a].status = "SUBMITTED"
                /\ proc'[g].tx = action[proc'[g].a].tx
LEMMA WorkEffects == ASSUME TypeInv, [Next]_vars, NEW g \in Goroutines, Working(g)'
                     PROVE  Continues(g) \/ Starts(g) \/ Resumes(g)
<1>0. proc \in [Goroutines -> GoodProc] /\ proc[g] \in Proc
  BY DEF TypeInv, GoodProc
<1>1. ASSUME proc'[g] = proc[g] PROVE Continues(g)
  BY <1>1 DEF Working, Continues, Holding, Decided
<1>2. CASE UNCHANGED vars \/ (\E t \in TxIds : Mine(t)) \/ (\E m \in Members : RotateSigner(m))
  BY <1>1, <1>2 DEF vars, Mine, RotateSigner
<1>3. ASSUME NEW h \in Goroutines, NEW p, proc' = [proc EXCEPT ![h] = p],
             h = g /\ p.pc \notin {"idle", "proposing"} => Continues(g) \/ Starts(g)
      PROVE  Continues(g) \/ Starts(g)
  BY <1>0, <1>1, <1>3 DEF Working
<1>4. ASSUME NEW h \in Goroutines, Done(h) PROVE Continues(g) \/ Starts(g)
  BY <1>3, <1>4 DEF Done, IdleProc
<1>5. ASSUME NEW h \in Goroutines, NEW pc, Goto(h, pc), Working(h),
             pc \in {"saving", "waiting", "finishing"} => Holding(h),
             pc = "syncing" => Decided(h), pc # "executing"
      PROVE  Continues(g)
  <2>1. CASE h # g
    <3>1. proc'[g] = proc[g]
      BY <1>0, <1>5, <2>1 DEF Goto
    <3> QED
      BY <1>1, <3>1
  <2>2. CASE h = g
    <3>1. proc'[g].pc = pc /\ proc'[g].a = proc[g].a /\ proc'[g].tx = proc[g].tx
      BY <1>0, <1>5, <2>2 DEF Goto, GoodProc, Proc
    <3> QED
      BY <1>5, <2>2, <3>1 DEF Continues, Holding, Decided, Working
  <2> QED
    BY <2>1, <2>2
<1>6. ASSUME NEW h \in Requests, NEW m \in Members, NEW w \in Proposals, ProposeCheck(h, m, w)
      PROVE  Continues(g) \/ Starts(g)
  BY <1>3, <1>6, Constants DEF ConstantFacts, ProposeCheck, IdleProc
<1>7. ASSUME NEW h \in Requests, CreatePendingAction(h) PROVE Continues(g) \/ Starts(g)
  BY <1>4, <1>7, Constants DEF ConstantFacts, CreatePendingAction
<1>8. ASSUME NEW h \in Goroutines, NEW m \in Members, NEW a \in ActionIds,
             ApproveAction(h, m, a) \/ ReadForRejection(h, a)
      PROVE  Continues(g) \/ Starts(g)
  <2>1. h = g => proc'[g].a = a /\ proc'[g].pc \in {"tallying", "approving", "rejecting"}
    <3>1. CASE ApproveAction(h, m, a)
      BY <1>0, <3>1 DEF ApproveAction, IdleProc
    <3>2. CASE ReadForRejection(h, a)
      BY <1>0, <3>2 DEF ReadForRejection, IdleProc
    <3> QED
      BY <1>8, <3>1, <3>2
  <2>2. h # g => proc'[g] = proc[g]
    BY <1>0, <1>8 DEF ApproveAction, ReadForRejection
  <2>3. action[a].status = "PENDING"
    BY <1>8 DEF ApproveAction, ReadForRejection
  <2> QED
    BY <1>1, <2>1, <2>2, <2>3 DEF Starts, Holding, Decided
<1>9. ASSUME NEW h \in Goroutines, Execute(h) \/ SaveRejected(h) \/ RejectedHook(h)
      PROVE  Continues(g) \/ Starts(g)
  <2>1. CASE Submit(h)
    <3>1. PICK r \in Relayers \ busy, t \in TxIds :
            /\ Broadcast(h, t, r)
            /\ proc' = [proc EXCEPT ![h].pc = "saving", ![h].tx = t, ![h].relayer = r]
      BY <2>1 DEF Submit
    <3>2. txs'[t].status = "pending" /\ txs'[t].a = proc[h].a
      BY <3>1 DEF Broadcast, TypeInv
    <3>3. h = g => proc'[g].a = proc[g].a /\ proc'[g].tx = t
      BY <1>0, <3>1 DEF Proc
    <3>4. h # g => proc'[g] = proc[g]
      BY <1>0, <3>1
    <3>5. Working(h) /\ Decided(h)
      BY <2>1 DEF Submit, Working, Decided
    <3> QED
      BY <1>1, <3>2, <3>3, <3>4, <3>5 DEF Continues
  <2>2. CASE TallyAndMaybeExecute(h)
    <3>1. Working(h) /\ \/ Done(h)
                        \/ /\ ~(Cardinality(approvals[proc[h].a]) < action[proc[h].a].required)
                           /\ proc' = [proc EXCEPT ![h].pc = "executing", ![h].sigs = approvals[proc[h].a]]
      BY <2>2 DEF TallyAndMaybeExecute, Working
    <3>2. CASE /\ Enough(proc[h].a)
               /\ proc' = [proc EXCEPT ![h].pc = "executing", ![h].sigs = approvals[proc[h].a]]
      <4>1. h = g => proc'[g].a = proc[g].a /\ proc'[g].pc = "executing"
        BY <1>0, <3>2 DEF Proc
      <4>2. h # g => proc'[g] = proc[g]
        BY <1>0, <3>2
      <4> QED
        BY <1>1, <3>1, <3>2, <4>1, <4>2 DEF Continues, Holding
    <3> QED
      BY <1>4, <3>1, <3>2 DEF Enough
  <2>3. CASE \/ ExecuteLocally(h) \/ SubmitErrorAfterBroadcast(h) \/ SubmitError(h)
             \/ ReceiptReverted(h) \/ WaitGivesUp(h) \/ SaveResultFails(h)
             \/ ApplyMembershipSideEffect(h) \/ RejectedHook(h)
    <3>1. Done(h)
      BY <2>3 DEF ExecuteLocally, SubmitErrorAfterBroadcast, SubmitError, ReceiptReverted, WaitGivesUp,
                  BackToPending, SaveResultFails, ApplyMembershipSideEffect, RejectedHook
    <3> QED
      BY <1>4, <3>1
  <2>4. CASE RecordApproval(h) \/ FinishExecution(h) \/ SaveRejected(h)
    <3>1. Working(h) /\ (Done(h) \/ Goto(h, "tallying") \/ Goto(h, "syncing") \/ Goto(h, "rejected"))
      BY <2>4 DEF RecordApproval, FinishExecution, SaveRejected, Working
    <3>2. Goto(h, "syncing") => Decided(h) \/ Done(h) \/ Goto(h, "tallying") \/ Goto(h, "rejected")
      BY <2>4 DEF RecordApproval, FinishExecution, SaveRejected, Decided
    <3> QED
      BY <1>4, <1>5, <3>1, <3>2
  <2>5. CASE SaveSubmitted(h) \/ SaveSubmittedFails(h) \/ ReceiptSuccess(h)
    <3>1. Working(h) /\ Holding(h) /\ (Goto(h, "waiting") \/ Goto(h, "finishing"))
      BY <2>5 DEF SaveSubmitted, SaveSubmittedFails, ReceiptSuccess, Working, Holding
    <3> QED
      BY <1>5, <3>1
  <2> QED
    BY <1>9, <2>1, <2>2, <2>3, <2>4, <2>5 DEF Execute
<1>10. CASE Restart
  <2>1. g \in ActionIds /\ action[g].status = "SUBMITTED" /\ proc'[g].a = g /\ proc'[g].tx = action[g].tx
    BY <1>10, RestartProc DEF Working
  <2> QED
    BY <2>1 DEF Resumes
<1>11. ASSUME NEW h \in Requests, NEW m \in Members, NEW a \in ActionIds,
              ApproveAction(h, m, a) \/ RejectAction(h, m, a)
       PROVE  Continues(g) \/ Starts(g)
  BY <1>8, <1>11, Constants DEF ConstantFacts, RejectAction
<1>12. ASSUME NEW a \in ActionIds, ReadForRejection(Sweeper, a) PROVE Continues(g) \/ Starts(g)
  <2>1. Sweeper \in Goroutines
    BY Constants DEF ConstantFacts
  <2>2. /\ action[a].status = "PENDING"
        /\ Sweeper = g => proc'[g].a = a /\ proc'[g].pc = "rejecting"
        /\ Sweeper # g => proc'[g] = proc[g]
    BY <1>0, <1>12, <2>1 DEF ReadForRejection, IdleProc
  <2> QED
    BY <1>1, <2>2 DEF Starts, Holding, Decided
<1> QED
  BY <1>2, <1>6, <1>7, <1>9, <1>10, <1>11, <1>12 DEF Next, ExpireStalePendingActions

Known(a) == a \in ActionIds /\ action[a].status # "NONE"
LandInv ==
  /\ TypeInv
  /\ \A g \in Goroutines : Working(g) => Known(proc[g].a)
  /\ \A g \in Goroutines : Holding(g) => /\ txs[proc[g].tx].status # "unused"
                                         /\ txs[proc[g].tx].a = proc[g].a
  /\ \A a \in ActionIds : action[a].status = "SUBMITTED" => /\ txs[action[a].tx].status # "unused"
                                                            /\ txs[action[a].tx].a = a
  /\ \A t \in TxIds : txs[t].status # "unused" => Known(txs[t].a)
  /\ \A t \in TxIds : txs[t].status = "success" => action[txs[t].a].nonce < safe.nonce
  /\ LandsAtMostOnce
  /\ ExecutedMeansLanded

LEMMA LandInvInit == Init => LandInv
<1> SUFFICES ASSUME Init PROVE LandInv
  OBVIOUS
<1>1. /\ \A g \in Goroutines : ~Working(g) /\ ~Holding(g)
      /\ \A a \in ActionIds : action[a].status = "NONE"
      /\ \A t \in TxIds : txs[t].status = "unused"
  BY DEF Init, Working, Holding, IdleProc, NoRow, NoTxn
<1> QED
  BY <1>1, TypeInvInit DEF LandInv, LandsAtMostOnce, ExecutedMeansLanded, LandedTxs

\* What is sent stays sent, what landed stays landed, and what lands now had
\* the Safe's nonce.
LEMMA TxsKept ==
  ASSUME TypeInv, [Next]_vars
  PROVE  /\ safe'.nonce >= safe.nonce
         /\ \A t \in TxIds : txs[t].status # "unused" => /\ txs'[t].status # "unused"
                                                         /\ txs'[t].a = txs[t].a
         /\ \A t \in TxIds : txs[t].status = "success" => txs'[t].status = "success"
<1>0. txs \in [TxIds -> GoodTx] /\ safe.nonce \in Nat
  BY DEF TypeInv
<1>1. CASE txs' = txs /\ safe' = safe
  BY <1>0, <1>1
<1>2. CASE SendsATx /\ safe' = safe
  <2>1. PICK g \in Goroutines, t \in TxIds, r \in Relayers : FreshTx(t) /\ Broadcast(g, t, r)
    BY <1>2 DEF SendsATx
  <2> QED
    BY <1>0, <1>2, <2>1 DEF Broadcast, FreshTx
<1>3. ASSUME NEW t \in TxIds, Mine(t)
      PROVE  /\ safe'.nonce >= safe.nonce
             /\ txs[t].status = "pending"
             /\ \E s \in {"success", "reverted"} : txs' = [txs EXCEPT ![t].status = s]
  BY <1>0, <1>3 DEF Mine, SafeAfter
<1>4. CASE \E t \in TxIds : Mine(t)
  <2>1. PICK t \in TxIds : Mine(t)
    BY <1>4
  <2>2. PICK s \in {"success", "reverted"} : txs' = [txs EXCEPT ![t].status = s]
    BY <1>3, <2>1
  <2>3. txs[t] \in Tx
    BY <1>0 DEF GoodTx
  <2>4. txs'[t].status = s /\ txs'[t].a = txs[t].a /\ \A u \in TxIds \ {t} : txs'[u] = txs[u]
    BY <1>0, <2>2, <2>3 DEF Tx
  <2> QED
    BY <1>3, <2>1, <2>4
<1> QED
  BY <1>1, <1>2, <1>4, ChainEffects

LEMMA NewLanding ==
  ASSUME TypeInv, [Next]_vars, NEW t \in TxIds, txs'[t].status = "success", txs[t].status # "success"
  PROVE  /\ txs[t].status = "pending"
         /\ action[txs[t].a].nonce = safe.nonce
         /\ safe'.nonce = safe.nonce + 1
         /\ \A u \in TxIds \ {t} : txs'[u] = txs[u]
<1>0. txs \in [TxIds -> GoodTx]
  BY DEF TypeInv
<1>1. PICK u \in TxIds : Mine(u)
  <2>1. ~SendsATx
    BY <1>0 DEF SendsATx, Broadcast
  <2> QED
    BY <2>1, ChainEffects
<1>2. u = t /\ txs[t].status = "pending" /\ \A v \in TxIds \ {t} : txs'[v] = txs[v]
  BY <1>0, <1>1 DEF Mine
<1>3. txs' # [txs EXCEPT ![t].status = "reverted"]
  <2>1. txs[t] \in Tx
    BY <1>0 DEF GoodTx
  <2>2. [txs EXCEPT ![t].status = "reverted"][t].status = "reverted"
    BY <1>0, <2>1 DEF Tx
  <2> QED
    BY <2>2
<1> QED
  BY <1>1, <1>2, <1>3 DEF Mine, ExecSucceeds, SafeAfter

LEMMA NewTx ==
  ASSUME TypeInv, [Next]_vars, NEW t \in TxIds, txs'[t].status # "unused", txs[t].status = "unused"
  PROVE  /\ txs'[t].status = "pending"
         /\ \E g \in Goroutines : Working(g) /\ Decided(g) /\ txs'[t].a = proc[g].a
<1>0. txs \in [TxIds -> GoodTx]
  BY DEF TypeInv
<1>1. ~\E u \in TxIds : Mine(u)
  BY <1>0 DEF Mine
<1>2. SendsATx
  BY <1>1, ChainEffects
<1> QED
  BY <1>0, <1>2 DEF SendsATx, Broadcast, Working, Decided

LEMMA LandInvStep == LandInv /\ [Next]_vars => LandInv'
<1> SUFFICES ASSUME LandInv, [Next]_vars PROVE LandInv'
  OBVIOUS
<1>0. TypeInv /\ TypeInv'
  BY TypeStep DEF LandInv
<1>k. \A a \in ActionIds : Known(a) => /\ action'[a].status # "NONE"
                                      /\ action'[a].nonce = action[a].nonce
                                      /\ action'[a].onChain = action[a].onChain
  BY <1>0, RowsKept DEF Known
<1>w. ASSUME NEW g \in Goroutines
      PROVE  /\ Working(g) => Known(proc[g].a)
             /\ Holding(g) => /\ Working(g) /\ proc[g].tx \in TxIds
                              /\ txs[proc[g].tx].status # "unused"
                              /\ txs[proc[g].tx].a = proc[g].a
  BY <1>0, WorkType DEF LandInv, Holding, Working
<1>s. ASSUME NEW a \in ActionIds, action[a].status = "SUBMITTED"
      PROVE  /\ action[a].tx \in TxIds
             /\ txs[action[a].tx].status # "unused"
             /\ txs[action[a].tx].a = a
  BY <1>0, <1>s DEF LandInv, TypeInv, GoodRow
<1>1. ASSUME NEW g \in Goroutines, Working(g)'
      PROVE  proc'[g].a \in ActionIds /\ action'[proc'[g].a].status # "NONE"
  <2>1. Known(proc'[g].a)
    <3>1. proc'[g].a \in ActionIds
      BY <1>0, <1>1 DEF TypeInv, GoodProc, Working
    <3> QED
      BY <1>0, <1>1, <1>w, <3>1, WorkEffects DEF Continues, Starts, Resumes, Known
  <2> QED
    BY <1>k, <2>1 DEF Known
<1>2. ASSUME NEW g \in Goroutines, Holding(g)'
      PROVE  txs'[proc'[g].tx].status # "unused" /\ txs'[proc'[g].tx].a = proc'[g].a
  <2>1. Working(g)' /\ proc'[g].a \in ActionIds
    BY <1>0, <1>2 DEF Working, Holding, TypeInv, GoodProc
  <2>2. CASE Continues(g)
    BY <1>0, <1>2, <1>w, <2>2, TxsKept DEF Continues
  <2>3. CASE Resumes(g)
    BY <1>0, <1>s, <2>1, <2>3, TxsKept DEF Resumes
  <2> QED
    BY <1>0, <1>2, <2>1, <2>2, <2>3, WorkEffects DEF Starts
<1>3. ASSUME NEW t \in TxIds, txs'[t].status # "unused"
      PROVE  txs'[t].a \in ActionIds /\ action'[txs'[t].a].status # "NONE"
  <2>1. Known(txs'[t].a)
    <3>1. CASE txs[t].status = "unused"
      BY <1>0, <1>3, <1>w, <3>1, NewTx
    <3>2. CASE txs[t].status # "unused"
      BY <1>0, <3>2, TxsKept DEF LandInv
    <3> QED
      BY <3>1, <3>2
  <2> QED
    BY <1>k, <2>1 DEF Known
<1>4. ASSUME NEW t \in TxIds, txs'[t].status = "success"
      PROVE  /\ Known(txs[t].a) /\ txs'[t].a = txs[t].a
             /\ action'[txs'[t].a].nonce < safe'.nonce
             /\ txs[t].status # "success" => action'[txs'[t].a].nonce = safe.nonce
  <2>0. safe.nonce \in Nat /\ safe'.nonce \in Nat
    BY <1>0 DEF TypeInv
  <2>1. txs[t].status # "unused"
    BY <1>0, <1>4, NewTx
  <2>2. Known(txs[t].a) /\ txs'[t].a = txs[t].a
    BY <1>0, <2>1, TxsKept DEF LandInv
  <2>3. action'[txs'[t].a].nonce = action[txs[t].a].nonce
    BY <1>k, <2>2 DEF Known
  <2>4. CASE txs[t].status = "success"
    <3>1. action[txs[t].a].nonce < safe.nonce /\ safe.nonce <= safe'.nonce
      BY <1>0, <2>4, TxsKept DEF LandInv
    <3>2. action[txs[t].a].nonce \in Nat
      BY <1>0, <2>2 DEF TypeInv, GoodRow, Row, Known
    <3> QED
      BY <2>0, <2>2, <2>3, <2>4, <3>1, <3>2
  <2>5. CASE txs[t].status # "success"
    BY <1>0, <1>4, <2>0, <2>2, <2>3, <2>5, NewLanding
  <2> QED
    BY <2>4, <2>5
<1>5. LandsAtMostOnce'
  <2> SUFFICES ASSUME NEW t \in TxIds, NEW u \in TxIds, txs'[t].status = "success", txs'[u].status = "success",
                      txs'[t].a = txs'[u].a, t # u
               PROVE  FALSE
    BY DEF LandsAtMostOnce, LandedTxs
  <2>1. ASSUME NEW x \in TxIds, NEW y \in TxIds, x # y, txs'[x].status = "success", txs'[y].status = "success",
               txs'[x].a = txs'[y].a, txs[x].status # "success"
        PROVE  FALSE
    <3>1. action'[txs'[x].a].nonce = safe.nonce
      BY <1>4, <2>1
    <3>2. txs'[y] = txs[y]
      BY <1>0, <2>1, NewLanding
    <3>3. action[txs[y].a].nonce < safe.nonce /\ Known(txs[y].a)
      BY <2>1, <3>2 DEF LandInv
    <3>4. action'[txs'[y].a].nonce = action[txs[y].a].nonce
      BY <1>k, <3>2, <3>3 DEF Known
    <3>5. safe.nonce \in Nat
      BY <1>0 DEF TypeInv
    <3> QED
      BY <2>1, <3>1, <3>3, <3>4, <3>5
  <2>2. txs[t].status = "success" /\ txs[u].status = "success"
    BY <2>1
  <2>3. txs[t].a = txs[u].a /\ txs[t].a \in ActionIds
    BY <1>0, <2>2, TxsKept DEF LandInv, Known
  <2> QED
    BY <2>2, <2>3 DEF LandInv, LandsAtMostOnce, LandedTxs
<1>6. ASSUME NEW a \in ActionIds
      PROVE  /\ action'[a].status = "SUBMITTED" => /\ txs'[action'[a].tx].status # "unused"
                                                   /\ txs'[action'[a].tx].a = a
             /\ action'[a].status = "EXECUTED" /\ action'[a].onChain =>
                  /\ action'[a].tx \in TxIds
                  /\ txs'[action'[a].tx].status = "success"
                  /\ txs'[action'[a].tx].a = a
  <2>0. action \in [ActionIds -> GoodRow] /\ action[a] \in Row
    BY <1>0 DEF TypeInv, GoodRow
  <2>1. CASE action'[a] = action[a]
    <3>1. action[a].status = "EXECUTED" /\ action[a].onChain => action[a].tx \in LandedTxs(a)
      BY DEF LandInv, ExecutedMeansLanded
    <3> QED
      BY <1>0, <1>s, <2>1, <3>1, TxsKept DEF LandedTxs
  <2>2. CASE CreatesARow /\ action'[a] # action[a]
    BY <2>0, <2>2 DEF CreatesARow
  <2>3. CASE SavesARow /\ action'[a] # action[a]
    <3>1. PICK b \in ActionIds, status \in Statuses \ {"NONE"}, tx \in TxIds \cup {NoTx},
               relayer \in Relayers \cup {NoRelayer} : Saves(b, status, tx, relayer)
      BY <2>3 DEF SavesARow
    <3>2. b = a
      BY <2>0, <2>3, <3>1 DEF Saves, SaveRow
    <3>3. action'[a].status = status /\ action'[a].tx = tx /\ action'[a].onChain = action[a].onChain
      BY <2>0, <3>1, <3>2 DEF Saves, SaveRow, Row
    <3>4. HeldTx(a, tx) => tx \in TxIds /\ txs[tx].status # "unused" /\ txs[tx].a = a
      BY <1>w DEF HeldTx
    <3>5. CASE status = "SUBMITTED"
      BY <1>0, <3>1, <3>2, <3>3, <3>4, <3>5, TxsKept DEF Saves
    <3>6. CASE status = "EXECUTED"
      BY <1>0, <3>1, <3>2, <3>3, <3>4, <3>6, TxsKept DEF Saves
    <3> QED
      BY <3>3, <3>5, <3>6
  <2> QED
    BY <1>0, <2>1, <2>2, <2>3, RowEffects
<1>7. ExecutedMeansLanded'
  BY <1>6 DEF ExecutedMeansLanded, LandedTxs
<1> QED
  BY <1>0, <1>1, <1>2, <1>3, <1>4, <1>5, <1>6, <1>7 DEF LandInv, Known

LEMMA LandInvHolds == Spec => []LandInv
  BY LandInvInit, LandInvStep, PTL DEF Spec

\* However often an action is submitted, and whatever fails or restarts, its
\* transaction takes effect at most once.
THEOREM ActionLandsAtMostOnce == Spec => []LandsAtMostOnce
<1>1. LandInv => LandsAtMostOnce
  BY DEF LandInv
<1> QED
  BY <1>1, LandInvHolds, PTL

\* An action recorded as EXECUTED names the transaction that carried it out.
THEOREM ExecutedActionLanded == Spec => []ExecutedMeansLanded
<1>1. LandInv => ExecutedMeansLanded
  BY DEF LandInv
<1> QED
  BY <1>1, LandInvHolds, PTL

-----------------------------------------------------------------------------
(* Relayers.  As long as the database takes every save, a SUBMITTED row has  *)
(* the goroutine that waits for it, which holds a relayer of its own; that   *)
(* is what makes it sound to rebuild the pool from SUBMITTED rows at boot.   *)

Awaits(g, a) == /\ proc[g].pc = "waiting"
                /\ proc[g].a = a
                /\ proc[g].tx = action[a].tx
                /\ proc[g].relayer = action[a].relayer
HoldInv == TypeInv /\ RelayerExclusive /\ SubmittedIsAwaited

\* Nothing happens to a goroutine that holds a relayer, or to a SUBMITTED row.
Aside == /\ busy' = busy
         /\ \A h \in Goroutines : /\ Holding(h) => proc'[h] = proc[h]
                                  /\ Holding(h)' => Holding(h)
         /\ \A a \in ActionIds : action'[a].status = "SUBMITTED" => action'[a] = action[a]
OthersSame(g) == \A h \in Goroutines \ {g} : proc'[h] = proc[h]
Claims(g)     == /\ ~Holding(g) /\ Holding(g)'
                 /\ proc'[g].relayer \in Relayers \ busy
                 /\ busy' = busy \cup {proc'[g].relayer}
                 /\ action' = action
Releases(g)   == /\ Holding(g) /\ ~Holding(g)'
                 /\ busy' = busy \ {proc[g].relayer}
                 /\ \A a \in ActionIds : action'[a].status = "SUBMITTED" =>
                       action'[a] = action[a] /\ (proc[g].pc = "waiting" => a # proc[g].a)

LEMMA DoneAside == ASSUME TypeInv, NEW g \in Goroutines, Done(g)
                   PROVE  /\ OthersSame(g) /\ ~Holding(g)'
                          /\ ~Holding(g) => \A h \in Goroutines : /\ Holding(h) => proc'[h] = proc[h]
                                                                  /\ Holding(h)' => Holding(h)
  BY DEF TypeInv, Done, IdleProc, Holding, OthersSame

LEMMA GotoKeeps ==
  ASSUME TypeInv, NEW g \in Goroutines, NEW pc, Goto(g, pc)
  PROVE  /\ OthersSame(g)
         /\ proc'[g].pc = pc /\ proc'[g].a = proc[g].a
         /\ proc'[g].tx = proc[g].tx /\ proc'[g].relayer = proc[g].relayer
<1>1. proc \in [Goroutines -> GoodProc] /\ proc[g] \in Proc
  BY DEF TypeInv, GoodProc
<1> QED
  BY <1>1 DEF Goto, OthersSame, Proc

LEMMA SaveRowKeeps ==
  ASSUME TypeInv, NEW b \in ActionIds, NEW status, NEW tx, NEW relayer, SaveRow(b, status, tx, relayer)
  PROVE  /\ action'[b].status = status /\ action'[b].tx = tx /\ action'[b].relayer = relayer
         /\ \A a \in ActionIds \ {b} : action'[a] = action[a]
<1>1. action \in [ActionIds -> GoodRow] /\ action[b] \in Row
  BY DEF TypeInv, GoodRow
<1> QED
  BY <1>1 DEF SaveRow, Row

LEMMA ExecuteHolds ==
  ASSUME TypeInv, "database" \notin FaultKinds, NEW g \in Goroutines, Execute(g)
  PROVE  \/ Aside
         \/ OthersSame(g) /\ (Claims(g) \/ Releases(g))
         \/ SaveSubmitted(g)
         \/ ReceiptSuccess(g)
<1>0. proc[g].pc \notin {"idle", "proposing"} => proc[g].a \in ActionIds
  BY WorkType
<1>1. CASE SubmitError(g) \/ SubmitErrorAfterBroadcast(g) \/ ApplyMembershipSideEffect(g)
  <2>1. Done(g) /\ ~Holding(g) /\ busy' = busy /\ action' = action
    BY <1>1 DEF SubmitError, SubmitErrorAfterBroadcast, ApplyMembershipSideEffect, Holding, dbVars
  <2> QED
    BY <2>1, DoneAside DEF Aside
<1>2. CASE ExecuteLocally(g)
  <2>1. Done(g) /\ ~Holding(g) /\ busy' = busy /\ proc[g].a \in ActionIds
        /\ (action' = action \/ SaveRow(proc[g].a, "EXECUTED", action[proc[g].a].tx, action[proc[g].a].relayer))
    BY <1>0, <1>2 DEF ExecuteLocally, Holding
  <2>2. \A a \in ActionIds : action'[a].status = "SUBMITTED" => action'[a] = action[a]
    BY <2>1, SaveRowKeeps
  <2> QED
    BY <2>1, <2>2, DoneAside DEF Aside
<1>3. CASE RecordApproval(g) \/ TallyAndMaybeExecute(g)
  <2>1. ~Holding(g) /\ busy' = busy /\ action' = action
    BY <1>3 DEF RecordApproval, TallyAndMaybeExecute, Holding, dbVars
  <2>2. CASE Done(g)
    BY <2>1, <2>2, DoneAside DEF Aside
  <2>3. CASE Goto(g, "tallying")
    <3>1. OthersSame(g) /\ proc'[g].pc = "tallying"
      BY <2>3, GotoKeeps
    <3> QED
      BY <2>1, <3>1 DEF Aside, OthersSame, Holding
  <2>4. CASE proc' = [proc EXCEPT ![g].pc = "executing", ![g].sigs = approvals[proc[g].a]]
    <3>1. proc \in [Goroutines -> GoodProc] /\ proc[g] \in Proc
      BY DEF TypeInv, GoodProc
    <3>2. OthersSame(g) /\ proc'[g].pc = "executing"
      BY <2>4, <3>1 DEF OthersSame, Proc
    <3> QED
      BY <2>1, <3>2 DEF Aside, OthersSame, Holding
  <2> QED
    BY <1>3, <2>2, <2>3, <2>4 DEF RecordApproval, TallyAndMaybeExecute
<1>4. CASE Submit(g)
  <2>1. PICK r \in Relayers \ busy, t \in TxIds :
          /\ busy' = busy \cup {r}
          /\ proc' = [proc EXCEPT ![g].pc = "saving", ![g].tx = t, ![g].relayer = r]
    BY <1>4 DEF Submit
  <2>2. proc \in [Goroutines -> GoodProc] /\ proc[g] \in Proc
    BY DEF TypeInv, GoodProc
  <2>3. OthersSame(g) /\ proc'[g].pc = "saving" /\ proc'[g].relayer = r
    BY <2>1, <2>2 DEF OthersSame, Proc
  <2>4. ~Holding(g) /\ action' = action
    BY <1>4 DEF Submit, Holding, dbVars
  <2> QED
    BY <2>1, <2>3, <2>4 DEF Claims, Holding
<1>5. CASE ReceiptReverted(g) \/ WaitGivesUp(g)
  <2>1. proc[g].pc = "waiting" /\ proc[g].a \in ActionIds /\ BackToPending(g)
    BY <1>0, <1>5 DEF ReceiptReverted, WaitGivesUp
  <2>2. action'[proc[g].a].status = "PENDING" /\ \A a \in ActionIds \ {proc[g].a} : action'[a] = action[a]
    BY <2>1, SaveRowKeeps DEF BackToPending
  <2>3. OthersSame(g) /\ ~Holding(g)'
    BY <2>1, DoneAside DEF BackToPending
  <2> QED
    BY <2>1, <2>2, <2>3 DEF BackToPending, Releases, Holding
<1>6. CASE FinishExecution(g)
  <2>1. proc[g].pc = "finishing" /\ action' = action /\ busy' = busy \ {proc[g].relayer}
        /\ (Goto(g, "syncing") \/ Done(g))
    BY <1>6 DEF FinishExecution, dbVars
  <2>2. OthersSame(g) /\ ~Holding(g)'
    BY <2>1, DoneAside, GotoKeeps DEF Holding
  <2> QED
    BY <2>1, <2>2 DEF Releases, Holding
<1> QED
  BY <1>1, <1>2, <1>3, <1>4, <1>5, <1>6 DEF Execute, SaveSubmittedFails, SaveResultFails, Fault,
     BothFaults

LEMMA HandlersHold ==
  ASSUME TypeInv, [Next]_vars,
         ~(\E g \in Goroutines : Execute(g)), ~Restart
  PROVE  Aside
<1>0. proc \in [Goroutines -> GoodProc]
  BY DEF TypeInv
<1>1. CASE UNCHANGED vars \/ (\E t \in TxIds : Mine(t)) \/ (\E m \in Members : RotateSigner(m))
  BY <1>1 DEF vars, Mine, RotateSigner, dbVars, Aside, Holding
<1>3. ASSUME NEW g \in Requests, NEW m \in Members, NEW w \in Proposals, ProposeCheck(g, m, w)
      PROVE  Aside
  <2>1. g \in Goroutines /\ ~Holding(g) /\ busy' = busy /\ action' = action
    BY <1>3, Constants DEF ConstantFacts, ProposeCheck, Holding, dbVars
  <2>2. OthersSame(g) /\ proc'[g].pc = "proposing"
    BY <1>0, <1>3, <2>1 DEF ProposeCheck, IdleProc, OthersSame
  <2> QED
    BY <2>1, <2>2 DEF Aside, OthersSame, Holding
<1>4. ASSUME NEW g \in Requests, CreatePendingAction(g) PROVE Aside
  <2>1. g \in Goroutines /\ ~Holding(g) /\ busy' = busy /\ Done(g)
    BY <1>4, Constants DEF ConstantFacts, CreatePendingAction, Holding
  <2>2. action' = action \/ \E b \in ActionIds, row \in {r \in Row : r.status = "PENDING"} :
                               action' = [action EXCEPT ![b] = row]
    <3> DEFINE row == [NoRow EXCEPT !.status = "PENDING", !.what = proc[g].what,
                                    !.onChain = proc[g].onChain, !.required = proc[g].required,
                                    !.nonce = IF proc[g].onChain THEN safe.nonce ELSE 0]
    <3>1. proc[g] \in Proc /\ safe.nonce \in Nat
      BY <2>1, WorkType DEF TypeInv
    <3>2. row \in Row /\ row.status = "PENDING"
      BY <3>1 DEF NoRow, Row, Proc, Statuses, NoTx, NoRelayer
    <3>3. action' = action \/ \E b \in ActionIds : action' = [action EXCEPT ![b] = row]
      BY <1>4 DEF CreatePendingAction, NewRow
    <3> HIDE DEF row
    <3> QED
      BY <3>2, <3>3
  <2>3. \A a \in ActionIds : action'[a].status = "SUBMITTED" => action'[a] = action[a]
    BY <2>2 DEF TypeInv
  <2> QED
    BY <2>1, <2>3, DoneAside DEF Aside
<1>5. ASSUME NEW g \in Goroutines, SaveRejected(g) PROVE Aside
  <2>1. ~Holding(g) /\ busy' = busy /\ Goto(g, "rejected") /\ proc[g].a \in ActionIds
        /\ SaveRow(proc[g].a, "REJECTED", proc[g].tx, proc[g].relayer)
    BY <1>5, WorkType DEF SaveRejected, Holding
  <2>2. \A a \in ActionIds : action'[a].status = "SUBMITTED" => action'[a] = action[a]
    BY <2>1, SaveRowKeeps
  <2>3. OthersSame(g) /\ proc'[g].pc = "rejected"
    BY <2>1, GotoKeeps
  <2> QED
    BY <2>1, <2>2, <2>3 DEF Aside, OthersSame, Holding
<1>6. ASSUME NEW g \in Goroutines, RejectedHook(g) PROVE Aside
  <2>1. ~Holding(g) /\ busy' = busy /\ Done(g) /\ action' = action
    BY <1>6 DEF RejectedHook, Holding, dbVars
  <2> QED
    BY <2>1, DoneAside DEF Aside
<1>7. ASSUME NEW g \in Requests, NEW m \in Members, NEW a \in ActionIds,
             ApproveAction(g, m, a) \/ RejectAction(g, m, a)
      PROVE  Aside
  <2>1. g \in Goroutines /\ ~Holding(g) /\ busy' = busy /\ action' = action
    BY <1>7, Constants DEF ConstantFacts, ApproveAction, RejectAction, ReadForRejection, Holding, dbVars
  <2>2. OthersSame(g) /\ proc'[g].pc \in {"tallying", "approving", "rejecting"}
    BY <1>0, <1>7, <2>1 DEF ApproveAction, RejectAction, ReadForRejection, IdleProc, OthersSame
  <2> QED
    BY <2>1, <2>2 DEF Aside, OthersSame, Holding
<1>8. ASSUME NEW a \in ActionIds, ExpireStalePendingActions(a) PROVE Aside
  <2>1. Sweeper \in Goroutines /\ ~Holding(Sweeper) /\ busy' = busy /\ action' = action
    BY <1>8, Constants DEF ConstantFacts, ExpireStalePendingActions, ReadForRejection, Holding, dbVars
  <2>2. OthersSame(Sweeper) /\ proc'[Sweeper].pc = "rejecting"
    BY <1>0, <1>8, <2>1 DEF ExpireStalePendingActions, ReadForRejection, IdleProc, OthersSame
  <2> QED
    BY <2>1, <2>2 DEF Aside, OthersSame, Holding
<1> QED
  BY <1>1, <1>3, <1>4, <1>5, <1>6, <1>7, <1>8 DEF Next

LEMMA HoldInvInit == Init => HoldInv
<1>1. Init => RelayerExclusive /\ SubmittedIsAwaited
  BY DEF Init, RelayerExclusive, SubmittedIsAwaited, Holding, IdleProc, NoRow
<1> QED
  BY <1>1, TypeInvInit DEF HoldInv

LEMMA HoldInvStep ==
  ASSUME "database" \notin FaultKinds, HoldInv, [Next]_vars PROVE HoldInv'
<1>0. TypeInv /\ TypeInv' /\ RelayerExclusive /\ SubmittedIsAwaited
  BY TypeStep DEF HoldInv
<1>a. \A a \in ActionIds : action[a].status = "SUBMITTED" => \E g \in Goroutines : Awaits(g, a)
  BY <1>0 DEF SubmittedIsAwaited, Awaits
<1> SUFFICES /\ RelayerExclusive'
             /\ \A a \in ActionIds : action'[a].status = "SUBMITTED" => \E g \in Goroutines : Awaits(g, a)'
  BY <1>0 DEF HoldInv, SubmittedIsAwaited, Awaits
<1>k. ASSUME NEW a \in ActionIds, NEW g \in Goroutines, Awaits(g, a), action'[a] = action[a], proc'[g] = proc[g]
      PROVE  Awaits(g, a)'
  BY <1>k DEF Awaits
<1>1. CASE Aside
  <2>1. RelayerExclusive'
    BY <1>0, <1>1 DEF Aside, RelayerExclusive, Holding
  <2>2. \A g \in Goroutines, a \in ActionIds : Awaits(g, a) => proc'[g] = proc[g]
    BY <1>1 DEF Aside, Awaits, Holding
  <2> QED
    BY <1>a, <1>k, <1>1, <2>1, <2>2 DEF Aside
<1>2. ASSUME NEW g \in Goroutines, OthersSame(g), Claims(g)
      PROVE  /\ RelayerExclusive'
             /\ \A a \in ActionIds : action'[a].status = "SUBMITTED" => \E h \in Goroutines : Awaits(h, a)'
  <2>1. \A h \in Goroutines \ {g} : Holding(h)' => Holding(h) /\ proc'[h].relayer = proc[h].relayer
    BY <1>2 DEF OthersSame, Holding
  <2>2. RelayerExclusive'
    BY <1>0, <1>2, <2>1 DEF Claims, RelayerExclusive
  <2>3. \A h \in Goroutines, a \in ActionIds : Awaits(h, a) => proc'[h] = proc[h]
    BY <1>2 DEF Claims, OthersSame, Awaits, Holding
  <2> QED
    BY <1>a, <1>k, <1>2, <2>2, <2>3 DEF Claims
<1>3. ASSUME NEW g \in Goroutines, OthersSame(g), Releases(g)
      PROVE  /\ RelayerExclusive'
             /\ \A a \in ActionIds : action'[a].status = "SUBMITTED" => \E h \in Goroutines : Awaits(h, a)'
  <2>1. \A h \in Goroutines : Holding(h)' => h # g /\ Holding(h) /\ proc'[h].relayer = proc[h].relayer
    BY <1>3 DEF Releases, OthersSame, Holding
  <2>2. RelayerExclusive'
    BY <1>0, <1>3, <2>1 DEF Releases, RelayerExclusive
  <2>3. ASSUME NEW a \in ActionIds, action'[a].status = "SUBMITTED"
        PROVE  \E h \in Goroutines : Awaits(h, a)'
    <3>1. action'[a] = action[a] /\ (proc[g].pc = "waiting" => a # proc[g].a)
      BY <1>3, <2>3 DEF Releases
    <3>2. PICK h \in Goroutines : Awaits(h, a)
      BY <1>a, <2>3, <3>1
    <3>3. proc'[h] = proc[h]
      BY <1>3, <3>1, <3>2 DEF Awaits, OthersSame
    <3> QED
      BY <1>k, <3>1, <3>2, <3>3
  <2> QED
    BY <2>2, <2>3
<1>4. ASSUME NEW g \in Goroutines, SaveSubmitted(g) \/ ReceiptSuccess(g)
      PROVE  /\ RelayerExclusive'
             /\ \A a \in ActionIds : action'[a].status = "SUBMITTED" => \E h \in Goroutines : Awaits(h, a)'
  <2>1. /\ Holding(g) /\ busy' = busy /\ proc[g].a \in ActionIds
        /\ \/ /\ proc[g].pc = "saving" /\ Goto(g, "waiting")
              /\ SaveRow(proc[g].a, "SUBMITTED", proc[g].tx, proc[g].relayer)
           \/ /\ proc[g].pc = "waiting" /\ Goto(g, "finishing")
              /\ SaveRow(proc[g].a, "EXECUTED", proc[g].tx, proc[g].relayer)
    BY <1>0, <1>4, WorkType DEF SaveSubmitted, ReceiptSuccess, Holding
  <2>2. /\ OthersSame(g) /\ proc'[g].pc \in {"waiting", "finishing"} /\ proc'[g].relayer = proc[g].relayer
        /\ proc'[g].a = proc[g].a /\ proc'[g].tx = proc[g].tx
        /\ proc'[g].pc = "waiting" <=> proc[g].pc = "saving"
    BY <1>0, <2>1, GotoKeeps
  <2>3. /\ action'[proc[g].a].status = IF proc[g].pc = "saving" THEN "SUBMITTED" ELSE "EXECUTED"
        /\ action'[proc[g].a].tx = proc[g].tx /\ action'[proc[g].a].relayer = proc[g].relayer
        /\ \A a \in ActionIds \ {proc[g].a} : action'[a] = action[a]
    BY <1>0, <2>1, SaveRowKeeps
  <2>4. \A h \in Goroutines : Holding(h)' => Holding(h) /\ proc'[h].relayer = proc[h].relayer
    BY <2>1, <2>2 DEF OthersSame, Holding
  <2>5. RelayerExclusive'
    BY <1>0, <2>1, <2>4 DEF RelayerExclusive
  <2>6. ASSUME NEW a \in ActionIds, action'[a].status = "SUBMITTED"
        PROVE  \E h \in Goroutines : Awaits(h, a)'
    <3>1. CASE a = proc[g].a
      BY <2>2, <2>3, <2>6, <3>1 DEF Awaits
    <3>2. CASE a # proc[g].a
      <4>1. PICK h \in Goroutines : Awaits(h, a)
        BY <1>a, <2>3, <2>6, <3>2
      <4>2. h # g
        BY <3>2, <4>1 DEF Awaits
      <4> QED
        BY <1>k, <2>2, <2>3, <3>2, <4>1, <4>2 DEF OthersSame
    <3> QED
      BY <3>1, <3>2
  <2> QED
    BY <2>5, <2>6
<1>5. CASE Restart
  <2> DEFINE stuck == {a \in ActionIds : action[a].status = "SUBMITTED"}
  <2>1. /\ action' = action
        /\ busy' = {action[a].relayer : a \in stuck}
        /\ ActionIds \subseteq Goroutines
        /\ \A g \in Goroutines : IF g \in stuck
             THEN /\ proc'[g].pc = "waiting" /\ proc'[g].a = g
                  /\ proc'[g].tx = action[g].tx /\ proc'[g].relayer = action[g].relayer
             ELSE ~Holding(g)'
    <3>1. /\ action' = action /\ ActionIds \subseteq Goroutines
          /\ ~BothFaults("restart", "database")
      BY <1>5, Constants DEF Restart, BothFaults, ConstantFacts, dbVars
    <3>2. /\ busy' = ReserveAtStartup
          /\ proc' = [g \in Goroutines |-> IF g \in Stuck
                                           THEN [IdleProc EXCEPT !.pc = "waiting", !.a = g, !.tx = action[g].tx,
                                                                 !.relayer = action[g].relayer]
                                           ELSE IdleProc]
      BY <1>5, <3>1 DEF Restart
    <3> QED
      BY <3>1, <3>2 DEF Stuck, ReserveAtStartup, IdleProc, Holding
  <2>2. ASSUME NEW a \in stuck, NEW b \in stuck, a # b PROVE action[a].relayer # action[b].relayer
    <3>1. PICK g \in Goroutines : Awaits(g, a)
      BY <1>a, <2>2
    <3>2. PICK h \in Goroutines : Awaits(h, b)
      BY <1>a, <2>2
    <3> QED
      BY <1>0, <2>2, <3>1, <3>2 DEF RelayerExclusive, Awaits, Holding
  <2>3. \A g \in Goroutines : Holding(g)' => g \in stuck /\ proc'[g].relayer = action[g].relayer
    BY <2>1
  <2>4. RelayerExclusive'
    BY <2>1, <2>2, <2>3 DEF RelayerExclusive
  <2> QED
    BY <2>1, <2>4 DEF Awaits
<1>6. CASE \E g \in Goroutines : Execute(g)
  BY <1>0, <1>1, <1>2, <1>3, <1>4, <1>6, ExecuteHolds
<1>7. CASE ~(\E g \in Goroutines : Execute(g)) /\ ~Restart
  BY <1>0, <1>1, <1>7, HandlersHold
<1> QED
  BY <1>5, <1>6, <1>7

LEMMA HoldInvHolds ==
  ASSUME "database" \notin FaultKinds
  PROVE  Spec => []HoldInv
<1>1. HoldInv /\ [Next]_vars => HoldInv'
  BY HoldInvStep
<1> QED
  BY <1>1, HoldInvInit, PTL DEF Spec

\* When no save fails, no relayer is ever shared by two submissions, across any
\* number of restarts.
THEOREM RelayersStayExclusive ==
  ASSUME "database" \notin FaultKinds
  PROVE  Spec => []RelayerExclusive
<1>1. HoldInv => RelayerExclusive
  BY DEF HoldInv
<1> QED
  BY <1>1, HoldInvHolds, PTL

\* When no save fails, a SUBMITTED action has a goroutine that waits for the very
\* transaction its row names, and so it has after a restart.
THEOREM SubmittedStaysAwaited ==
  ASSUME "database" \notin FaultKinds
  PROVE  Spec => []SubmittedIsAwaited
<1>1. HoldInv => SubmittedIsAwaited
  BY DEF HoldInv
<1> QED
  BY <1>1, HoldInvHolds, PTL

-----------------------------------------------------------------------------
(* The hook.  A goroutine owns the transaction it waits for: nobody else     *)
(* waits for it, and once the hook has run nobody ever will again, since the *)
(* only row a restart resumes is one that is still SUBMITTED.                *)

TxOwned == \A g, h \in Goroutines : Holding(g) /\ Holding(h) /\ g # h => proc[g].tx # proc[h].tx
\* No goroutine works on the landed transaction, and a restart would start none.
Settled(a, t) == /\ t \in LandedTxs(a)
                 /\ ~HeldTx(a, t)
                 /\ ~(action[a].status = "SUBMITTED" /\ action[a].tx = t)
HookInv ==
  /\ LandInv
  /\ TxOwned
  /\ \A g \in Goroutines : proc[g].pc = "finishing" =>
       /\ txs[proc[g].tx].status = "success"
       /\ ~(action[proc[g].a].status = "SUBMITTED" /\ action[proc[g].a].tx = proc[g].tx)
  /\ \A a \in ActionIds : hooks[a].executed > 0 => \E t \in TxIds : Settled(a, t)
  /\ \A a \in ActionIds : hooks[a].executed <= 1

LEMMA HookInvInit == Init => HookInv
<1> SUFFICES ASSUME Init PROVE HookInv
  OBVIOUS
<1>1. /\ \A g \in Goroutines : ~Holding(g) /\ proc[g].pc # "finishing"
      /\ \A a \in ActionIds : hooks[a].executed = 0
  BY DEF Init, Holding, IdleProc
<1> QED
  BY <1>1, LandInvInit DEF HookInv, TxOwned

\* What a step other than a restart does to the goroutines that hold a transaction.
KeepsTxs   == \A g \in Goroutines : Holding(g)' => /\ Holding(g)
                                                   /\ proc'[g].a = proc[g].a /\ proc'[g].tx = proc[g].tx
TakesTx(g) == /\ OthersSame(g) /\ proc'[g].pc = "saving"
              /\ proc'[g].tx \in TxIds /\ txs[proc'[g].tx].status = "unused"
Finishes(g) == /\ proc'[g].pc = "finishing" => proc'[g] = proc[g] \/ ReceiptSuccess(g)
               /\ proc'[g].pc = "syncing" => proc'[g] = proc[g] \/ FinishExecution(g)

LEMMA HoldingEffects ==
  ASSUME TypeInv, [Next]_vars, ~Restart
  PROVE  /\ KeepsTxs \/ \E g \in Goroutines : TakesTx(g)
         /\ \A g \in Goroutines : Finishes(g)
<1>0. proc \in [Goroutines -> GoodProc] /\ \A g \in Goroutines : proc[g] \in Proc
  BY DEF TypeInv, GoodProc
<1>1. ASSUME proc' = proc
      PROVE  KeepsTxs /\ \A g \in Goroutines : Finishes(g)
  BY <1>1 DEF KeepsTxs, Finishes, Holding
<1>2. ASSUME NEW g \in Goroutines, OthersSame(g),
             Holding(g)' => Holding(g) /\ proc'[g].a = proc[g].a /\ proc'[g].tx = proc[g].tx,
             proc'[g].pc = "finishing" => ReceiptSuccess(g),
             proc'[g].pc = "syncing" => FinishExecution(g)
      PROVE  KeepsTxs /\ \A h \in Goroutines : Finishes(h)
  BY <1>2 DEF KeepsTxs, Finishes, Holding, OthersSame
<1>3. ASSUME NEW g \in Goroutines, Done(g)
      PROVE  KeepsTxs /\ \A h \in Goroutines : Finishes(h)
  <2>1. OthersSame(g) /\ ~Holding(g)' /\ proc'[g].pc = "idle"
    BY <1>0, <1>3, DoneAside DEF Done, IdleProc
  <2> QED
    BY <1>2, <2>1 DEF Holding
<1>4. ASSUME NEW g \in Goroutines, NEW pc, Goto(g, pc), pc \in {"saving", "waiting", "finishing"} => Holding(g),
             pc = "finishing" => ReceiptSuccess(g), pc = "syncing" => FinishExecution(g)
      PROVE  KeepsTxs /\ \A h \in Goroutines : Finishes(h)
  <2>1. OthersSame(g) /\ proc'[g].pc = pc /\ proc'[g].a = proc[g].a /\ proc'[g].tx = proc[g].tx
    BY <1>4, GotoKeeps
  <2> QED
    BY <1>2, <1>4, <2>1 DEF Holding
<1>5. ASSUME NEW g \in Goroutines, NEW p, proc' = [proc EXCEPT ![g] = p],
             p.pc \notin {"saving", "waiting", "finishing", "syncing"}
      PROVE  KeepsTxs /\ \A h \in Goroutines : Finishes(h)
  <2>1. OthersSame(g) /\ proc'[g] = p
    BY <1>0, <1>5 DEF OthersSame
  <2> QED
    BY <1>2, <1>5, <2>1 DEF Holding
<1>6. ASSUME NEW g \in Goroutines, NEW a \in ActionIds, ReadForRejection(g, a)
      PROVE  KeepsTxs /\ \A h \in Goroutines : Finishes(h)
  BY <1>5, <1>6 DEF ReadForRejection, IdleProc
<1>7. ASSUME NEW g \in Requests, NEW m \in Members, NEW w \in Proposals, ProposeCheck(g, m, w)
      PROVE  KeepsTxs /\ \A h \in Goroutines : Finishes(h)
  BY <1>5, <1>7, Constants DEF ConstantFacts, ProposeCheck, IdleProc
<1>8. ASSUME NEW g \in Requests, NEW m \in Members, NEW a \in ActionIds, ApproveAction(g, m, a)
      PROVE  KeepsTxs /\ \A h \in Goroutines : Finishes(h)
  BY <1>5, <1>8, Constants DEF ConstantFacts, ApproveAction, IdleProc
<1>9. ASSUME NEW g \in Goroutines, Execute(g) \/ SaveRejected(g) \/ RejectedHook(g)
      PROVE  /\ KeepsTxs \/ TakesTx(g)
             /\ \A h \in Goroutines : Finishes(h)
  <2>1. CASE Submit(g)
    <3>1. PICK r \in Relayers \ busy, t \in TxIds :
            FreshTx(t) /\ proc' = [proc EXCEPT ![g].pc = "saving", ![g].tx = t, ![g].relayer = r]
      BY <2>1 DEF Submit
    <3>2. proc'[g].pc = "saving" /\ proc'[g].tx = t /\ OthersSame(g)
      BY <1>0, <3>1 DEF Proc, OthersSame
    <3> QED
      BY <3>1, <3>2 DEF TakesTx, FreshTx, Finishes, OthersSame
  <2>2. CASE TallyAndMaybeExecute(g)
    <3> DEFINE p == [proc[g] EXCEPT !.pc = "executing", !.sigs = approvals[proc[g].a]]
    <3>1. Done(g) \/ proc' = [proc EXCEPT ![g] = p]
      BY <1>0, <2>2 DEF TallyAndMaybeExecute
    <3>2. p.pc = "executing"
      BY <1>0 DEF Proc
    <3> HIDE DEF p
    <3> QED
      BY <1>3, <1>5, <3>1, <3>2
  <2>3. CASE \/ ExecuteLocally(g) \/ SubmitErrorAfterBroadcast(g) \/ SubmitError(g)
             \/ ReceiptReverted(g) \/ WaitGivesUp(g) \/ SaveResultFails(g)
             \/ ApplyMembershipSideEffect(g) \/ RejectedHook(g)
    <3>1. Done(g)
      BY <2>3 DEF ExecuteLocally, SubmitErrorAfterBroadcast, SubmitError, ReceiptReverted, WaitGivesUp,
                  BackToPending, SaveResultFails, ApplyMembershipSideEffect, RejectedHook
    <3> QED
      BY <1>3, <3>1
  <2>4. CASE RecordApproval(g) \/ FinishExecution(g) \/ SaveRejected(g)
    <3>1. \/ Done(g)
          \/ \E pc \in {"tallying", "rejected"} : Goto(g, pc)
          \/ FinishExecution(g) /\ Goto(g, "syncing")
      BY <2>4 DEF RecordApproval, FinishExecution, SaveRejected
    <3> QED
      BY <1>3, <1>4, <3>1
  <2>5. CASE SaveSubmitted(g) \/ SaveSubmittedFails(g)
    <3>1. Holding(g) /\ Goto(g, "waiting")
      BY <2>5 DEF SaveSubmitted, SaveSubmittedFails, Holding
    <3> QED
      BY <1>4, <3>1
  <2>6. CASE ReceiptSuccess(g)
    <3>1. Holding(g) /\ Goto(g, "finishing")
      BY <2>6 DEF ReceiptSuccess, Holding
    <3> QED
      BY <1>4, <2>6, <3>1
  <2> QED
    BY <1>9, <2>1, <2>2, <2>3, <2>4, <2>5, <2>6 DEF Execute
<1>10. ASSUME NEW g \in Requests, CreatePendingAction(g)
       PROVE  KeepsTxs /\ \A h \in Goroutines : Finishes(h)
  BY <1>3, <1>10, Constants DEF ConstantFacts, CreatePendingAction
<1>11. CASE UNCHANGED vars \/ (\E t \in TxIds : Mine(t)) \/ (\E m \in Members : RotateSigner(m))
  BY <1>1, <1>11 DEF vars, Mine, RotateSigner
<1>12. ASSUME NEW g \in Requests, NEW m \in Members, NEW a \in ActionIds, RejectAction(g, m, a)
       PROVE  KeepsTxs /\ \A h \in Goroutines : Finishes(h)
  BY <1>6, <1>12, Constants DEF ConstantFacts, RejectAction
<1>13. ASSUME NEW a \in ActionIds, ExpireStalePendingActions(a)
       PROVE  KeepsTxs /\ \A h \in Goroutines : Finishes(h)
  BY <1>6, <1>13, Constants DEF ConstantFacts, ExpireStalePendingActions
<1> QED
  BY <1>7, <1>8, <1>9, <1>10, <1>11, <1>12, <1>13 DEF Next

\* A row is SUBMITTED because it was, or because a goroutine has just saved it so.
LEMMA SubmittedEffects ==
  ASSUME TypeInv, [Next]_vars, NEW a \in ActionIds, action'[a].status = "SUBMITTED"
  PROVE  action'[a] = action[a] \/ SavingTx(a, action'[a].tx)
<1>0. action \in [ActionIds -> GoodRow]
  BY DEF TypeInv
<1>1. CASE CreatesARow
  BY <1>0, <1>1 DEF CreatesARow
<1>2. CASE SavesARow
  <2>1. PICK b \in ActionIds, status \in Statuses \ {"NONE"}, tx \in TxIds \cup {NoTx},
             relayer \in Relayers \cup {NoRelayer} : Saves(b, status, tx, relayer)
    BY <1>2 DEF SavesARow
  <2>2. /\ action'[b].status = status /\ action'[b].tx = tx
        /\ \A c \in ActionIds \ {b} : action'[c] = action[c]
    BY <2>1, SaveRowKeeps DEF Saves
  <2> QED
    BY <2>1, <2>2 DEF Saves
<1> QED
  BY <1>1, <1>2, RowEffects

\* Only the goroutine that finishes an execution tells of it.
LEMMA HookEffects ==
  ASSUME TypeInv, [Next]_vars, NEW a \in ActionIds, hooks'[a].executed # hooks[a].executed
  PROVE  \E g \in Goroutines : /\ FinishExecution(g) /\ proc[g].a = a
                               /\ hooks'[a].executed = hooks[a].executed + 1
<1>0. hooks \in [ActionIds -> [executed: Nat, rejected: BOOLEAN]]
  BY DEF TypeInv
<1>1. ASSUME NEW g \in Goroutines, FinishExecution(g)
      PROVE  proc[g].a = a /\ hooks'[a].executed = hooks[a].executed + 1
  BY <1>0, <1>1 DEF FinishExecution
<1>2. ASSUME NEW g \in Goroutines, RejectedHook(g) PROVE FALSE
  <2>1. proc[g].a \in ActionIds
    BY <1>2, WorkType DEF RejectedHook
  <2> QED
    BY <1>0, <1>2, <2>1 DEF RejectedHook
<1>3. hooks' # hooks
  OBVIOUS
<1>4. ASSUME NEW g \in Goroutines, Execute(g) PROVE FinishExecution(g)
  BY <1>3, <1>4 DEF Execute, RecordApproval, TallyAndMaybeExecute, ExecuteLocally, Submit,
     SubmitErrorAfterBroadcast, SubmitError, SaveSubmitted, SaveSubmittedFails, ReceiptSuccess, ReceiptReverted,
     WaitGivesUp, BackToPending, SaveResultFails, ApplyMembershipSideEffect
<1>5. \E g \in Goroutines : Execute(g)
  BY <1>2, <1>3 DEF Next, vars, Mine, RotateSigner, ProposeCheck, CreatePendingAction, ApproveAction,
     RejectAction, ExpireStalePendingActions, ReadForRejection, SaveRejected, Restart
<1> QED
  BY <1>1, <1>4, <1>5

LEMMA HookInvStep == HookInv /\ [Next]_vars => HookInv'
<1> SUFFICES ASSUME HookInv, [Next]_vars PROVE HookInv'
  OBVIOUS
<1>0. TypeInv /\ TypeInv' /\ LandInv /\ LandInv' /\ TxOwned
  BY LandInvStep DEF HookInv, LandInv
<1>l. ASSUME NEW g \in Goroutines, Holding(g)
      PROVE  /\ proc[g].tx \in TxIds /\ proc[g].a \in ActionIds
             /\ txs[proc[g].tx].status # "unused" /\ txs[proc[g].tx].a = proc[g].a
  BY <1>0, <1>l, WorkType DEF LandInv, Holding
\* After a restart, goroutines are named after the rows they wait for.
<1>r. ASSUME Restart, NEW g \in Goroutines, Holding(g)'
      PROVE  /\ g \in ActionIds /\ action[g].status = "SUBMITTED" /\ action[g].tx \in TxIds
             /\ proc'[g].a = g /\ proc'[g].tx = action[g].tx /\ proc'[g].pc = "waiting"
             /\ txs[action[g].tx].a = g
  <2>1. g \in ActionIds /\ action[g].status = "SUBMITTED" /\ proc'[g].a = g /\ proc'[g].tx = action[g].tx
        /\ proc'[g].pc = "waiting"
    BY <1>r, RestartProc DEF Holding
  <2> QED
    BY <1>0, <2>1 DEF LandInv, TypeInv, GoodRow
<1>1. TxOwned'
  <2> SUFFICES ASSUME NEW g \in Goroutines, NEW h \in Goroutines, Holding(g)', Holding(h)', g # h,
                      proc'[g].tx = proc'[h].tx
               PROVE  FALSE
    BY DEF TxOwned
  <2>1. CASE Restart
    BY <1>r, <2>1
  <2>2. CASE KeepsTxs
    BY <1>0, <2>2 DEF KeepsTxs, TxOwned
  <2>3. ASSUME NEW x \in Goroutines, NEW y \in Goroutines, TakesTx(x), x # y, Holding(y)'
        PROVE  proc'[x].tx # proc'[y].tx
    <3>1. Holding(y) /\ proc'[y].tx = proc[y].tx
      BY <2>3 DEF TakesTx, OthersSame, Holding
    <3> QED
      BY <1>l, <2>3, <3>1 DEF TakesTx
  <2>4. CASE \E x \in Goroutines : TakesTx(x)
    <3>1. PICK x \in Goroutines : TakesTx(x)
      BY <2>4
    <3>2. CASE x = g
      BY <2>3, <3>1, <3>2
    <3>3. CASE x = h
      BY <2>3, <3>1, <3>3
    <3>4. CASE x # g /\ x # h
      <4>1. proc'[g] = proc[g] /\ proc'[h] = proc[h]
        BY <3>1, <3>4 DEF TakesTx, OthersSame
      <4> QED
        BY <1>0, <4>1 DEF TxOwned, Holding
    <3> QED
      BY <3>2, <3>3, <3>4
  <2> QED
    BY <1>0, <2>1, <2>2, <2>4, HoldingEffects
<1>2. ASSUME NEW g \in Goroutines, proc'[g].pc = "finishing"
      PROVE  /\ txs'[proc'[g].tx].status = "success"
             /\ ~(action'[proc'[g].a].status = "SUBMITTED" /\ action'[proc'[g].a].tx = proc'[g].tx)
  <2>1. ~Restart
    BY <1>2, <1>r DEF Holding
  <2>2. CASE ReceiptSuccess(g)
    <3>1. Holding(g) /\ txs[proc[g].tx].status = "success" /\ txs' = txs
      BY <2>2 DEF ReceiptSuccess, Holding, chainVars
    <3>2. action'[proc[g].a].status = "EXECUTED"
      BY <1>0, <1>l, <2>2, <3>1, SaveRowKeeps DEF ReceiptSuccess
    <3>3. proc'[g].a = proc[g].a /\ proc'[g].tx = proc[g].tx
      BY <1>0, <2>2, GotoKeeps DEF ReceiptSuccess
    <3> QED
      BY <3>1, <3>2, <3>3
  <2>3. CASE proc'[g] = proc[g]
    <3>1. /\ Holding(g) /\ proc[g].a \in ActionIds /\ proc[g].tx \in TxIds
          /\ txs[proc[g].tx].status = "success"
          /\ ~(action[proc[g].a].status = "SUBMITTED" /\ action[proc[g].a].tx = proc[g].tx)
      BY <1>2, <1>l, <2>3 DEF HookInv, Holding
    <3>2. txs'[proc[g].tx].status = "success"
      BY <1>0, <3>1, TxsKept
    <3>3. ~SavingTx(proc[g].a, proc[g].tx)
      BY <1>0, <1>2, <2>3, <3>1 DEF SavingTx, TxOwned, Holding
    <3> QED
      BY <1>0, <2>3, <3>1, <3>2, <3>3, SubmittedEffects
  <2> QED
    BY <1>0, <1>2, <2>1, <2>2, <2>3, HoldingEffects DEF Finishes
<1>3. ASSUME NEW a \in ActionIds, NEW t \in TxIds, Settled(a, t)
      PROVE  Settled(a, t)'
  <2>1. txs[t].status = "success" /\ txs[t].a = a
    BY <1>3 DEF Settled, LandedTxs
  <2>2. t \in LandedTxs(a)'
    BY <1>0, <2>1, TxsKept DEF LandedTxs
  <2>3. ASSUME NEW g \in Goroutines, Holding(g)', proc'[g].a = a, proc'[g].tx = t PROVE FALSE
    <3>1. CASE Restart
      BY <1>3, <1>r, <2>3, <3>1 DEF Settled
    <3>2. CASE KeepsTxs
      BY <1>3, <2>3, <3>2 DEF KeepsTxs, Settled, HeldTx
    <3>3. ASSUME NEW x \in Goroutines, TakesTx(x) PROVE FALSE
      <4>1. g # x
        BY <2>1, <2>3, <3>3 DEF TakesTx
      <4>2. proc'[g] = proc[g]
        BY <3>3, <4>1 DEF TakesTx, OthersSame
      <4> QED
        BY <1>3, <2>3, <4>2 DEF Settled, HeldTx, Holding
    <3> QED
      BY <1>0, <3>1, <3>2, <3>3, HoldingEffects
  <2>4. ASSUME action'[a].status = "SUBMITTED", action'[a].tx = t PROVE FALSE
    BY <1>0, <1>3, <2>4, SubmittedEffects DEF Settled, SavingTx, HeldTx, Holding
  <2> QED
    BY <2>2, <2>3, <2>4 DEF Settled, HeldTx
<1>4. ASSUME NEW a \in ActionIds
      PROVE  /\ hooks'[a].executed > 0 => \E t \in TxIds : Settled(a, t)'
             /\ hooks'[a].executed <= 1
  <2>0. hooks[a].executed \in Nat
    BY <1>0 DEF TypeInv
  <2>1. CASE hooks'[a].executed = hooks[a].executed
    BY <1>3, <2>1 DEF HookInv
  <2>2. CASE hooks'[a].executed # hooks[a].executed
    <3>1. PICK g \in Goroutines : /\ FinishExecution(g) /\ proc[g].a = a
                                  /\ hooks'[a].executed = hooks[a].executed + 1
      BY <1>0, <2>2, HookEffects
    <3>a. Holding(g) /\ proc[g].pc = "finishing"
      BY <3>1 DEF FinishExecution, Holding
    <3>t. PICK t \in TxIds : t = proc[g].tx
      BY <1>l, <3>a
    <3>2. t \in LandedTxs(a) /\ ~(action[a].status = "SUBMITTED" /\ action[a].tx = t)
      BY <1>l, <3>1, <3>a, <3>t DEF HookInv, LandedTxs
    <3>3. ~(hooks[a].executed > 0)
      <4>1. ASSUME NEW u \in TxIds, Settled(a, u) PROVE FALSE
        <5>1. u = t
          BY <1>0, <3>2, <4>1 DEF Settled, LandInv, LandsAtMostOnce
        <5> QED
          BY <3>1, <3>a, <3>t, <4>1, <5>1 DEF Settled, HeldTx
      <4> QED
        BY <4>1 DEF HookInv
    <3>4. action' = action /\ txs' = txs /\ (Done(g) \/ Goto(g, "syncing"))
      BY <3>1 DEF FinishExecution, dbVars, chainVars
    <3>5. OthersSame(g) /\ ~Holding(g)'
      BY <1>0, <3>4, DoneAside, GotoKeeps DEF Holding
    <3>6. ASSUME NEW h \in Goroutines, Holding(h)', proc'[h].tx = t PROVE FALSE
      <4>1. h # g /\ proc'[h] = proc[h]
        BY <3>5, <3>6 DEF OthersSame
      <4> QED
        BY <1>0, <3>a, <3>t, <3>6, <4>1 DEF TxOwned, Holding
    <3>7. Settled(a, t)'
      BY <3>2, <3>4, <3>6 DEF Settled, HeldTx, LandedTxs
    <3> QED
      BY <2>0, <3>1, <3>2, <3>3, <3>7
  <2> QED
    BY <2>1, <2>2
<1> QED
  BY <1>0, <1>1, <1>2, <1>4 DEF HookInv

\* Whatever fails or restarts, the component that proposed an action hears of its
\* execution at most once, and only of one that took effect on the Safe.
THEOREM ExecutionIsToldOnce == Spec => []ExecutedHookAtMostOnce
<1>1. HookInv => ExecutedHookAtMostOnce
  BY DEF HookInv, ExecutedHookAtMostOnce, Settled
<1> QED
  BY <1>1, HookInvInit, HookInvStep, PTL DEF Spec

-----------------------------------------------------------------------------
(* Approvals.  An approval is never taken back and no handler changes what a *)
(* row was created to need, so what was approved when it was tallied still   *)
(* is when its effect is applied, however late and by whichever goroutine.   *)

ApproversOf(a)       == {s.member : s \in approvals[a]}
PositiveThreshold(w) == w.kind \in {"add_member", "remove_member", "change_threshold"} => w.newThreshold > 0
ApprovalInv ==
  /\ LandInv
  /\ group.threshold > 0
  /\ \A g \in Goroutines : proc[g].pc = "proposing" => proc[g].required > 0 /\ PositiveThreshold(proc[g].what)
  /\ \A a \in ActionIds : action[a].status = "NONE" => action[a].required = 0
  /\ \A a \in ActionIds : Known(a) => action[a].required > 0 /\ PositiveThreshold(action[a].what)
  /\ \A a \in ActionIds : /\ IsFiniteSet(approvals[a]) /\ IsFiniteSet(ApproversOf(a))
                          /\ Cardinality(ApproversOf(a)) = Cardinality(approvals[a])
  /\ \A g \in Goroutines : Decided(g) => Enough(proc[g].a)
  /\ \A a \in ActionIds : action[a].status = "SUBMITTED" => Enough(a)
  /\ \A t \in TxIds : txs[t].status # "unused" => Enough(txs[t].a)

LEMMA ApprovalInvInit == Init => ApprovalInv
<1> SUFFICES ASSUME Init PROVE ApprovalInv
  OBVIOUS
<1>1. /\ \A g \in Goroutines : ~Decided(g) /\ proc[g].pc # "proposing"
      /\ \A a \in ActionIds : ~Known(a) /\ action[a].status # "SUBMITTED" /\ action[a].required = 0
      /\ \A t \in TxIds : txs[t].status = "unused"
  BY DEF Init, Decided, Known, IdleProc, NoRow, NoTxn
<1>2. \A a \in ActionIds : approvals[a] = {} /\ ApproversOf(a) = {}
  BY DEF Init, ApproversOf
<1>3. group.threshold > 0
  BY GroupAssumption DEF Init
<1> QED
  BY <1>1, <1>2, <1>3, LandInvInit, FS_EmptySet DEF ApprovalInv

Approves(g) ==
  LET a == proc[g].a   m == proc[g].member IN
  /\ RecordApproval(g) /\ a \in ActionIds /\ m \in Members /\ ~HasApproved(m, a)
  /\ approvals' = [approvals EXCEPT ![a] = @ \cup {[member |-> m, key |-> signer[m]]}]

\* What a step can do to the approvals.
LEMMA ApprovalEffects == ASSUME TypeInv, [Next]_vars
                         PROVE  approvals' = approvals \/ \E g \in Goroutines : Approves(g)
<1>1. ASSUME NEW g \in Goroutines, RecordApproval(g) PROVE approvals' = approvals \/ Approves(g)
  <2>1. proc[g].pc = "approving" /\ proc[g].a \in ActionIds /\ proc[g].member \in Members
    BY <1>1 DEF RecordApproval, TypeInv, GoodProc
  <2> QED
    BY <1>1, <2>1 DEF RecordApproval, Approves
<1>2. ASSUME NEW g \in Goroutines, Execute(g), ~RecordApproval(g) PROVE approvals' = approvals
  BY <1>2 DEF Execute, TallyAndMaybeExecute, ExecuteLocally, Submit, SubmitErrorAfterBroadcast, SubmitError,
     SaveSubmitted, SaveSubmittedFails, ReceiptSuccess, ReceiptReverted, WaitGivesUp, BackToPending,
     SaveResultFails, FinishExecution, ApplyMembershipSideEffect, dbVars
<1>3. CASE ~\E g \in Goroutines : Execute(g)
  BY <1>3 DEF Next, vars, Mine, RotateSigner, ProposeCheck, CreatePendingAction, ApproveAction, RejectAction,
     ExpireStalePendingActions, ReadForRejection, SaveRejected, RejectedHook, Restart, dbVars
<1> QED
  BY <1>1, <1>2, <1>3

\* What a step can do to the members and the group.
Applies(g) == ExecuteLocally(g) \/ ApplyMembershipSideEffect(g)
LEMMA GroupEffects == ASSUME TypeInv, [Next]_vars
                      PROVE  \/ role' = role /\ group' = group
                             \/ \E g \in Goroutines : Applies(g)
<1>1. ASSUME NEW g \in Goroutines, Execute(g), ~Applies(g) PROVE role' = role /\ group' = group
  BY <1>1 DEF Applies, Execute, RecordApproval, TallyAndMaybeExecute, Submit, SubmitErrorAfterBroadcast,
     SubmitError, SaveSubmitted, SaveSubmittedFails, ReceiptSuccess, ReceiptReverted, WaitGivesUp,
     BackToPending, SaveResultFails, FinishExecution, dbVars
<1>2. CASE ~\E g \in Goroutines : Execute(g)
  BY <1>2 DEF Next, vars, Mine, RotateSigner, ProposeCheck, CreatePendingAction, ApproveAction, RejectAction,
     ExpireStalePendingActions, ReadForRejection, SaveRejected, RejectedHook, Restart, dbVars
<1> QED
  BY <1>1, <1>2

\* An effect changes what the action asks for, and only that.
LEMMA EffectAsked ==
  ASSUME TypeInv, NEW g \in Goroutines, Applies(g)
  PROVE  /\ Decided(g) /\ proc[g].a \in ActionIds
         /\ AskedFor(action[proc[g].a].what)
         /\ group'.threshold = group.threshold
            \/ /\ action[proc[g].a].what.kind \in {"add_member", "remove_member", "change_threshold"}
               /\ group'.threshold = action[proc[g].a].what.newThreshold
<1> DEFINE w == action[proc[g].a].what
<1>0. /\ role \in [Members -> Roles \cup {NoMember}]
      /\ group \in [threshold: Nat, disabled: BOOLEAN]
  BY DEF TypeInv
<1>1. Decided(g) /\ proc[g].a \in ActionIds
  BY WorkType DEF Applies, ExecuteLocally, ApplyMembershipSideEffect, Decided
<1>2. \/ ApplySideEffect(w)
      \/ role' = role /\ group' = group
      \/ w.kind = "disable_group" /\ role' = role /\ group' = [group EXCEPT !.disabled = TRUE]
  BY DEF Applies, ExecuteLocally, ApplyMembershipSideEffect
<1>3. CASE ApplySideEffect(w)
  <2>1. \A m \in Members : role'[m] # role[m] =>
          /\ w.target = m
          /\ \/ w.kind = "add_member" /\ role'[m] = w.role
             \/ w.kind = "remove_member" /\ role'[m] = NoMember
    BY <1>0, <1>3 DEF ApplySideEffect
  <2>2. \/ group' = group
        \/ /\ w.kind \in {"add_member", "remove_member", "change_threshold"}
           /\ group'.threshold = w.newThreshold /\ group'.disabled = group.disabled
    BY <1>0, <1>3 DEF ApplySideEffect
  <2> QED
    BY <1>1, <2>1, <2>2 DEF AskedFor
<1>4. CASE w.kind = "disable_group" /\ role' = role /\ group' = [group EXCEPT !.disabled = TRUE]
  <2>1. group'.threshold = group.threshold /\ group'.disabled
    BY <1>0, <1>4
  <2> QED
    BY <1>1, <1>4, <2>1 DEF AskedFor
<1>5. CASE role' = role /\ group' = group
  BY <1>1, <1>5 DEF AskedFor
<1> QED
  BY <1>2, <1>3, <1>4, <1>5

\* A goroutine about to create a row was let through by ProposeCheck.
LEMMA ProposingEffects ==
  ASSUME TypeInv, group.threshold > 0, [Next]_vars, NEW g \in Goroutines, proc'[g].pc = "proposing"
  PROVE  \/ proc'[g] = proc[g]
         \/ (proc'[g].required > 0 /\ PositiveThreshold(proc'[g].what))
<1>0. proc \in [Goroutines -> GoodProc] /\ \A h \in Goroutines : proc[h] \in Proc
  BY DEF TypeInv, GoodProc
<1>1. ASSUME NEW h \in Goroutines, Done(h) \/ (\E pc \in PCs \ {"proposing"} : Goto(h, pc))
      PROVE  proc'[g] = proc[g]
  <2>1. OthersSame(h) /\ proc'[h].pc # "proposing"
    BY <1>0, <1>1, GotoKeeps DEF Done, OthersSame, IdleProc
  <2> QED
    BY <2>1 DEF OthersSame
<1>2. ASSUME NEW h \in Goroutines, NEW p, proc' = [proc EXCEPT ![h] = p], p.pc # "proposing" \/ h # g
      PROVE  proc'[g] = proc[g]
  BY <1>0, <1>2
<1>3. ASSUME NEW h \in Requests, NEW m \in Members, NEW w \in Proposals, ProposeCheck(h, m, w)
      PROVE  \/ proc'[g] = proc[g]
             \/ (proc'[g].required > 0 /\ PositiveThreshold(proc'[g].what))
  <2>1. w \in ProposalType /\ h \in Goroutines
    BY Constants DEF ConstantFacts
  <2>2. Cardinality(Approvers) \in Nat
    BY MembersAssumption, FS_Subset, FS_CardinalityType DEF Approvers
  <2>3. PositiveThreshold(w)
    BY <1>3, <2>1, <2>2 DEF ProposeCheck, ProposalAccepted, PositiveThreshold, ProposalType
  <2>4. CASE h = g
    <3>1. proc'[g].required = group.threshold /\ proc'[g].what = w
      BY <1>0, <1>3, <2>4 DEF ProposeCheck, IdleProc
    <3> QED
      BY <2>3, <3>1
  <2>5. CASE h # g
    <3>1. \E p : proc' = [proc EXCEPT ![h] = p]
      BY <1>3 DEF ProposeCheck
    <3> QED
      BY <1>2, <2>1, <2>5, <3>1
  <2> QED
    BY <2>4, <2>5
<1>4. ASSUME NEW h \in Goroutines, Execute(h) \/ SaveRejected(h) \/ RejectedHook(h)
      PROVE  proc'[g] = proc[g]
  <2>1. CASE Submit(h) \/ TallyAndMaybeExecute(h)
    <3>1. Done(h) \/ \E p : p.pc # "proposing" /\ proc' = [proc EXCEPT ![h] = p]
      <4>1. CASE Submit(h)
        <5>1. PICK r \in Relayers \ busy, t \in TxIds :
                proc' = [proc EXCEPT ![h].pc = "saving", ![h].tx = t, ![h].relayer = r]
          BY <4>1 DEF Submit
        <5> DEFINE p == [proc[h] EXCEPT !.pc = "saving", !.tx = t, !.relayer = r]
        <5>2. proc' = [proc EXCEPT ![h] = p] /\ p.pc # "proposing"
          BY <1>0, <5>1 DEF Proc
        <5> HIDE DEF p
        <5> QED
          BY <5>2
      <4>2. CASE TallyAndMaybeExecute(h)
        <5> DEFINE p == [proc[h] EXCEPT !.pc = "executing", !.sigs = approvals[proc[h].a]]
        <5>1. Done(h) \/ proc' = [proc EXCEPT ![h] = p]
          BY <1>0, <4>2 DEF TallyAndMaybeExecute
        <5>2. p.pc # "proposing"
          BY <1>0 DEF Proc
        <5> HIDE DEF p
        <5> QED
          BY <5>1, <5>2
      <4> QED
        BY <2>1, <4>1, <4>2
    <3> QED
      BY <1>1, <1>2, <3>1
  <2>2. CASE ~(Submit(h) \/ TallyAndMaybeExecute(h))
    <3>1. Done(h) \/ \E pc \in PCs \ {"proposing"} : Goto(h, pc)
      BY <1>4, <2>2 DEF Execute, RecordApproval, ExecuteLocally, SubmitErrorAfterBroadcast, SubmitError,
         SaveSubmitted, SaveSubmittedFails, ReceiptSuccess, ReceiptReverted, WaitGivesUp, BackToPending,
         SaveResultFails, FinishExecution, ApplyMembershipSideEffect, SaveRejected, RejectedHook, PCs
    <3> QED
      BY <1>1, <3>1
  <2> QED
    BY <2>1, <2>2
<1>5. ASSUME NEW h \in Goroutines, NEW a \in ActionIds, ReadForRejection(h, a) PROVE proc'[g] = proc[g]
  BY <1>2, <1>5 DEF ReadForRejection, IdleProc
<1>6. ASSUME NEW h \in Requests, NEW m \in Members, NEW a \in ActionIds, ApproveAction(h, m, a)
      PROVE  proc'[g] = proc[g]
  BY <1>2, <1>6, Constants DEF ConstantFacts, ApproveAction, IdleProc
<1>7. ASSUME NEW h \in Requests, CreatePendingAction(h) PROVE proc'[g] = proc[g]
  BY <1>1, <1>7, Constants DEF ConstantFacts, CreatePendingAction
<1>8. ~Restart
  <2> SUFFICES ASSUME Restart PROVE FALSE
    OBVIOUS
  <2> QED
    BY RestartProc
<1>9. CASE UNCHANGED vars \/ (\E t \in TxIds : Mine(t)) \/ (\E m \in Members : RotateSigner(m))
  BY <1>9 DEF vars, Mine, RotateSigner
<1> QED
  BY <1>3, <1>4, <1>5, <1>6, <1>7, <1>8, <1>9, Constants DEF ConstantFacts, Next, RejectAction,
     ExpireStalePendingActions

LEMMA ApprovalInvStep == ApprovalInv /\ [Next]_vars => ApprovalInv'
<1> SUFFICES ASSUME ApprovalInv, [Next]_vars PROVE ApprovalInv'
  OBVIOUS
<1>0. TypeInv /\ TypeInv' /\ LandInv /\ LandInv'
  BY LandInvStep DEF ApprovalInv, LandInv
<1>k. \A a \in ActionIds : Known(a) => /\ Known(a)'
                                      /\ action'[a].what = action[a].what
                                      /\ action'[a].required = action[a].required
  BY <1>0, RowsKept DEF Known
<1>t. /\ \A a \in ActionIds : /\ action[a].required \in Nat
                              /\ action[a].what \in ProposalType
                              /\ approvals[a] \in SUBSET Signatures
      /\ group.threshold \in Nat
  BY <1>0 DEF TypeInv, GoodRow, Row
<1>1. ASSUME NEW a \in ActionIds
      PROVE  /\ IsFiniteSet(approvals'[a]) /\ IsFiniteSet(ApproversOf(a)')
             /\ Cardinality(ApproversOf(a)') = Cardinality(approvals'[a])
             /\ Cardinality(approvals[a]) <= Cardinality(approvals'[a])
  <2>1. /\ IsFiniteSet(approvals[a]) /\ IsFiniteSet(ApproversOf(a))
        /\ Cardinality(ApproversOf(a)) = Cardinality(approvals[a])
        /\ Cardinality(approvals[a]) \in Nat
    BY FS_CardinalityType DEF ApprovalInv
  <2>2. CASE approvals'[a] = approvals[a]
    BY <2>1, <2>2 DEF ApproversOf
  <2>3. CASE approvals'[a] # approvals[a]
    <3>1. PICK g \in Goroutines : Approves(g)
      BY <1>0, <2>3, ApprovalEffects
    <3> DEFINE m == proc[g].member
               s == [member |-> m, key |-> signer[m]]
    <3>2. approvals'[a] = approvals[a] \cup {s} /\ ~HasApproved(m, a)
      BY <1>0, <2>3, <3>1 DEF Approves, TypeInv
    <3>3. s.member = m
      OBVIOUS
    <3> HIDE DEF s
    <3>4. s \notin approvals[a] /\ m \notin ApproversOf(a)
      BY <3>2, <3>3 DEF HasApproved, ApproversOf
    <3>5. ApproversOf(a)' = ApproversOf(a) \cup {m}
      BY <3>2, <3>3 DEF ApproversOf
    <3> HIDE DEF m
    <3> QED
      BY <2>1, <3>2, <3>4, <3>5, FS_AddElement
  <2> QED
    BY <2>2, <2>3
\* What has been approved stays approved.
<1>2. ASSUME NEW a \in ActionIds, Known(a), Enough(a) PROVE Enough(a)'
  <2>1. /\ Cardinality(approvals[a]) \in Nat /\ Cardinality(approvals'[a]) \in Nat
        /\ action[a].required \in Nat
    BY <1>1, <1>t, FS_CardinalityType DEF ApprovalInv
  <2> QED
    BY <1>1, <1>2, <1>k, <2>1 DEF Enough
<1>3. group'.threshold > 0
  <2>1. CASE group' = group
    BY <2>1 DEF ApprovalInv
  <2>2. ASSUME NEW g \in Goroutines, Applies(g) PROVE group'.threshold > 0
    <3>1. Known(proc[g].a)
      BY <1>0, <2>2, EffectAsked DEF LandInv, Decided, Working
    <3> QED
      BY <1>0, <2>2, <3>1, EffectAsked DEF ApprovalInv, PositiveThreshold, Known
  <2> QED
    BY <1>0, <2>1, <2>2, GroupEffects
<1>4. ASSUME NEW g \in Goroutines, proc'[g].pc = "proposing"
      PROVE  proc'[g].required > 0 /\ PositiveThreshold(proc'[g].what)
  BY <1>0, <1>4, ProposingEffects DEF ApprovalInv
<1>5. ASSUME NEW a \in ActionIds
      PROVE  /\ action'[a].status = "NONE" => action'[a].required = 0
             /\ action'[a].status # "NONE" => action'[a].required > 0 /\ PositiveThreshold(action'[a].what)
  <2>0. action \in [ActionIds -> GoodRow]
    BY <1>0 DEF TypeInv
  <2>1. CASE Known(a)
    BY <1>k, <2>1 DEF ApprovalInv, Known
  <2>2. CASE ~Known(a) /\ action'[a] = action[a]
    BY <2>2 DEF ApprovalInv, Known
  <2>3. CASE CreatesARow /\ action'[a] # action[a]
    <3>1. PICK g \in Requests, row \in GoodRow :
            /\ CreatePendingAction(g) /\ row.status = "PENDING"
            /\ row.what = proc[g].what /\ row.required = proc[g].required
            /\ action'[a] = row
      BY <2>0, <2>3 DEF CreatesARow
    <3> QED
      BY <3>1, Constants DEF ConstantFacts, ApprovalInv, CreatePendingAction
  <2>4. CASE SavesARow /\ ~Known(a) /\ action'[a] # action[a]
    <3>1. PICK b \in ActionIds, status \in Statuses \ {"NONE"}, tx \in TxIds \cup {NoTx},
               relayer \in Relayers \cup {NoRelayer} : Saves(b, status, tx, relayer)
      BY <2>4 DEF SavesARow
    <3>2. b = a
      BY <1>0, <2>4, <3>1, SaveRowKeeps DEF Saves
    <3> QED
      BY <1>0, <2>4, <3>1, <3>2 DEF Saves, LandInv
  <2> QED
    BY <1>0, <2>1, <2>2, <2>3, <2>4, RowEffects
<1>6. ASSUME NEW g \in Goroutines, Decided(g)' PROVE Enough(proc[g].a)'
  <2>1. Working(g)'
    BY <1>6 DEF Decided, Working
  <2>2. PICK a \in ActionIds : a = proc'[g].a
    BY <1>0, <2>1 DEF Working, TypeInv, GoodProc
  <2>3. Known(a) /\ Enough(a)
    BY <1>0, <1>6, <2>1, <2>2, WorkEffects DEF Continues, Starts, Resumes, ApprovalInv, LandInv, Known
  <2> QED
    BY <1>2, <2>2, <2>3 DEF Enough
<1>7. ASSUME NEW a \in ActionIds, action'[a].status = "SUBMITTED" PROVE Enough(a)'
  <2>1. Known(a) /\ Enough(a)
    BY <1>0, <1>7, SubmittedEffects DEF SavingTx, ApprovalInv, LandInv, Known, Working, Decided
  <2> QED
    BY <1>2, <2>1
<1>8. ASSUME NEW t \in TxIds, txs'[t].status # "unused" PROVE Enough(txs[t].a)'
  <2>1. Known(txs'[t].a) /\ Enough(txs'[t].a)
    BY <1>0, <1>8, NewTx, TxsKept DEF ApprovalInv, LandInv
  <2>2. PICK a \in ActionIds : a = txs'[t].a
    BY <2>1 DEF Known
  <2> QED
    BY <1>2, <2>1, <2>2 DEF Enough
<1> QED
  BY <1>0, <1>1, <1>3, <1>4, <1>5, <1>6, <1>7, <1>8 DEF ApprovalInv, Known

\* A goroutine that goes on to the members' rows has seen its action land.
SyncInv == /\ HookInv /\ ApprovalInv
           /\ \A g \in Goroutines : proc[g].pc = "syncing" => LandedTxs(proc[g].a) # {}

LEMMA SyncInvInit == Init => SyncInv
<1>1. ASSUME Init PROVE \A g \in Goroutines : proc[g].pc # "syncing"
  BY <1>1 DEF Init, IdleProc
<1> QED
  BY <1>1, HookInvInit, ApprovalInvInit DEF SyncInv

LEMMA SyncInvStep == SyncInv /\ [Next]_vars => SyncInv'
<1> SUFFICES ASSUME SyncInv, [Next]_vars PROVE SyncInv'
  OBVIOUS
<1>0. /\ TypeInv /\ LandInv /\ HookInv /\ ApprovalInv
      /\ HookInv' /\ ApprovalInv' /\ TypeInv'
  BY HookInvStep, ApprovalInvStep DEF SyncInv, HookInv, LandInv
<1>1. ASSUME NEW g \in Goroutines, proc'[g].pc = "syncing"
      PROVE  LandedTxs(proc[g].a)' # {}
  <2>1. ~Restart
    <3> SUFFICES ASSUME Restart PROVE FALSE
      OBVIOUS
    <3> QED
      BY <1>1, RestartProc
  <2>2. CASE proc'[g] = proc[g]
    <3>1. PICK t \in TxIds : txs[t].status = "success" /\ txs[t].a = proc[g].a
      BY <1>1, <2>2 DEF SyncInv, LandedTxs
    <3> QED
      BY <1>0, <2>2, <3>1, TxsKept DEF LandedTxs
  <2>3. CASE FinishExecution(g)
    <3>1. proc[g].pc = "finishing" /\ txs' = txs /\ (Goto(g, "syncing") \/ Done(g))
      BY <2>3 DEF FinishExecution, chainVars
    <3>2. proc'[g].a = proc[g].a
      BY <1>0, <1>1, <3>1, GotoKeeps DEF Done, IdleProc, TypeInv
    <3>3. /\ proc[g].tx \in TxIds /\ txs[proc[g].tx].status = "success"
          /\ txs[proc[g].tx].a = proc[g].a
      <4>1. Working(g) /\ Holding(g)
        BY <3>1 DEF Working, Holding
      <4> QED
        BY <1>0, <3>1, <4>1, WorkType DEF HookInv, LandInv
    <3> QED
      BY <3>1, <3>2, <3>3 DEF LandedTxs
  <2> QED
    BY <1>0, <1>1, <2>1, <2>2, <2>3, HoldingEffects DEF Finishes
<1> QED
  BY <1>0, <1>1 DEF SyncInv

\* Every change of the members, the threshold and the disabled flag is owed to one
\* action: it collected every approval it was created to need, the Safe executed it
\* if it is a call to the Safe, and it asked for this change.
THEOREM GroupChangesAreApproved == Spec => ChangesAreApproved
<1> DEFINE Owed == \E a \in ActionIds : /\ ApprovedEnough(a)
                                        /\ action[a].onChain => LandedTxs(a) # {}
                                        /\ AskedFor(action[a].what)
<1>1. SyncInv /\ [Next]_vars => [Owed]_<<role, group>>
  <2> SUFFICES ASSUME SyncInv, NEW g \in Goroutines, Applies(g) PROVE Owed
    BY GroupEffects DEF SyncInv, ApprovalInv, LandInv
  <2>0. TypeInv /\ LandInv /\ ApprovalInv
    BY DEF SyncInv, ApprovalInv, LandInv
  <2>1. Decided(g) /\ proc[g].a \in ActionIds
    BY <2>0, EffectAsked
  <2>2. Known(proc[g].a) /\ Enough(proc[g].a)
    BY <2>0, <2>1 DEF ApprovalInv, LandInv, Decided, Working
  <2>3. /\ action[proc[g].a].required \in Nat /\ action[proc[g].a].required > 0
        /\ Cardinality(approvals[proc[g].a]) \in Nat
    BY <2>0, <2>1, <2>2, FS_CardinalityType DEF ApprovalInv, TypeInv, GoodRow, Row
  <2>4. ApprovedEnough(proc[g].a)
    BY <2>2, <2>3 DEF ApprovedEnough, Enough
  <2>5. action[proc[g].a].onChain => LandedTxs(proc[g].a) # {}
    BY DEF Applies, ExecuteLocally, ApplyMembershipSideEffect, SyncInv
  <2> QED
    BY <2>0, <2>1, <2>4, <2>5, EffectAsked
<1> QED
  BY <1>1, SyncInvInit, SyncInvStep, PTL DEF Spec, ChangesAreApproved

-----------------------------------------------------------------------------
(* The promise.  GroupWallet's variables are functions of the rows, the      *)
(* approvals and the chain; one kind of step changes each of them.           *)

Need       == [a \in ActionIds |-> action[a].required]
ApprovedBy == [a \in ActionIds |-> ApproversOf(a)]
Landed     == {a \in ActionIds : LandedTxs(a) # {}}

LEMMA NeedKept ==
  ASSUME TypeInv, [Next]_vars, ~\E g \in Requests : CreatePendingAction(g)
  PROVE  Need' = Need
<1>0. action \in [ActionIds -> GoodRow]
  BY DEF TypeInv
<1>1. CASE action' = action
  BY <1>1 DEF Need
<1>2. CASE SavesARow
  <2>1. PICK b \in ActionIds, status \in Statuses \ {"NONE"}, tx \in TxIds \cup {NoTx},
             relayer \in Relayers \cup {NoRelayer} : SaveRow(b, status, tx, relayer)
    BY <1>2 DEF SavesARow, Saves
  <2>2. action[b] \in Row
    BY <1>0 DEF GoodRow
  <2>3. \A a \in ActionIds : action'[a].required = action[a].required
    BY <1>0, <2>1, <2>2 DEF SaveRow, Row
  <2> QED
    BY <2>3 DEF Need
<1> QED
  BY <1>1, <1>2, RowEffects DEF CreatesARow

LEMMA ApprovedByKept ==
  ASSUME TypeInv, [Next]_vars, ~\E g \in Goroutines : RecordApproval(g)
  PROVE  ApprovedBy' = ApprovedBy
<1>1. approvals' = approvals
  BY ApprovalEffects DEF Approves
<1> QED
  BY <1>1 DEF ApprovedBy, ApproversOf

LEMMA LandedKept ==
  ASSUME TypeInv, [Next]_vars, ~\E t \in TxIds : Mine(t)
  PROVE  Landed' = Landed
<1>0. txs \in [TxIds -> GoodTx]
  BY DEF TypeInv
<1>1. CASE txs' = txs
  BY <1>1 DEF Landed, LandedTxs
<1>2. CASE SendsATx
  <2>1. PICK g \in Goroutines, t \in TxIds, r \in Relayers : FreshTx(t) /\ Broadcast(g, t, r)
    BY <1>2 DEF SendsATx
  <2>2. txs[t].status # "success" /\ txs'[t].status # "success" /\ \A u \in TxIds \ {t} : txs'[u] = txs[u]
    BY <1>0, <2>1 DEF FreshTx, Broadcast
  <2>3. \A a \in ActionIds : LandedTxs(a)' = LandedTxs(a)
    BY <2>2 DEF LandedTxs
  <2> QED
    BY <2>3 DEF Landed
<1> QED
  BY <1>1, <1>2, ChainEffects

\* GroupWallet counts approvals as this module does.
LEMMA WalletCardinality == \A S : Wallet!Cardinality(S) = Cardinality(S)
  BY DEF Cardinality, Wallet!Cardinality

LEMMA WalletInitially == Init => Wallet!WalletInit
<1> SUFFICES ASSUME Init PROVE Wallet!WalletInit
  OBVIOUS
<1>1. \A a \in ActionIds : action[a].required = 0 /\ {s.member : s \in approvals[a]} = {}
  BY DEF Init, NoRow
<1>2. \A a \in ActionIds : LandedTxs(a) = {}
  BY DEF Init, LandedTxs, NoTxn
<1> QED
  BY <1>1, <1>2 DEF Wallet!WalletInit

LEMMA WalletStep == ApprovalInv /\ [Next]_vars => [Wallet!WalletNext]_(Wallet!gwVars)
<1> SUFFICES ASSUME ApprovalInv, [Next]_vars PROVE [Wallet!WalletNext]_(Wallet!gwVars)
  OBVIOUS
<1>0. TypeInv /\ TypeInv' /\ LandInv
  BY TypeStep DEF ApprovalInv, LandInv
<1>1. CASE \E g \in Requests : CreatePendingAction(g)
  <2>1. PICK g \in Requests : CreatePendingAction(g)
    BY <1>1
  <2>2. ApprovedBy' = ApprovedBy /\ Landed' = Landed
    BY <2>1 DEF CreatePendingAction, chainVars, ApprovedBy, ApproversOf, Landed, LandedTxs
  <2>3. CASE action' = action
    <3>1. Need' = Need
      BY <2>3 DEF Need
    <3> QED
      BY <2>2, <3>1 DEF Wallet!gwVars, Need, ApprovedBy, ApproversOf, Landed
  <2>4. CASE CreatesARow
    <3>1. PICK a \in ActionIds, h \in Requests, row \in GoodRow :
            /\ action[a].status = "NONE" /\ CreatePendingAction(h)
            /\ row.required = proc[h].required /\ action' = [action EXCEPT ![a] = row]
      BY <2>4 DEF CreatesARow
    <3>2. row.required \in Nat \ {0}
      BY <3>1, Constants DEF ConstantFacts, ApprovalInv, CreatePendingAction, GoodRow, Row
    <3>3. Need[a] = 0 /\ Need'[a] \in Nat \ {0} /\ Need' = [Need EXCEPT ![a] = Need'[a]]
      BY <1>0, <3>1, <3>2 DEF ApprovalInv, Need, TypeInv
    <3> QED
      BY <2>2, <3>3 DEF Wallet!WalletNext, Wallet!Propose, Need, ApprovedBy, ApproversOf, Landed
  <2> QED
    BY <1>0, <2>1, <2>3, <2>4, CreateEffects
<1>2. CASE \E g \in Goroutines : RecordApproval(g)
  <2>1. action' = action /\ txs' = txs
    BY <1>2 DEF RecordApproval, chainVars
  <2>2. Need' = Need /\ Landed' = Landed
    BY <2>1 DEF Need, Landed, LandedTxs
  <2>3. CASE approvals' = approvals
    BY <2>2, <2>3 DEF Wallet!gwVars, Need, Landed
  <2>4. ASSUME NEW g \in Goroutines, Approves(g)
        PROVE  Wallet!WalletNext
    <3> DEFINE a == proc[g].a
               m == proc[g].member
    <3>1. /\ a \in ActionIds /\ m \in Members /\ ~HasApproved(m, a)
          /\ approvals' = [approvals EXCEPT ![a] = @ \cup {[member |-> m, key |-> signer[m]]}]
          /\ Known(a)
      BY <2>4 DEF Approves, RecordApproval, ApprovalInv, LandInv, Working
    <3>2. PICK b \in ActionIds, n \in Members : a = b /\ m = n
      BY <3>1
    <3>3. approvals'[b] = approvals[b] \cup {[member |-> n, key |-> signer[n]]}
          /\ \A c \in ActionIds \ {b} : approvals'[c] = approvals[c]
      BY <1>0, <3>1, <3>2 DEF TypeInv
    <3>4. ApproversOf(b)' = ApproversOf(b) \cup {n} /\ \A c \in ActionIds \ {b} : ApproversOf(c)' = ApproversOf(c)
      <4> DEFINE s == [member |-> n, key |-> signer[n]]
      <4>1. s.member = n /\ approvals'[b] = approvals[b] \cup {s}
        BY <3>3
      <4> HIDE DEF s
      <4> QED
        BY <3>3, <4>1 DEF ApproversOf
    <3>5. n \notin ApprovedBy[b] /\ ApprovedBy' = [ApprovedBy EXCEPT ![b] = @ \cup {n}]
      BY <3>1, <3>2, <3>4 DEF ApprovedBy, HasApproved, ApproversOf
    <3>6. Need[b] # 0
      BY <3>1, <3>2 DEF ApprovalInv, Need
    <3> QED
      BY <2>2, <3>5, <3>6 DEF Wallet!WalletNext, Wallet!Approve, Need, ApprovedBy, ApproversOf, Landed
  <2> QED
    BY <1>0, <2>3, <2>4, ApprovalEffects
<1>3. ASSUME NEW t \in TxIds, Mine(t), Landed' # Landed PROVE Wallet!WalletNext
  <2>0. txs \in [TxIds -> GoodTx] /\ \A u \in TxIds : txs[u].status # "unused" => txs[u].a \in ActionIds
    BY <1>0 DEF TypeInv, GoodTx
  <2>1. action' = action /\ approvals' = approvals
    BY <1>3 DEF Mine, dbVars
  <2>2. txs[t].status = "pending" /\ txs'[t].status = "success" /\ txs'[t].a = txs[t].a
        /\ \A u \in TxIds \ {t} : txs'[u] = txs[u]
    <3>1. txs[t].status = "pending" /\ \E s \in {"success", "reverted"} : txs' = [txs EXCEPT ![t].status = s]
      BY <1>3 DEF Mine
    <3>2. txs[t] \in Tx
      BY <2>0 DEF GoodTx
    <3>3. /\ txs'[t].a = txs[t].a /\ txs'[t].status \in {"success", "reverted"}
          /\ \A u \in TxIds \ {t} : txs'[u] = txs[u]
      BY <2>0, <3>1, <3>2 DEF Tx
    <3>4. CASE txs'[t].status = "reverted"
      <4>1. \A a \in ActionIds : LandedTxs(a)' = LandedTxs(a)
        BY <3>1, <3>3, <3>4 DEF LandedTxs
      <4> QED
        BY <1>3, <4>1 DEF Landed
    <3> QED
      BY <3>1, <3>3, <3>4
  <2>3. PICK a \in ActionIds : a = txs[t].a
    BY <2>0, <2>2
  <2>4. Known(a) /\ Enough(a)
    BY <2>2, <2>3 DEF ApprovalInv, LandInv
  <2>5. action[a].nonce = safe.nonce
    BY <1>0, <2>2, <2>3, NewLanding
  <2>6. a \notin Landed
    <3>1. safe.nonce \in Nat
      BY <1>0 DEF TypeInv
    <3> QED
      BY <1>0, <2>5, <3>1 DEF Landed, LandedTxs, LandInv
  <2>7. Landed' = Landed \cup {a}
    <3>1. LandedTxs(a)' = LandedTxs(a) \cup {t} /\ \A b \in ActionIds \ {a} : LandedTxs(b)' = LandedTxs(b)
      BY <2>2, <2>3 DEF LandedTxs
    <3> QED
      BY <3>1 DEF Landed
  <2>8. /\ Need[a] # 0 /\ Cardinality(ApprovedBy[a]) >= Need[a]
    <3>1. /\ action[a].required \in Nat /\ action[a].required > 0
          /\ Cardinality(approvals[a]) \in Nat /\ Cardinality(ApproversOf(a)) = Cardinality(approvals[a])
      BY <1>0, <2>4, FS_CardinalityType DEF ApprovalInv, TypeInv, GoodRow, Row
    <3> QED
      BY <2>4, <3>1 DEF Need, ApprovedBy, Enough
  <2>9. Need' = Need /\ ApprovedBy' = ApprovedBy
    BY <2>1 DEF Need, ApprovedBy, ApproversOf
  <2> QED
    BY <2>6, <2>7, <2>8, <2>9, WalletCardinality DEF Wallet!WalletNext, Wallet!Land, Need, ApprovedBy, ApproversOf, Landed
<1>4. CASE \E t \in TxIds : Mine(t)
  <2>1. action' = action /\ approvals' = approvals
    BY <1>4 DEF Mine, dbVars
  <2>2. Need' = Need /\ ApprovedBy' = ApprovedBy
    BY <2>1 DEF Need, ApprovedBy, ApproversOf
  <2> QED
    BY <1>3, <1>4, <2>2 DEF Wallet!gwVars, Need, ApprovedBy, ApproversOf, Landed
<1>5. CASE /\ ~\E g \in Requests : CreatePendingAction(g)
           /\ ~\E g \in Goroutines : RecordApproval(g)
           /\ ~\E t \in TxIds : Mine(t)
  BY <1>0, <1>5, NeedKept, ApprovedByKept, LandedKept DEF Wallet!gwVars, Need, ApprovedBy, ApproversOf, Landed
<1> QED
  BY <1>1, <1>2, <1>4, <1>5

\* The shared wallet keeps its promise to its members: an action takes effect at
\* most once, and only with the approvals of as many distinct members as it needs.
THEOREM WalletPromiseKept == Spec => ImplementsGroupWallet
<1> QED
  BY WalletInitially, WalletStep, ApprovalInvInit, ApprovalInvStep, PTL
     DEF Spec, ImplementsGroupWallet, Wallet!WalletSpec

=============================================================================
