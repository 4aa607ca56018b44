---------------------------- MODULE Tokenization ----------------------------
(***************************************************************************)
(* The life of one tokenized asset: application, vetting, fee, minting by  *)
(* its approvers, and the worker that opens and closes its sale.  Every    *)
(* handler reads the whole row, edits its copy and later saves the whole   *)
(* row, so that the last save wins.  Minting hands its transactions to the *)
(* node and one database transaction then records the mint; nobody waits   *)
(* for a receipt, so each of them lands or is void at a time of its own.   *)
(* Sign-offs are counted after they are stored, and nothing looks at the   *)
(* asset's status again.                                                   *)
(***************************************************************************)
EXTENDS FiniteSets, Integers

CONSTANTS Approvers,  \* the addresses listed in the asset's MintingApprovers, at least four
          Tasks,      \* requests served at a time
          Worker,     \* the goroutine that sweeps every 30 seconds
          Windows,    \* bound: the <<start, end>> of the sale that are tried
          MaxTime,    \* bound: the clock
          MaxTokens,  \* bound: token contracts deployed
          MaxCalls,   \* bound: requests served
          MaxSettled, \* bound: transactions settled
          MaxFaults   \* bound: failed calls

ASSUME ApproversAssumption == Cardinality(Approvers) >= 4 /\ Worker \notin Tasks
ASSUME BoundsAssumption == {MaxTime, MaxTokens, MaxCalls, MaxSettled, MaxFaults} \subseteq Nat

VARIABLES asset,    \* the tokenized_assets row
          mint,     \* its mint_approvals row and the sign-offs
          chain,    \* per token contract, what became of each of its transactions
          curated,  \* contracts listed in curated_tokens
          task,     \* the requests under way and the worker, with their copy of the row
          now,      \* the clock
          calls,    \* requests served so far
          tokenFaults

tokenizationVars == <<asset, mint, chain, curated, task, now, calls, tokenFaults>>

Stages   == {"DRAFT", "APPLICATION_CONFIRMED", "FEE_CONFIRMED", "FEE_ACKNOWLEDGED",
             "MINTED", "PRIMARY_SALE_ACTIVE", "SECONDARY_SALE_ACTIVE"}
NoWindow == <<0, 0>>
TokenIds == 1..MaxTokens
Asset == [status: Stages, vetted: BOOLEAN, window: Windows \cup {NoWindow}, token: {0} \cup TokenIds]
NoAsset == [status |-> "none", vetted |-> FALSE, window |-> NoWindow, token |-> 0]
NoMint  == [status |-> "none", signoffs |-> {}, token |-> 0]
\* What executeMint submits for a token that has reserved and for-sale supply.
Issuance == {"contract", "reserved", "sale", "inventory"}
\* Each of the asset's two keys numbers its transactions: one is settled after these.
Earlier(x) == CASE x = "reserved"  -> {"contract"}
                [] x = "inventory" -> {"contract", "reserved"}
                [] x = "fee"       -> {"contract", "reserved", "inventory"}
                [] x = "pause"     -> {"sale"}
                [] OTHER           -> {}
\* A mint needs the asset's contract, a pause that of the sale.
CalledOn(x) == CASE x \in {"reserved", "inventory", "fee"} -> {"contract"}
                 [] x = "pause" -> {"sale"}
                 [] OTHER       -> {}
Txs       == Issuance \cup {"fee", "pause"}
TxStates  == {"no", "sent", "landed", "void"}
NotIssued == [x \in Txs |-> "no"]
Free    == [pc |-> "free", row |-> NoAsset, approver |-> {}, token |-> 0]
Exists  == asset # NoAsset
RequiredApprovals == Cardinality(Approvers) - 2

TokenizationInit ==
  /\ asset = NoAsset /\ mint = NoMint
  /\ chain = [n \in TokenIds |-> NotIssued]
  /\ curated = {}
  /\ task = [t \in Tasks \cup {Worker} |-> Free]
  /\ now = 0 /\ calls = 0 /\ tokenFaults = 0

Deployed == {n \in TokenIds : chain[n] # NotIssued}
Done(t)  == task' = [task EXCEPT ![t] = Free]
Goto(t, pc) == task' = [task EXCEPT ![t].pc = pc]
Begin(t, pc, row) ==
  /\ task[t] = Free /\ task' = [task EXCEPT ![t] = [Free EXCEPT !.pc = pc, !.row = row]]
  /\ IF t = Worker THEN UNCHANGED calls ELSE calls < MaxCalls /\ calls' = calls + 1
\* A handler that edits its copy of the row and saves it in a later step.
Edits(t, row) == /\ Begin(t, "save", row)
                 /\ UNCHANGED <<asset, mint, chain, curated, now, tokenFaults>>

-----------------------------------------------------------------------------
(* The application.                                                        *)
\* A new draft, or the applicant's draft edited; everything the applicant does not own
\* is reset, but for the row's id: of an applicant without an application the body's is
\* saved, so that this row may be overwritten whatever stage it has reached.
SubmitApplication(t, w) == Edits(t, [NoAsset EXCEPT !.status = "DRAFT", !.window = w])

ConfirmApplication(t) ==
  /\ Exists /\ asset.status = "DRAFT"
  /\ Edits(t, [asset EXCEPT !.status = "APPLICATION_CONFIRMED"])

Vet(t) ==
  /\ Exists /\ asset.status \in {"DRAFT", "APPLICATION_CONFIRMED"}
  /\ Edits(t, [asset EXCEPT !.vetted = TRUE])

\* Mutant: the application keeps its place in the pipeline.
FailInPlace(t) == Exists /\ Edits(t, [asset EXCEPT !.vetted = FALSE])
\* Whatever stage the asset has reached, a minted one included.
FailDueDiligence(t) ==
  /\ Exists /\ Edits(t, [asset EXCEPT !.status = "DRAFT", !.vetted = FALSE])

ConfirmFeePayment(t) ==
  /\ Exists /\ asset.status = "APPLICATION_CONFIRMED" /\ asset.vetted
  /\ Edits(t, [asset EXCEPT !.status = "FEE_CONFIRMED"])

AcknowledgeFeePayment(t) ==
  /\ Exists /\ asset.status = "FEE_CONFIRMED"
  /\ Edits(t, [asset EXCEPT !.status = "FEE_ACKNOWLEDGED"])

\* Mutant: the dates are swapped.
SwapSalesDates(t, w) == Exists /\ Edits(t, [asset EXCEPT !.window = <<w[2], w[1]>>])
UpdateSalesDates(t, w) == Exists /\ Edits(t, [asset EXCEPT !.window = w])

\* The file is stored between the read and the save.
UploadLogo(t) == Exists /\ Edits(t, asset)

\* Save updates the row with that id, or inserts it when it is gone.
Save(t) ==
  /\ task[t].pc = "save" /\ asset' = task[t].row /\ Done(t)
  /\ UNCHANGED <<mint, chain, curated, now, calls, tokenFaults>>

\* The status is read in one statement, the row deleted in another.
Delete(t) ==
  /\ Exists /\ asset.status = "DRAFT" /\ Begin(t, "delete", asset)
  /\ UNCHANGED <<asset, mint, chain, curated, now, tokenFaults>>
DeleteRow(t) ==
  /\ task[t].pc = "delete" /\ asset' = NoAsset /\ Done(t)
  /\ UNCHANGED <<mint, chain, curated, now, calls, tokenFaults>>

-----------------------------------------------------------------------------
(* Minting.                                                                *)
\* There is one mint request per asset: a second call returns the first one's.
RequestMint ==
  /\ Exists /\ asset.status = "FEE_ACKNOWLEDGED" /\ mint = NoMint
  /\ mint' = [NoMint EXCEPT !.status = "PENDING"]
  /\ UNCHANGED <<asset, chain, curated, task, now, calls, tokenFaults>>

SignMintApproval(t, a) ==
  /\ mint.status = "PENDING" /\ Exists /\ task[t] = Free /\ calls < MaxCalls /\ calls' = calls + 1
  /\ task' = [task EXCEPT ![t] = [pc |-> "sign", row |-> asset, approver |-> {a}, token |-> 0]]
  /\ UNCHANGED <<asset, mint, chain, curated, now, tokenFaults>>

\* One sign-off per approver.
RecordSignoff(t) ==
  /\ task[t].pc = "sign"
  /\ IF task[t].approver \subseteq mint.signoffs THEN Done(t) /\ UNCHANGED mint
     ELSE mint' = [mint EXCEPT !.signoffs = @ \cup task[t].approver] /\ Goto(t, "count")
  /\ UNCHANGED <<asset, chain, curated, now, calls, tokenFaults>>

CountSignoffs(t) ==
  /\ task[t].pc = "count"
  /\ IF Cardinality(mint.signoffs) < RequiredApprovals THEN Done(t) ELSE Goto(t, "deploy")
  /\ UNCHANGED <<asset, mint, chain, curated, now, calls, tokenFaults>>

\* The node takes a transaction; one of the same kind may have been sent before.
Send(n, x) == chain' = [chain EXCEPT ![n][x] = "sent"]

\* The address of the next contract is computed when its deployment is sent.
DeployAsset(t) ==
  /\ task[t].pc = "deploy"
  /\ \E n \in TokenIds \ Deployed :
       /\ \A m \in TokenIds \ Deployed : n <= m
       /\ Send(n, "contract")
       /\ task' = [task EXCEPT ![t].pc = "reserve", ![t].token = n]
  /\ UNCHANGED <<asset, mint, curated, now, calls, tokenFaults>>

Issue(t, pc, what, next) ==
  /\ task[t].pc = pc /\ Send(task[t].token, what) /\ Goto(t, next)
  /\ UNCHANGED <<asset, mint, curated, now, calls, tokenFaults>>
MintReserved(t)  == Issue(t, "reserve", "reserved", "sale")
DeploySale(t)    == Issue(t, "sale", "sale", "stock")
MintInventory(t) == Issue(t, "stock", "inventory", "fee")
\* No failure of the fee mint stops the request.
MintFee(t) ==
  \/ Issue(t, "fee", "fee", "record")
  \/ /\ task[t].pc = "fee" /\ Goto(t, "record")
     /\ UNCHANGED <<asset, mint, chain, curated, now, calls, tokenFaults>>

Settled == {s \in TokenIds \X Txs : chain[s[1]][s[2]] \in {"landed", "void"}}
\* The chain, whenever it likes: a transaction lands, or it reverts, is replaced or
\* dropped.  What calls a contract that never landed is without effect.
SettleTx(n, x) ==
  /\ Cardinality(Settled) < MaxSettled
  /\ chain[n][x] = "sent" /\ \A y \in Earlier(x) : chain[n][y] # "sent"
  /\ \/ /\ \A y \in CalledOn(x) : chain[n][y] = "landed"
        /\ chain' = [chain EXCEPT ![n][x] = "landed"]
     \/ chain' = [chain EXCEPT ![n][x] = "void"]
  /\ UNCHANGED <<asset, mint, curated, task, now, calls, tokenFaults>>

\* Mutant: the mint is recorded as soon as its sale is deployed.
RecordEarly(t) ==
  /\ task[t].pc \in {"stock", "fee", "record"}
  /\ mint'  = [mint EXCEPT !.status = "EXECUTED", !.token = task[t].token]
  /\ asset' = [task[t].row EXCEPT !.status = "MINTED", !.token = task[t].token]
  /\ curated' = curated \cup {task[t].token} /\ Done(t)
  /\ UNCHANGED <<chain, now, calls, tokenFaults>>
\* One transaction: the approval, the copy of the asset made before the sign-off, the listing.
RecordMint(t) ==
  /\ task[t].pc = "record"
  /\ mint'  = [mint EXCEPT !.status = "EXECUTED", !.token = task[t].token]
  /\ asset' = [task[t].row EXCEPT !.status = "MINTED", !.token = task[t].token]
  /\ curated' = curated \cup {task[t].token} /\ Done(t)
  /\ UNCHANGED <<chain, now, calls, tokenFaults>>

-----------------------------------------------------------------------------
(* The worker, and what fails.                                             *)
Start(row) == row.window[1]
End(row)   == row.window[2]
DueToOpen  == asset.status = "MINTED" /\ asset.window # NoWindow /\ Start(asset) <= now
DueToClose == asset.status = "PRIMARY_SALE_ACTIVE" /\ asset.window # NoWindow /\ End(asset) <= now

\* Mutant: the sweep looks for windows that started before now.
ActivateLate ==
  /\ DueToOpen /\ Start(asset) < now /\ Edits(Worker, [asset EXCEPT !.status = "PRIMARY_SALE_ACTIVE"])
ActivatePrimarySales ==
  /\ DueToOpen /\ Edits(Worker, [asset EXCEPT !.status = "PRIMARY_SALE_ACTIVE"])

ActivateSecondarySales ==
  /\ DueToClose /\ Begin(Worker, "pause", [asset EXCEPT !.status = "SECONDARY_SALE_ACTIVE"])
  /\ UNCHANGED <<asset, mint, chain, curated, now, tokenFaults>>

\* The pause is sent before the row is saved; a row without a contract has none to pause.
PauseSale ==
  /\ task[Worker].pc = "pause" /\ Goto(Worker, "save")
  /\ IF task[Worker].row.token = 0 THEN UNCHANGED chain ELSE Send(task[Worker].row.token, "pause")
  /\ UNCHANGED <<asset, mint, curated, now, calls, tokenFaults>>

\* Mutant: a pause that fails is not noticed.
FailAndGoOn(t) ==
  /\ tokenFaults < MaxFaults /\ tokenFaults' = tokenFaults + 1
  /\ task[t] # Free /\ (IF task[t].pc = "pause" THEN Goto(t, "save") ELSE Done(t))
  /\ UNCHANGED <<asset, mint, chain, curated, now, calls>>
\* A statement or a submission fails or the process stops: what was done stays done.
FailTask(t) ==
  /\ tokenFaults < MaxFaults /\ tokenFaults' = tokenFaults + 1
  /\ task[t] # Free /\ Done(t)
  /\ UNCHANGED <<asset, mint, chain, curated, now, calls>>

Tick == /\ now < MaxTime /\ now' = now + 1
        /\ UNCHANGED <<asset, mint, chain, curated, task, calls, tokenFaults>>

WorkerStep == ActivatePrimarySales \/ ActivateSecondarySales \/ PauseSale \/ Save(Worker)
ApplicationRoutes(t) == \/ \E w \in Windows : SubmitApplication(t, w)
                        \/ ConfirmApplication(t) \/ ConfirmFeePayment(t) \/ Delete(t)
DocumentRoutes(t)    == UploadLogo(t)
AdminRoutes(t)       == \/ Vet(t) \/ FailDueDiligence(t) \/ AcknowledgeFeePayment(t)
                        \/ \E w \in Windows : UpdateSalesDates(t, w)
MintingRoutes(t)     == RequestMint \/ \E a \in Approvers : SignMintApproval(t, a)

TokenizationNext ==
  \/ \E t \in Tasks : \/ ApplicationRoutes(t) \/ DocumentRoutes(t) \/ AdminRoutes(t) \/ MintingRoutes(t)
                      \/ DeleteRow(t) \/ Save(t)
                      \/ RecordSignoff(t) \/ CountSignoffs(t) \/ DeployAsset(t) \/ MintReserved(t)
                      \/ DeploySale(t) \/ MintInventory(t) \/ MintFee(t) \/ RecordMint(t)
  \/ WorkerStep \/ Tick \/ \E n \in TokenIds, x \in Txs : SettleTx(n, x)
  \/ \E t \in Tasks \cup {Worker} : FailTask(t)

TokenizationSpec == TokenizationInit /\ [][TokenizationNext]_tokenizationVars
\* main.go runs the worker in a loop for as long as the process lives.
FairTokenizationSpec == TokenizationSpec /\ WF_tokenizationVars(WorkerStep)

-----------------------------------------------------------------------------
TokenizationTypeOK ==
  /\ asset \in Asset \cup {NoAsset}
  /\ mint \in [status: {"none", "PENDING", "EXECUTED"}, signoffs: SUBSET Approvers, token: {0} \cup TokenIds]
  /\ chain \in [TokenIds -> [Txs -> TxStates]]
  /\ curated \subseteq TokenIds
  /\ task \in [Tasks \cup {Worker} ->
       [pc: {"free", "save", "delete", "sign", "count", "deploy", "reserve", "sale", "stock", "fee",
             "record", "pause"},
        row: Asset \cup {NoAsset}, approver: SUBSET Approvers, token: {0} \cup TokenIds]]
  /\ now \in 0..MaxTime /\ calls \in 0..MaxCalls /\ tokenFaults \in 0..MaxFaults

\* Of a token the database names, as the asset's, the mint request's or in the list of
\* tradeable tokens, every deployment and mint was handed to the node, whichever of the
\* steps failed before and however often the mint was tried again.
RecordedMintIsSubmitted ==
  \A n \in TokenIds : (n = asset.token \/ n = mint.token \/ n \in curated) =>
    \A x \in Issuance : chain[n][x] # "no"

\* Once an asset trades on the secondary market the pause of its primary sale was sent,
\* though saves of older copies and a second mint may have come between.
SecondaryPauseIsSent ==
  asset.status = "SECONDARY_SALE_ACTIVE" /\ asset.token # 0 => chain[asset.token]["pause"] # "no"

\* Refuted by the code.  wallet-backend/README.md:480 says that the server deploys the
\* contracts, mints the supply and then flips the status to MINTED: no minted asset has
\* a deployment or a mint that came to nothing.
MintedIsIssued ==
  asset.status = "MINTED" => \A x \in Issuance : chain[asset.token][x] # "void"

\* Refuted by the code.  workers.go:51 says that the sweep pauses the sale, as the end
\* of the primary window, and flips the stage: no asset in the secondary stage has a
\* sale that is on the chain and whose pause came to nothing.
SecondaryIsPaused ==
  asset.status = "SECONDARY_SALE_ACTIVE" /\ asset.token # 0 =>
    ~(chain[asset.token]["sale"] = "landed" /\ chain[asset.token]["pause"] = "void")

\* While its fee is settled an application stays vetted: a failed due diligence takes
\* the stage back together with the vetting, in whatever order the saves arrive.
FeeStageIsVetted == asset.status \in {"FEE_CONFIRMED", "FEE_ACKNOWLEDGED"} => asset.vetted

\* A minted asset is put on sale when its window starts, and taken off it when the
\* window ends, unless its dates or its stage are changed before the worker comes.
SalesOpenAndClose == (DueToOpen ~> ~DueToOpen) /\ (DueToClose ~> ~DueToClose)

=============================================================================
