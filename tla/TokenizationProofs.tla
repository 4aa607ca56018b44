------------------------- MODULE TokenizationProofs -------------------------
(***************************************************************************)
(* Theorems about Tokenization, for any approvers, any number of requests  *)
(* under way, of contracts, of faults, and any sales dates.                *)
(***************************************************************************)
EXTENDS Tokenization, TLAPS

\* The transactions of a token that were handed to the node, whatever became of them.
Sent(c, n) == {x \in Txs : c[n][x] # "no"}
ChainType  == [TokenIds -> [Txs -> TxStates]]

\* What holds of a row, be it the stored one or the copy a handler will save:
\* a copy can be saved over any later state, so it must be good in itself.
GoodRow(c, row) ==
  /\ row \in Asset \cup {NoAsset}
  /\ row.token # 0 => Issuance \subseteq Sent(c, row.token)
  /\ row.status \in {"FEE_CONFIRMED", "FEE_ACKNOWLEDGED"} => row.vetted
\* The pause of the sale of an asset in the secondary stage was sent.
Closed(c, row) == row.status = "SECONDARY_SALE_ACTIVE" /\ row.token # 0 => "pause" \in Sent(c, row.token)

PCs == {"free", "save", "delete", "sign", "count", "deploy", "reserve", "sale", "stock", "fee", "record", "pause"}
\* What a mint that waits at pc has already sent.
IssuedAt(pc) == CASE pc = "reserve" -> {"contract"}
                  [] pc = "sale"    -> {"contract", "reserved"}
                  [] pc = "stock"   -> {"contract", "reserved", "sale"}
                  [] OTHER          -> Issuance
TaskType == [pc: PCs, row: Asset \cup {NoAsset}, approver: SUBSET Approvers, token: {0} \cup TokenIds]
GoodTask(c, k) ==
  /\ GoodRow(c, k.row)
  /\ k.pc # "pause" => Closed(c, k.row)
  /\ k.pc \in {"reserve", "sale", "stock", "fee", "record"} =>
       k.token \in TokenIds /\ IssuedAt(k.pc) \subseteq Sent(c, k.token)

TokenizationInv ==
  /\ chain \in ChainType
  /\ mint \in [status: {"none", "PENDING", "EXECUTED"}, signoffs: SUBSET Approvers, token: {0} \cup TokenIds]
  /\ curated \subseteq TokenIds
  /\ now \in 0..MaxTime /\ calls \in 0..MaxCalls /\ tokenFaults \in 0..MaxFaults
  /\ GoodRow(chain, asset) /\ Closed(chain, asset)
  /\ task \in [Tasks \cup {Worker} -> TaskType]
  /\ \A t \in Tasks \cup {Worker} : GoodTask(chain, task[t])
  /\ \A n \in TokenIds : n = mint.token \/ n \in curated => Issuance \subseteq Sent(chain, n)

LEMMA TokenFacts == TokenIds \subseteq Nat \ {0} /\ 0 \in 0..MaxTime /\ 0 \in 0..MaxCalls /\ 0 \in 0..MaxFaults
  BY BoundsAssumption DEF TokenIds

LEMMA FreeIsGood == ASSUME NEW c PROVE Free \in TaskType /\ GoodTask(c, Free)
  BY DEF Free, NoAsset, TaskType, GoodTask, GoodRow, Closed, PCs

LEMMA TokenizationInvInit == TokenizationInit => TokenizationInv
<1> SUFFICES ASSUME TokenizationInit PROVE TokenizationInv
  OBVIOUS
<1>1. GoodRow(chain, asset) /\ Closed(chain, asset)
  BY DEF TokenizationInit, NoAsset, GoodRow, Closed
<1>2. task \in [Tasks \cup {Worker} -> TaskType] /\ \A t \in Tasks \cup {Worker} : GoodTask(chain, task[t])
  BY FreeIsGood DEF TokenizationInit
<1>3. /\ chain \in ChainType
      /\ mint \in [status: {"none", "PENDING", "EXECUTED"}, signoffs: SUBSET Approvers, token: {0} \cup TokenIds]
      /\ curated \subseteq TokenIds
      /\ now \in 0..MaxTime /\ calls \in 0..MaxCalls /\ tokenFaults \in 0..MaxFaults
  BY TokenFacts DEF TokenizationInit, NoMint, ChainType, NotIssued, TxStates
<1>4. \A n \in TokenIds : ~(n = mint.token \/ n \in curated)
  BY TokenFacts DEF TokenizationInit, NoMint
<1> QED
  BY <1>1, <1>2, <1>3, <1>4 DEF TokenizationInv

-----------------------------------------------------------------------------
(* What was sent only grows, so whatever was good stays good.               *)

Grows(c, d) == /\ d \in ChainType
               /\ \A n \in TokenIds : Sent(c, n) \subseteq Sent(d, n)

LEMMA GrowsKeeps ==
  ASSUME NEW c, NEW d, Grows(c, d)
  PROVE  /\ \A n \in TokenIds : Issuance \subseteq Sent(c, n) => Issuance \subseteq Sent(d, n)
         /\ \A row : GoodRow(c, row) => GoodRow(d, row)
         /\ \A row : GoodRow(c, row) /\ Closed(c, row) => Closed(d, row)
         /\ \A k \in TaskType : GoodTask(c, k) => GoodTask(d, k)
<1>1. ASSUME NEW n \in TokenIds, Issuance \subseteq Sent(c, n) PROVE Issuance \subseteq Sent(d, n)
  BY <1>1 DEF Grows
<1>2. ASSUME NEW row, GoodRow(c, row)
      PROVE  /\ row.token # 0 => row.token \in TokenIds
             /\ GoodRow(d, row)
  <2>1. row.token # 0 => row.token \in TokenIds
    BY <1>2 DEF GoodRow, Asset, NoAsset
  <2> QED
    BY <1>1, <1>2, <2>1 DEF GoodRow
<1>3. ASSUME NEW row, GoodRow(c, row), Closed(c, row) PROVE Closed(d, row)
  BY <1>2, <1>3 DEF Closed, Grows
<1>4. ASSUME NEW k \in TaskType, GoodTask(c, k) PROVE GoodTask(d, k)
  <2>1. /\ GoodRow(d, k.row) /\ (k.pc # "pause" => Closed(d, k.row))
    BY <1>2, <1>3, <1>4 DEF GoodTask
  <2>2. ASSUME k.pc \in {"reserve", "sale", "stock", "fee", "record"}
        PROVE  k.token \in TokenIds /\ IssuedAt(k.pc) \subseteq Sent(d, k.token)
    BY <1>4, <2>2 DEF GoodTask, Grows
  <2> QED
    BY <2>1, <2>2 DEF GoodTask
<1> QED
  BY <1>1, <1>2, <1>3, <1>4

LEMMA SameGrows == TokenizationInv /\ chain' = chain => Grows(chain, chain')
  BY DEF TokenizationInv, Grows

\* A transaction sent, for the first time or again, is added to those that were.
LEMMA SendGrows ==
  ASSUME chain \in ChainType, NEW n \in TokenIds, NEW x \in Txs, NEW v \in TxStates \ {"no"},
         chain' = [chain EXCEPT ![n][x] = v]
  PROVE  /\ Grows(chain, chain')
         /\ Sent(chain', n) = Sent(chain, n) \cup {x}
<1>1. chain' \in ChainType
  BY DEF ChainType
<1>2. ASSUME NEW m \in TokenIds, NEW y \in Txs
      PROVE  chain'[m][y] = IF m = n /\ y = x THEN v ELSE chain[m][y]
  BY DEF ChainType
<1>3. v # "no"
  BY DEF TxStates
<1>4. \A m \in TokenIds : Sent(chain, m) \subseteq Sent(chain', m)
  BY <1>2, <1>3 DEF Sent
<1>5. Sent(chain', n) = Sent(chain, n) \cup {x}
  BY <1>2, <1>3 DEF Sent
<1> QED
  BY <1>1, <1>4, <1>5 DEF Grows

\* A step that leaves the stored rows alone and moves one task.
LEMMA MoveTask ==
  ASSUME TokenizationInv, NEW t \in Tasks \cup {Worker}, NEW k \in TaskType,
         task' = [task EXCEPT ![t] = k], GoodTask(chain', k), Grows(chain, chain')
  PROVE  /\ task' \in [Tasks \cup {Worker} -> TaskType]
         /\ \A u \in Tasks \cup {Worker} : GoodTask(chain', task'[u])
<1>1. task \in [Tasks \cup {Worker} -> TaskType]
  BY DEF TokenizationInv
<1>2. ASSUME NEW u \in Tasks \cup {Worker} PROVE GoodTask(chain', task'[u])
  <2>1. CASE u = t
    BY <1>1, <2>1
  <2>2. CASE u # t
    <3>1. task'[u] = task[u] /\ task[u] \in TaskType /\ GoodTask(chain, task[u])
      BY <1>1, <2>2 DEF TokenizationInv
    <3> QED
      BY <3>1, GrowsKeeps
  <2> QED
    BY <2>1, <2>2
<1> QED
  BY <1>1, <1>2

\* What the rows say of the contracts they name goes on being true.
LEMMA KeepRows ==
  ASSUME TokenizationInv, Grows(chain, chain')
  PROVE  /\ chain' \in ChainType
         /\ GoodRow(chain', asset) /\ Closed(chain', asset)
         /\ \A n \in TokenIds : n = mint.token \/ n \in curated => Issuance \subseteq Sent(chain', n)
         /\ \A t \in Tasks \cup {Worker} : GoodTask(chain', task[t])
<1>1. task \in [Tasks \cup {Worker} -> TaskType]
  BY DEF TokenizationInv
<1> QED
  BY <1>1, GrowsKeeps DEF TokenizationInv, Grows

-----------------------------------------------------------------------------
(* The steps                                                                *)

\* A handler or the worker that sets out with a good row.
LEMMA BeginStep ==
  ASSUME TokenizationInv, NEW t \in Tasks \cup {Worker}, NEW pc \in {"save", "delete", "pause"}, NEW row,
         Begin(t, pc, row), GoodRow(chain, row), pc # "pause" => Closed(chain, row),
         UNCHANGED <<asset, mint, chain, curated, now, tokenFaults>>
  PROVE  TokenizationInv'
<1> DEFINE k == [Free EXCEPT !.pc = pc, !.row = row]
<1>1. k \in TaskType /\ GoodTask(chain, k)
  BY DEF Free, TaskType, GoodTask, GoodRow, PCs
<1>2. task' = [task EXCEPT ![t] = k]
  BY DEF Begin
<1> HIDE DEF k
<1>3. calls' \in 0..MaxCalls
  BY BoundsAssumption DEF Begin, TokenizationInv
<1>4. /\ task' \in [Tasks \cup {Worker} -> TaskType]
      /\ \A u \in Tasks \cup {Worker} : GoodTask(chain', task'[u])
  BY <1>1, <1>2, SameGrows, MoveTask
<1> QED
  BY <1>3, <1>4 DEF TokenizationInv

LEMMA EditsStep ==
  ASSUME TokenizationInv, NEW t \in Tasks \cup {Worker}, NEW row, Edits(t, row),
         GoodRow(chain, row), Closed(chain, row)
  PROVE  TokenizationInv'
  BY BeginStep DEF Edits

\* The copy a route edits is good, whatever the asset's stage.
LEMMA EditedRow ==
  ASSUME TokenizationInv, Exists
  PROVE  /\ \A w \in Windows : LET row == [asset EXCEPT !.window = w]
                               IN GoodRow(chain, row) /\ Closed(chain, row)
         /\ \A s \in Stages \ {"FEE_CONFIRMED", "FEE_ACKNOWLEDGED", "SECONDARY_SALE_ACTIVE"} :
              LET row == [asset EXCEPT !.status = s] IN GoodRow(chain, row) /\ Closed(chain, row)
         /\ asset.vetted => \A s \in {"FEE_CONFIRMED", "FEE_ACKNOWLEDGED"} :
              LET row == [asset EXCEPT !.status = s] IN GoodRow(chain, row) /\ Closed(chain, row)
         /\ LET row == [asset EXCEPT !.vetted = TRUE] IN GoodRow(chain, row) /\ Closed(chain, row)
         /\ LET row == [asset EXCEPT !.status = "DRAFT", !.vetted = FALSE]
            IN GoodRow(chain, row) /\ Closed(chain, row)
         /\ GoodRow(chain, [asset EXCEPT !.status = "SECONDARY_SALE_ACTIVE"])
<1>1. GoodRow(chain, asset) /\ Closed(chain, asset) /\ asset \in Asset
  BY DEF TokenizationInv, GoodRow, Exists
<1> QED
  BY <1>1 DEF GoodRow, Closed, Asset, Stages

LEMMA RoutesStep ==
  ASSUME TokenizationInv, NEW t \in Tasks,
         ApplicationRoutes(t) \/ DocumentRoutes(t) \/ AdminRoutes(t)
  PROVE  TokenizationInv'
<1>0. t \in Tasks \cup {Worker}
  OBVIOUS
<1>1. ASSUME NEW w \in Windows, SubmitApplication(t, w) PROVE TokenizationInv'
  <2> DEFINE row == [NoAsset EXCEPT !.status = "DRAFT", !.window = w]
  <2>1. GoodRow(chain, row) /\ Closed(chain, row)
    BY DEF NoAsset, GoodRow, Closed, Asset, Stages
  <2>2. Edits(t, row)
    BY <1>1 DEF SubmitApplication
  <2> HIDE DEF row
  <2> QED
    BY <1>0, <2>1, <2>2, EditsStep
<1>2. ASSUME NEW row, Exists, Edits(t, row), GoodRow(chain, row), Closed(chain, row)
      PROVE  TokenizationInv'
  BY <1>0, <1>2, EditsStep
<1>3. CASE ConfirmApplication(t)
  BY <1>2, <1>3, EditedRow DEF ConfirmApplication, Stages
<1>4. CASE ConfirmFeePayment(t)
  BY <1>2, <1>4, EditedRow DEF ConfirmFeePayment
<1>5. CASE Delete(t)
  <2>1. GoodRow(chain, asset) /\ Closed(chain, asset)
    BY DEF TokenizationInv
  <2> QED
    BY <1>0, <1>5, <2>1, BeginStep DEF Delete
<1>6. CASE UploadLogo(t)
  BY <1>2, <1>6 DEF UploadLogo, TokenizationInv
<1>7. CASE Vet(t) \/ FailDueDiligence(t)
  BY <1>2, <1>7, EditedRow DEF Vet, FailDueDiligence
<1>8. CASE AcknowledgeFeePayment(t)
  <2>1. asset.vetted
    BY <1>8 DEF AcknowledgeFeePayment, TokenizationInv, GoodRow
  <2> QED
    BY <1>2, <1>8, <2>1, EditedRow DEF AcknowledgeFeePayment
<1>9. ASSUME NEW w \in Windows, UpdateSalesDates(t, w) PROVE TokenizationInv'
  BY <1>2, <1>9, EditedRow DEF UpdateSalesDates
<1> QED
  BY <1>1, <1>3, <1>4, <1>5, <1>6, <1>7, <1>8, <1>9 DEF ApplicationRoutes, DocumentRoutes, AdminRoutes

LEMMA SaveStep ==
  ASSUME TokenizationInv, NEW t \in Tasks \cup {Worker}, Save(t) \/ DeleteRow(t)
  PROVE  TokenizationInv'
<1>1. GoodRow(chain, asset') /\ Closed(chain, asset')
  <2>1. CASE Save(t)
    <3>1. GoodTask(chain, task[t]) /\ task[t].pc = "save" /\ asset' = task[t].row
      BY <2>1 DEF TokenizationInv, Save
    <3> QED
      BY <3>1 DEF GoodTask
  <2>2. CASE DeleteRow(t)
    BY <2>2 DEF DeleteRow, NoAsset, GoodRow, Closed
  <2> QED
    BY <2>1, <2>2
<1>2. task' = [task EXCEPT ![t] = Free] /\ UNCHANGED <<mint, chain, curated, now, calls, tokenFaults>>
  BY DEF Save, DeleteRow, Done
<1>3. /\ task' \in [Tasks \cup {Worker} -> TaskType]
      /\ \A u \in Tasks \cup {Worker} : GoodTask(chain', task'[u])
  BY <1>2, FreeIsGood, SameGrows, MoveTask
<1> QED
  BY <1>1, <1>2, <1>3 DEF TokenizationInv

LEMMA RequestMintStep == ASSUME TokenizationInv, RequestMint PROVE TokenizationInv'
<1>1. mint' \in [status: {"none", "PENDING", "EXECUTED"}, signoffs: SUBSET Approvers, token: {0} \cup TokenIds]
      /\ mint'.token = mint.token
  BY DEF RequestMint, NoMint
<1>2. UNCHANGED <<asset, chain, curated, task, now, calls, tokenFaults>>
  BY DEF RequestMint
<1> QED
  BY <1>1, <1>2 DEF TokenizationInv

LEMMA SignStep ==
  ASSUME TokenizationInv, NEW t \in Tasks, NEW a \in Approvers, SignMintApproval(t, a)
  PROVE  TokenizationInv'
<1> DEFINE k == [pc |-> "sign", row |-> asset, approver |-> {a}, token |-> 0]
<1>1. GoodRow(chain, asset) /\ Closed(chain, asset)
  BY DEF TokenizationInv
<1>2. k \in TaskType /\ GoodTask(chain, k)
  BY <1>1 DEF TaskType, GoodTask, GoodRow, PCs
<1>3. task' = [task EXCEPT ![t] = k] /\ UNCHANGED <<asset, mint, chain, curated, now, tokenFaults>>
  BY DEF SignMintApproval
<1> HIDE DEF k
<1>4. calls' \in 0..MaxCalls
  BY BoundsAssumption DEF SignMintApproval, TokenizationInv
<1>5. /\ task' \in [Tasks \cup {Worker} -> TaskType]
      /\ \A u \in Tasks \cup {Worker} : GoodTask(chain', task'[u])
  BY <1>2, <1>3, SameGrows, MoveTask
<1> QED
  BY <1>3, <1>4, <1>5 DEF TokenizationInv

\* A task that goes on with the same row.
LEMMA GotoStep ==
  ASSUME TokenizationInv, NEW t \in Tasks \cup {Worker}, NEW pc \in PCs, Goto(t, pc), Grows(chain, chain'),
         task[t].pc # "pause" \/ Closed(chain', task[t].row),
         pc \in {"reserve", "sale", "stock", "fee", "record"} =>
           task[t].token \in TokenIds /\ IssuedAt(pc) \subseteq Sent(chain', task[t].token)
  PROVE  /\ task' \in [Tasks \cup {Worker} -> TaskType]
         /\ \A u \in Tasks \cup {Worker} : GoodTask(chain', task'[u])
<1> DEFINE k == [task[t] EXCEPT !.pc = pc]
<1>1. task[t] \in TaskType /\ GoodTask(chain', task[t]) /\ task \in [Tasks \cup {Worker} -> TaskType]
  BY KeepRows DEF TokenizationInv
<1>2. k \in TaskType /\ k.row = task[t].row /\ k.token = task[t].token /\ k.pc = pc
  BY <1>1 DEF TaskType
<1>3. task' = [task EXCEPT ![t] = k]
  BY <1>1 DEF Goto
<1> HIDE DEF k
<1>4. GoodTask(chain', k)
  BY <1>1, <1>2 DEF GoodTask
<1> QED
  BY <1>2, <1>3, <1>4, MoveTask

LEMMA SignoffStep ==
  ASSUME TokenizationInv, NEW t \in Tasks, RecordSignoff(t) \/ CountSignoffs(t)
  PROVE  TokenizationInv'
<1>1. /\ mint' \in [status: {"none", "PENDING", "EXECUTED"}, signoffs: SUBSET Approvers, token: {0} \cup TokenIds]
      /\ mint'.token = mint.token
  <2>1. task[t].approver \subseteq Approvers
    BY DEF TokenizationInv, TaskType
  <2> QED
    BY <2>1 DEF RecordSignoff, CountSignoffs, TokenizationInv
<1>2. UNCHANGED <<asset, chain, curated, now, calls, tokenFaults>> /\ task[t].pc # "pause"
      /\ (Done(t) \/ Goto(t, "count") \/ Goto(t, "deploy"))
  BY DEF RecordSignoff, CountSignoffs
<1>3. /\ task' \in [Tasks \cup {Worker} -> TaskType]
      /\ \A u \in Tasks \cup {Worker} : GoodTask(chain', task'[u])
  BY <1>2, FreeIsGood, SameGrows, MoveTask, GotoStep DEF Done, PCs
<1> QED
  BY <1>1, <1>2, <1>3 DEF TokenizationInv

LEMMA DeployStep == ASSUME TokenizationInv, NEW t \in Tasks, DeployAsset(t) PROVE TokenizationInv'
<1>1. PICK n \in TokenIds \ Deployed :
        /\ Send(n, "contract")
        /\ task' = [task EXCEPT ![t].pc = "reserve", ![t].token = n]
  BY DEF DeployAsset
<1> DEFINE k == [task[t] EXCEPT !.pc = "reserve", !.token = n]
<1>2. chain \in ChainType /\ task \in [Tasks \cup {Worker} -> TaskType]
  BY DEF TokenizationInv
<1>3. Grows(chain, chain') /\ "contract" \in Sent(chain', n)
  <2>1. "contract" \in Txs /\ "sent" \in TxStates \ {"no"} /\ n \in TokenIds
    BY DEF Txs, Issuance, TxStates
  <2>2. chain' = [chain EXCEPT ![n]["contract"] = "sent"]
    BY <1>1 DEF Send
  <2>3. Grows(chain, chain') /\ Sent(chain', n) = Sent(chain, n) \cup {"contract"}
    BY <1>2, <2>1, <2>2, SendGrows
  <2> QED
    BY <2>3
<1>4. GoodTask(chain', task[t]) /\ task[t].pc = "deploy"
  BY <1>3, KeepRows DEF DeployAsset
<1>5. k \in TaskType /\ k.row = task[t].row /\ k.token = n /\ k.pc = "reserve"
  BY <1>2 DEF TaskType, PCs
<1>6. task' = [task EXCEPT ![t] = k]
  BY <1>1, <1>2
<1> HIDE DEF k
<1>7. GoodTask(chain', k)
  BY <1>3, <1>4, <1>5 DEF GoodTask, IssuedAt
<1>8. /\ task' \in [Tasks \cup {Worker} -> TaskType]
      /\ \A u \in Tasks \cup {Worker} : GoodTask(chain', task'[u])
  BY <1>3, <1>5, <1>6, <1>7, MoveTask
<1>9. UNCHANGED <<asset, mint, curated, now, calls, tokenFaults>>
  BY DEF DeployAsset
<1> QED
  BY <1>3, <1>8, <1>9, KeepRows DEF TokenizationInv

LEMMA IssueStep ==
  ASSUME TokenizationInv, NEW t \in Tasks, MintReserved(t) \/ DeploySale(t) \/ MintInventory(t) \/ MintFee(t)
  PROVE  TokenizationInv'
<1>1. ASSUME NEW what \in Txs, NEW pc \in {"reserve", "sale", "stock", "fee"},
             NEW next \in {"sale", "stock", "fee", "record"},
             Issue(t, pc, what, next), IssuedAt(next) \subseteq IssuedAt(pc) \cup {what}
      PROVE  TokenizationInv'
  <2>1. /\ chain \in ChainType /\ task[t].pc = pc /\ task[t].token \in TokenIds
        /\ IssuedAt(pc) \subseteq Sent(chain, task[t].token)
    BY <1>1 DEF TokenizationInv, GoodTask, Issue
  <2>2. PICK n \in TokenIds : n = task[t].token
    BY <2>1
  <2>3. Send(n, what) /\ Goto(t, next) /\ UNCHANGED <<asset, mint, curated, now, calls, tokenFaults>>
    BY <1>1, <2>2 DEF Issue
  <2>4. Grows(chain, chain') /\ Sent(chain', n) = Sent(chain, n) \cup {what}
    BY <2>1, <2>3, SendGrows DEF Send, TxStates
  <2>5. /\ task' \in [Tasks \cup {Worker} -> TaskType]
        /\ \A u \in Tasks \cup {Worker} : GoodTask(chain', task'[u])
    BY <1>1, <2>1, <2>2, <2>3, <2>4, GotoStep DEF PCs
  <2> QED
    BY <2>3, <2>4, <2>5, KeepRows DEF TokenizationInv
<1>2. CASE MintReserved(t)
  BY <1>1, <1>2 DEF MintReserved, IssuedAt, Txs, Issuance
<1>3. CASE DeploySale(t)
  BY <1>1, <1>3 DEF DeploySale, IssuedAt, Txs, Issuance
<1>4. CASE MintInventory(t)
  BY <1>1, <1>4 DEF MintInventory, IssuedAt, Txs, Issuance
<1>5. CASE MintFee(t)
  <2>1. CASE Issue(t, "fee", "fee", "record")
    BY <1>1, <2>1 DEF IssuedAt, Txs
  <2>2. CASE /\ task[t].pc = "fee" /\ Goto(t, "record")
             /\ UNCHANGED <<asset, mint, chain, curated, now, calls, tokenFaults>>
    <3>1. task[t].token \in TokenIds /\ IssuedAt("record") \subseteq Sent(chain', task[t].token)
      BY <2>2 DEF TokenizationInv, GoodTask, IssuedAt
    <3>2. /\ task' \in [Tasks \cup {Worker} -> TaskType]
          /\ \A u \in Tasks \cup {Worker} : GoodTask(chain', task'[u])
      BY <2>2, <3>1, SameGrows, GotoStep DEF PCs
    <3> QED
      BY <2>2, <3>2 DEF TokenizationInv
  <2> QED
    BY <1>5, <2>1, <2>2 DEF MintFee
<1> QED
  BY <1>2, <1>3, <1>4, <1>5

\* The chain settles what was sent.
LEMMA SettleStep ==
  ASSUME TokenizationInv, NEW n \in TokenIds, NEW x \in Txs, SettleTx(n, x)
  PROVE  TokenizationInv'
<1>1. chain \in ChainType
  BY DEF TokenizationInv
<1>2. PICK v \in TxStates \ {"no"} : chain' = [chain EXCEPT ![n][x] = v]
  BY DEF SettleTx, TxStates
<1>3. Grows(chain, chain')
  BY <1>1, <1>2, SendGrows
<1>4. UNCHANGED <<asset, mint, curated, task, now, calls, tokenFaults>>
  BY DEF SettleTx
<1> QED
  BY <1>3, <1>4, KeepRows DEF TokenizationInv

LEMMA RecordStep == ASSUME TokenizationInv, NEW t \in Tasks, RecordMint(t) PROVE TokenizationInv'
<1> DEFINE row == [task[t].row EXCEPT !.status = "MINTED", !.token = task[t].token]
<1>1. /\ task[t] \in TaskType /\ GoodTask(chain, task[t]) /\ task[t].pc = "record"
      /\ mint \in [status: {"none", "PENDING", "EXECUTED"}, signoffs: SUBSET Approvers, token: {0} \cup TokenIds]
      /\ chain \in ChainType
  BY DEF TokenizationInv, RecordMint
<1>2. task[t].token \in TokenIds /\ Issuance \subseteq Sent(chain, task[t].token)
  BY <1>1 DEF GoodTask, IssuedAt
<1>3. /\ row \in Asset /\ row.status = "MINTED" /\ row.token = task[t].token
  <2>1. task[t].row \in Asset \cup {NoAsset}
    BY <1>1 DEF GoodTask, GoodRow
  <2>2. CASE task[t].row \in Asset
    BY <1>2, <2>2 DEF Asset, Stages
  <2>3. CASE task[t].row = NoAsset
    <3>0. row = [NoAsset EXCEPT !.status = "MINTED", !.token = task[t].token]
      BY <2>3
    <3> HIDE DEF row
    <3>1. row = [status |-> "MINTED", vetted |-> FALSE, window |-> NoWindow, token |-> task[t].token]
      BY <3>0 DEF NoAsset
    <3> QED
      BY <1>2, <3>1 DEF Asset, Stages
  <2> QED
    BY <2>1, <2>2, <2>3
<1>4. GoodRow(chain, row) /\ Closed(chain, row)
  BY <1>2, <1>3 DEF GoodRow, Closed
<1>5. /\ mint' \in [status: {"none", "PENDING", "EXECUTED"}, signoffs: SUBSET Approvers, token: {0} \cup TokenIds]
      /\ mint'.token = task[t].token
  BY <1>1, <1>2 DEF RecordMint
<1>6. asset' = row /\ curated' = curated \cup {task[t].token} /\ task' = [task EXCEPT ![t] = Free]
      /\ UNCHANGED <<chain, now, calls, tokenFaults>>
  BY DEF RecordMint, Done
<1> HIDE DEF row
<1>7. /\ task' \in [Tasks \cup {Worker} -> TaskType]
      /\ \A u \in Tasks \cup {Worker} : GoodTask(chain', task'[u])
  BY <1>6, FreeIsGood, SameGrows, MoveTask
<1> QED
  BY <1>2, <1>4, <1>5, <1>6, <1>7 DEF TokenizationInv

LEMMA WorkerStepKeeps == ASSUME TokenizationInv, WorkerStep PROVE TokenizationInv'
<1>1. CASE ActivatePrimarySales
  <2>1. Exists
    BY <1>1 DEF ActivatePrimarySales, DueToOpen, Exists, NoAsset
  <2> QED
    BY <1>1, <2>1, EditsStep, EditedRow DEF ActivatePrimarySales, Stages
<1>2. CASE ActivateSecondarySales
  <2>1. Exists
    BY <1>2 DEF ActivateSecondarySales, DueToClose, Exists, NoAsset
  <2> QED
    BY <1>2, <2>1, BeginStep, EditedRow DEF ActivateSecondarySales
<1>3. CASE PauseSale
  <2> DEFINE row == task[Worker].row
  <2>1. chain \in ChainType /\ GoodRow(chain, row)
    BY DEF TokenizationInv, GoodTask
  <2>2. Goto(Worker, "save") /\ UNCHANGED <<asset, mint, curated, now, calls, tokenFaults>>
    BY <1>3 DEF PauseSale
  <2>3. Grows(chain, chain') /\ Closed(chain', row)
    <3>1. CASE row.token = 0
      BY <1>3, <3>1, SameGrows DEF PauseSale, Closed
    <3>2. CASE row.token # 0
      <4>1. PICK n \in TokenIds : n = row.token
        BY <2>1, <3>2 DEF GoodRow, Asset, NoAsset
      <4>2. chain' = [chain EXCEPT ![n]["pause"] = "sent"]
        BY <1>3, <3>2, <4>1 DEF PauseSale, Send
      <4>3. Grows(chain, chain') /\ "pause" \in Sent(chain', n)
        BY <2>1, <4>2, SendGrows DEF Txs, TxStates
      <4> QED
        BY <4>1, <4>3 DEF Closed
    <3> QED
      BY <3>1, <3>2
  <2>6. /\ task' \in [Tasks \cup {Worker} -> TaskType]
        /\ \A u \in Tasks \cup {Worker} : GoodTask(chain', task'[u])
    BY <2>2, <2>3, GotoStep DEF PCs
  <2> QED
    BY <2>2, <2>3, <2>6, KeepRows DEF TokenizationInv
<1> QED
  BY <1>1, <1>2, <1>3, SaveStep DEF WorkerStep

LEMMA FailStep ==
  ASSUME TokenizationInv, Tick \/ \E t \in Tasks \cup {Worker} : FailTask(t)
  PROVE  TokenizationInv'
<1>1. CASE Tick
  BY <1>1, BoundsAssumption DEF Tick, TokenizationInv
<1>2. ASSUME NEW t \in Tasks \cup {Worker}, FailTask(t) PROVE TokenizationInv'
  <2>1. task' = [task EXCEPT ![t] = Free] /\ UNCHANGED <<asset, mint, chain, curated, now, calls>>
    BY <1>2 DEF FailTask, Done
  <2>2. tokenFaults' \in 0..MaxFaults
    BY <1>2, BoundsAssumption DEF FailTask, TokenizationInv
  <2>3. /\ task' \in [Tasks \cup {Worker} -> TaskType]
        /\ \A u \in Tasks \cup {Worker} : GoodTask(chain', task'[u])
    BY <2>1, FreeIsGood, SameGrows, MoveTask
  <2> QED
    BY <2>1, <2>2, <2>3 DEF TokenizationInv
<1> QED
  BY <1>1, <1>2

LEMMA TokenizationInvStep == TokenizationInv /\ [TokenizationNext]_tokenizationVars => TokenizationInv'
<1> SUFFICES ASSUME TokenizationInv, [TokenizationNext]_tokenizationVars PROVE TokenizationInv'
  OBVIOUS
<1>1. CASE UNCHANGED tokenizationVars
  BY <1>1 DEF TokenizationInv, tokenizationVars
<1>2. ASSUME NEW t \in Tasks, MintingRoutes(t) PROVE TokenizationInv'
  BY <1>2, RequestMintStep, SignStep DEF MintingRoutes
<1> QED
  BY <1>1, <1>2, RoutesStep, SaveStep, SignoffStep, DeployStep, IssueStep, SettleStep, RecordStep, WorkerStepKeeps, FailStep
     DEF TokenizationNext

LEMMA TokenizationInvHolds == TokenizationSpec => []TokenizationInv
  BY TokenizationInvInit, TokenizationInvStep, PTL DEF TokenizationSpec

\* Every reachable state is well typed.
THEOREM TokenizationTyping == TokenizationSpec => []TokenizationTypeOK
<1>1. TokenizationInv => TokenizationTypeOK
  <2> SUFFICES ASSUME TokenizationInv PROVE TokenizationTypeOK
    OBVIOUS
  <2>1. asset \in Asset \cup {NoAsset}
    BY DEF TokenizationInv, GoodRow
  <2>2. task \in [Tasks \cup {Worker} -> TaskType]
    BY DEF TokenizationInv
  <2> QED
    BY <2>1, <2>2, Zenon DEF TokenizationInv, TokenizationTypeOK, TaskType, PCs, ChainType
<1> QED
  BY <1>1, TokenizationInvHolds, PTL

\* Whatever failed on the way and whichever copy was saved last, of a token that a row
\* or the list of tradeable tokens names every deployment and mint was sent.
THEOREM RecordedMintsAreSubmitted == TokenizationSpec => []RecordedMintIsSubmitted
<1>1. TokenizationInv => RecordedMintIsSubmitted
  BY TokenFacts DEF TokenizationInv, RecordedMintIsSubmitted, GoodRow, Sent
<1> QED
  BY <1>1, TokenizationInvHolds, PTL

\* No order of saves brings an asset to the secondary stage before its pause was sent.
THEOREM SecondaryFollowsPause == TokenizationSpec => []SecondaryPauseIsSent
<1>1. TokenizationInv => SecondaryPauseIsSent
  BY DEF TokenizationInv, SecondaryPauseIsSent, Closed, Sent
<1> QED
  BY <1>1, TokenizationInvHolds, PTL

\* No order of saves brings an application to the fee stages without its vetting.
THEOREM FeeStageStaysVetted == TokenizationSpec => []FeeStageIsVetted
<1>1. TokenizationInv => FeeStageIsVetted
  BY DEF TokenizationInv, FeeStageIsVetted, GoodRow
<1> QED
  BY <1>1, TokenizationInvHolds, PTL
=============================================================================
