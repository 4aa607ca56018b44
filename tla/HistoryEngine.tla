--------------------------- MODULE HistoryEngine ---------------------------
(***************************************************************************)
(* The payment history engine: two goroutines fill one table of transfers. *)
(* The live watcher scans the chain from a saved cursor for all tracked    *)
(* wallets; the tracking loop mirrors newly registered wallets and scans   *)
(* the past of each once.  Neither knows how far the other has come, so    *)
(* what is recorded depends on the order in which they read the chain's    *)
(* tip and the table of tracked wallets.                                   *)
(***************************************************************************)
EXTENDS Integers, Sequences

CONSTANTS Wallets,          \* addresses that users may register
          MaxBlock,         \* bound: blocks of the chain
          Contents,         \* what a block may contain: sets of transfers
          MaxBlocksPerPoll, \* maxBlocksPerPoll of the indexer
          ChunkSize,        \* chunkSize of the backfill
          FloorBlock,       \* where backfilling starts
          InitialCursors,   \* 0 in a new database; 1 if the watcher has run before
          MaxFaults         \* bound: failed calls and restarts

Blocks == 1..MaxBlock
\* A transfer's index is that of its log, and 0 if it is of ETH: the first log of a
\* block has index 0, too, and its transaction may also send ETH.
Transfers == [index: Nat, touches: SUBSET Wallets]

ASSUME HistoryAssumption ==
  /\ MaxBlock \in Nat \ {0} /\ MaxFaults \in Nat /\ FloorBlock \in Nat
  /\ MaxBlocksPerPoll \in Nat \ {0} /\ ChunkSize \in Nat \ {0}
  /\ InitialCursors \subseteq {0, 1}
  /\ Contents \subseteq SUBSET Transfers

VARIABLES chain,        \* the blocks mined so far, each a set of transfers
          userWallets,  \* user_wallets, which wallet-backend writes
          tracked,      \* tracked_wallets
          cursor,       \* last_block of indexer_cursors
          history,      \* payment_histories
          live,         \* the goroutine of indexer.Run
          back,         \* the goroutine of runTrackingLoop
          faults,
          liveFrom,     \* history variable: the first block the live watcher scanned
          backfilledTo  \* history variable: the tip up to which a wallet was backfilled

historyVars == <<chain, userWallets, tracked, cursor, history, live, back, faults, liveFrom, backfilledTo>>

Tip == Len(chain)
NotBackfilled == -1
\* One transaction per block: its hash and the block's number are the same thing.
Row(b, t) == [block |-> b, index |-> t.index, touches |-> t.touches]
Rows      == [block: Blocks, index: Nat, touches: SUBSET Wallets]

LiveIdle == [pc |-> "idle", tip |-> 0, from |-> 0, to |-> 0, rows |-> {}]
BackIdle == [pc |-> "idle", todo |-> {}, tip |-> 0, wallet |-> {}, from |-> 0, rows |-> {}]

HistoryInit ==
  /\ \E c \in Contents : chain = <<c>>
  /\ userWallets = {} /\ tracked = {} /\ history = {}
  /\ cursor \in InitialCursors /\ liveFrom = cursor
  /\ live = LiveIdle /\ back = BackIdle
  /\ faults = 0
  /\ backfilledTo = [w \in Wallets |-> NotBackfilled]

\* What BuildRowsForRange finds.  A number of a block that is not mined yet finds nothing.
RowsForRange(from, to, wallets) ==
  UNION {{Row(b, t) : t \in {t \in chain[b] : t.touches \cap wallets # {}}} : b \in (from..to) \cap (1..Tip)}

\* SavePaymentHistory: ON CONFLICT (transaction_hash, log_index) DO NOTHING.
SavePaymentHistory(row) ==
  history' = IF \E r \in history : r.block = row.block /\ r.index = row.index
             THEN history ELSE history \cup {row}

-----------------------------------------------------------------------------
\* RunOnce reads the tip, and the cursor that only this goroutine writes.  In a
\* new database it starts at the tip.
\* Mutant: the last range is not cut off at the tip.
LiveToFullRange(from, tip) == from + MaxBlocksPerPoll - 1
LiveTo(from, tip) == IF tip - from + 1 > MaxBlocksPerPoll THEN from + MaxBlocksPerPoll - 1 ELSE tip
LivePoll ==
  LET from == IF cursor = 0 THEN Tip ELSE cursor + 1 IN
  /\ live.pc = "idle"
  /\ from <= Tip
  /\ live' = [live EXCEPT !.pc = "wallets", !.tip = Tip, !.from = from, !.to = LiveTo(from, Tip)]
  /\ UNCHANGED <<chain, userWallets, tracked, cursor, history, back, faults, liveFrom, backfilledTo>>

\* It reads the tracked wallets only then.
LiveBuildRows ==
  /\ live.pc = "wallets"
  /\ live' = [live EXCEPT !.pc = "save", !.rows = RowsForRange(live.from, live.to, tracked)]
  /\ UNCHANGED <<chain, userWallets, tracked, cursor, history, back, faults, liveFrom, backfilledTo>>

LiveSaveRow ==
  /\ live.pc = "save"
  /\ \E row \in live.rows : /\ SavePaymentHistory(row)
                            /\ live' = [live EXCEPT !.rows = @ \ {row}]
  /\ UNCHANGED <<chain, userWallets, tracked, cursor, back, faults, liveFrom, backfilledTo>>

\* Mutant: the cursor is never saved.
LiveKeepCursor ==
  /\ live.pc = "save" /\ live.rows = {}
  /\ live' = LiveIdle
  /\ UNCHANGED <<chain, userWallets, tracked, cursor, history, back, faults, liveFrom, backfilledTo>>
LiveSaveCursor ==
  /\ live.pc = "save" /\ live.rows = {}
  /\ cursor' = live.to
  /\ liveFrom' = IF liveFrom = 0 THEN live.from ELSE liveFrom
  /\ live' = LiveIdle
  /\ UNCHANGED <<chain, userWallets, tracked, history, back, faults, backfilledTo>>

Live == LivePoll \/ LiveBuildRows \/ LiveSaveRow \/ LiveSaveCursor

\* Any call may fail, or panic: the poll is abandoned and tried again later.
LiveFails ==
  /\ live.pc # "idle" /\ faults < MaxFaults
  /\ live' = LiveIdle /\ faults' = faults + 1
  /\ UNCHANGED <<chain, userWallets, tracked, cursor, history, back, liveFrom, backfilledTo>>

-----------------------------------------------------------------------------
\* Mutant: what is newly tracked is computed after the upsert.
SweepFindsNothing ==
  /\ back.pc = "idle"
  /\ tracked' = tracked \cup userWallets
  /\ UNCHANGED <<chain, userWallets, cursor, history, live, back, faults, liveFrom, backfilledTo>>
\* Sweep.  Only this goroutine writes tracked_wallets, and a wallet registered
\* between its statements is found by the next sweep.
Sweep ==
  LET newlyTracked == userWallets \ tracked IN
  /\ back.pc = "idle"
  /\ newlyTracked # {}
  /\ tracked' = tracked \cup newlyTracked
  /\ back' = [back EXCEPT !.pc = "tip", !.todo = newlyTracked]
  /\ UNCHANGED <<chain, userWallets, cursor, history, live, faults, liveFrom, backfilledTo>>

\* Mutant: backfilling stops where the live watcher is.
BackfillToCursor ==
  /\ back.pc = "tip"
  /\ back' = [back EXCEPT !.pc = "next", !.tip = cursor]
  /\ UNCHANGED <<chain, userWallets, tracked, cursor, history, live, faults, liveFrom, backfilledTo>>
\* backfill.Wallets: one tip for all the wallets of a sweep.
BackfillTip ==
  /\ back.pc = "tip"
  /\ back' = [back EXCEPT !.pc = "next", !.tip = Tip]
  /\ UNCHANGED <<chain, userWallets, tracked, cursor, history, live, faults, liveFrom, backfilledTo>>

BackfillNext ==
  /\ back.pc = "next"
  /\ \/ /\ back.todo = {}
        /\ back' = BackIdle
     \/ \E w \in back.todo : back' = [back EXCEPT !.pc = "chunk", !.wallet = {w}, !.todo = @ \ {w},
                                                  !.from = FloorBlock]
  /\ UNCHANGED <<chain, userWallets, tracked, cursor, history, live, faults, liveFrom, backfilledTo>>

\* backfillOne's loop: one chunk, or the end.
ChunkTo == IF back.from + ChunkSize - 1 > back.tip THEN back.tip ELSE back.from + ChunkSize - 1
BackfillChunk ==
  /\ back.pc = "chunk" /\ back.from <= back.tip
  /\ back' = [back EXCEPT !.pc = "save", !.rows = RowsForRange(back.from, ChunkTo, back.wallet)]
  /\ UNCHANGED <<chain, userWallets, tracked, cursor, history, live, faults, liveFrom, backfilledTo>>
BackfillDone ==
  /\ back.pc = "chunk" /\ back.from > back.tip
  /\ back' = [back EXCEPT !.pc = "next", !.wallet = {}]
  /\ backfilledTo' = [w \in Wallets |-> IF w \in back.wallet THEN back.tip ELSE backfilledTo[w]]
  /\ UNCHANGED <<chain, userWallets, tracked, cursor, history, live, faults, liveFrom>>
BackfillSaveRow ==
  /\ back.pc = "save"
  /\ \/ \E row \in back.rows : /\ SavePaymentHistory(row)
                               /\ back' = [back EXCEPT !.rows = @ \ {row}]
     \/ /\ back.rows = {}
        /\ back' = [back EXCEPT !.pc = "chunk", !.from = @ + ChunkSize]
        /\ UNCHANGED history
  /\ UNCHANGED <<chain, userWallets, tracked, cursor, live, faults, liveFrom, backfilledTo>>

Back == Sweep \/ BackfillTip \/ BackfillNext \/ BackfillChunk \/ BackfillDone \/ BackfillSaveRow

\* Without a tip no wallet of the sweep is backfilled; a wallet's failure is its own.
BackfillFails ==
  /\ faults < MaxFaults /\ faults' = faults + 1
  /\ \/ back.pc = "tip" /\ back' = BackIdle
     \/ back.pc \in {"chunk", "save"} /\ back' = [back EXCEPT !.pc = "next", !.wallet = {}, !.rows = {}]
  /\ UNCHANGED <<chain, userWallets, tracked, cursor, history, live, liveFrom, backfilledTo>>

-----------------------------------------------------------------------------
Restart ==
  /\ faults < MaxFaults /\ faults' = faults + 1
  /\ live' = LiveIdle /\ back' = BackIdle
  /\ UNCHANGED <<chain, userWallets, tracked, cursor, history, liveFrom, backfilledTo>>

Mine == /\ Tip < MaxBlock
        /\ \E c \in Contents : chain' = Append(chain, c)
        /\ UNCHANGED <<userWallets, tracked, cursor, history, live, back, faults, liveFrom, backfilledTo>>

Register == /\ \E w \in Wallets \ userWallets : userWallets' = userWallets \cup {w}
            /\ UNCHANGED <<chain, tracked, cursor, history, live, back, faults, liveFrom, backfilledTo>>

HistoryNext == Live \/ LiveFails \/ Back \/ BackfillFails \/ Restart \/ Mine \/ Register
HistorySpec == HistoryInit /\ [][HistoryNext]_historyVars
FairHistorySpec == HistorySpec /\ WF_historyVars(Live) /\ WF_historyVars(Back)
-----------------------------------------------------------------------------
\* Every variable has its shape, no scan goes beyond the tip it read, and no two
\* rows have one key.
HistoryTypeOK ==
  /\ chain \in Seq(SUBSET Transfers) /\ Tip \in Blocks
  /\ tracked \subseteq userWallets /\ userWallets \subseteq Wallets
  /\ cursor \in 0..Tip /\ liveFrom \in 0..Tip
  /\ history \subseteq Rows
  /\ \A r, s \in history : r.block = s.block /\ r.index = s.index => r = s
  /\ live.pc \in {"idle", "wallets", "save"} /\ live.rows \subseteq Rows
  /\ live.tip \in 0..Tip /\ live.from \in 0..live.tip /\ live.to \in 0..live.tip
  /\ back.pc \in {"idle", "tip", "next", "chunk", "save"} /\ back.rows \subseteq Rows
  /\ back.todo \subseteq tracked /\ back.wallet \subseteq tracked
  /\ back.tip \in 0..Tip /\ back.from \in Nat
  /\ faults \in 0..MaxFaults
  /\ backfilledTo \in [Wallets -> {NotBackfilled} \cup 0..Tip]

\* The table has a row under the key of every transfer of the wallet's in the block, and
\* that row is a transfer of the block: this one, unless two of them have one key.
Recorded(w, b) ==
  \A t \in chain[b] : w \in t.touches =>
    \E u \in chain[b] : u.index = t.index /\ Row(b, u) \in history

\* A wallet that was backfilled misses no key of what either goroutine has
\* covered: neither up to the tip its backfill read, nor from the block at which
\* the live watcher started up to the saved cursor, although a poll under way
\* when the wallet was tracked did not look for it.
CoveredIsRecorded ==
  \A w \in Wallets, b \in 1..Tip :
    /\ backfilledTo[w] # NotBackfilled /\ FloorBlock <= b
    /\ b <= backfilledTo[w] \/ (liveFrom > 0 /\ liveFrom <= b /\ b <= cursor)
    => Recorded(w, b)

\* What PaymentHistory's comment says of the unique index: it tells every two
\* transfers apart, so that a backfill records each of a wallet's.  It does not if a
\* transaction that sends ETH has the first log of its block.
EveryTransferHasItsRow ==
  \A w \in Wallets, b \in 1..Tip : FloorBlock <= b /\ b <= backfilledTo[w] =>
    \A t \in chain[b] : w \in t.touches => Row(b, t) \in history

\* The watcher catches up with the chain again and again, whatever calls fail and
\* however often the engine restarts, as long as that ends and the chain pauses.
CursorCatchesUp == []<>(cursor = Tip)

\* Every registered wallet is backfilled, unless something failed.
WalletsGetBackfilled ==
  \A w \in Wallets : w \in userWallets ~> backfilledTo[w] # NotBackfilled \/ faults > 0
=============================================================================
