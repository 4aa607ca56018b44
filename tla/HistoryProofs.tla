--------------------------- MODULE HistoryProofs ---------------------------
(***************************************************************************)
(* Theorems about HistoryEngine, for any wallets, chain, ranges and number *)
(* of failures.                                                            *)
(***************************************************************************)
EXTENDS HistoryEngine, TLAPS

LiveStates == [pc: {"idle", "wallets", "save"}, tip: Nat, from: Nat, to: Nat, rows: SUBSET Rows]
BackStates == [pc: {"idle", "tip", "next", "chunk", "save"}, todo: SUBSET Wallets, tip: Nat,
               wallet: SUBSET Wallets, from: Nat, rows: SUBSET Rows]

\* The variables have their shape, and what was read of the chain is still there.
Shapes ==
  /\ chain \in Seq(Contents) /\ Tip \in Blocks
  /\ tracked \subseteq userWallets /\ userWallets \subseteq Wallets
  /\ cursor \in 0..Tip /\ liveFrom \in 0..Tip
  /\ live \in LiveStates /\ live.from <= live.tip /\ live.to <= live.tip /\ live.tip <= Tip
  /\ back \in BackStates /\ back.tip <= Tip
  /\ faults \in 0..MaxFaults
  /\ backfilledTo \in [Wallets -> {NotBackfilled} \cup 0..Tip]

\* Rows, recorded or about to be, are transfers of the chain.
OfChain(rows) == \A r \in rows : r.block \in 1..Tip /\ \E t \in chain[r.block] : r = Row(r.block, t)
OnlyTransfers == OfChain(history) /\ OfChain(live.rows) /\ OfChain(back.rows)

\* Rows under the key of a transfer, and what is recorded up to the keys.
HasKey(rows, b, i) == \E r \in rows : r.block = b /\ r.index = i
KeyRecorded(w, b) == \A t \in chain[b] : w \in t.touches => HasKey(history, b, t.index)

\* A wallet's backfill starts once, after it was recorded as tracked.
BackfillOnce ==
  /\ back.todo \subseteq tracked /\ back.wallet \subseteq tracked
  /\ \A w \in Wallets : backfilledTo[w] # NotBackfilled => w \in tracked /\ w \notin back.todo /\ w \notin back.wallet
  /\ back.pc \in {"idle", "tip", "next"} => back.wallet = {}
  /\ \A w \in back.wallet : w \notin back.todo

\* How far a wallet's backfill came, will come, or could still be made to come.
Horizon(w) ==
  IF backfilledTo[w] # NotBackfilled THEN backfilledTo[w]
  ELSE IF back.pc \in {"next", "chunk", "save"} /\ (w \in back.todo \/ w \in back.wallet) THEN back.tip
  ELSE Tip

\* The range of a poll starts where the saved cursor ends.
LiveRange ==
  /\ liveFrom > 0 => cursor > 0
  /\ live.pc # "idle" => /\ 1 <= live.from /\ live.from <= live.to /\ live.to <= Tip
                         /\ cursor > 0 => live.from = cursor + 1

\* What the live watcher did not record of a block it passed, or is about to
\* pass, belongs to wallets whose backfill reaches that block.
LivePassed ==
  \A w \in Wallets, b \in 1..Tip :
    liveFrom > 0 /\ liveFrom <= b /\ b <= cursor => KeyRecorded(w, b) \/ b <= Horizon(w)
LivePassing ==
  live.pc = "save" =>
    \A w \in Wallets, b \in 1..Tip :
      live.from <= b /\ b <= live.to =>
        \/ \A t \in chain[b] : w \in t.touches => HasKey(history, b, t.index) \/ HasKey(live.rows, b, t.index)
        \/ b <= Horizon(w)

\* What a backfill has passed is recorded; so is, or will be, the chunk it is in.
BackPassed ==
  /\ \A w \in Wallets, b \in 1..Tip :
        backfilledTo[w] # NotBackfilled /\ FloorBlock <= b /\ b <= backfilledTo[w] => KeyRecorded(w, b)
  /\ back.pc \in {"chunk", "save"} =>
       \A w \in back.wallet, b \in 1..Tip : FloorBlock <= b /\ b < back.from /\ b <= back.tip => KeyRecorded(w, b)
BackPassing ==
  back.pc = "save" =>
    \A w \in back.wallet, b \in 1..Tip :
      back.from <= b /\ b < back.from + ChunkSize /\ b <= back.tip =>
        \A t \in chain[b] : w \in t.touches => HasKey(history, b, t.index) \/ HasKey(back.rows, b, t.index)

HistoryInv == /\ Shapes /\ OnlyTransfers /\ BackfillOnce
              /\ LiveRange /\ LivePassed /\ LivePassing
              /\ BackPassed /\ BackPassing
-----------------------------------------------------------------------------
\* The unique index drops a row only if there is one under its key.
LEMMA SaveAdds ==
  ASSUME NEW row, SavePaymentHistory(row)
  PROVE  /\ history \subseteq history' /\ history' \subseteq history \cup {row}
         /\ HasKey(history', row.block, row.index)
BY DEF SavePaymentHistory, HasKey

\* The chain and the history only grow.
Grows == /\ history \subseteq history' /\ Tip <= Tip'
         /\ \A b \in 1..Tip : chain'[b] = chain[b]

LEMMA RecordedStays ==
  ASSUME Grows, NEW w, NEW b \in 1..Tip, KeyRecorded(w, b)
  PROVE  KeyRecorded(w, b)'
BY DEF Grows, KeyRecorded, HasKey

LEMMA OfChainStays ==
  ASSUME Shapes, Grows, NEW rows, OfChain(rows)
  PROVE  \A r \in rows : r.block \in 1..Tip' /\ \E t \in chain'[r.block] : r = Row(r.block, t)
<1>1. Tip \in Nat /\ Tip' \in Int /\ Tip <= Tip'
  BY DEF Shapes, Grows, Blocks, Tip
<1> QED
  BY <1>1 DEF Grows, OfChain

LEMMA HorizonBound ==
  ASSUME Shapes, NEW w \in Wallets
  PROVE  Horizon(w) \in 0..Tip /\ Tip \in Nat
BY DEF Shapes, Horizon, BackStates, Blocks, NotBackfilled

\* A step of the live watcher or of the chain brings no horizon nearer.
LEMMA HorizonKept ==
  ASSUME Shapes, Shapes', Grows, UNCHANGED <<back, backfilledTo>>, NEW w \in Wallets
  PROVE  Horizon(w) <= Horizon(w)'
<1>1. Horizon(w) \in 0..Tip /\ Tip \in Nat /\ Tip' \in Nat
  BY HorizonBound DEF Shapes, Blocks
<1> QED
  BY <1>1 DEF Grows, Horizon

\* What the live watcher has passed stays accounted for.
LEMMA PassedKept ==
  ASSUME Shapes, Shapes', LivePassed, Grows, \A w \in Wallets : Horizon(w) <= Horizon(w)',
         UNCHANGED <<cursor, liveFrom>>
  PROVE  LivePassed'
<1>1. /\ Tip \in Nat /\ Tip' \in Nat /\ cursor \in 0..Tip
      /\ cursor' = cursor /\ liveFrom' = liveFrom
  BY DEF Shapes, Blocks
<1>2. ASSUME NEW w \in Wallets PROVE Horizon(w) \in Int /\ Horizon(w)' \in Int
  BY <1>1 DEF Shapes, Horizon, BackStates, Blocks, NotBackfilled
<1>3. ASSUME NEW w \in Wallets, NEW b \in 1..Tip', (liveFrom > 0 /\ liveFrom <= b /\ b <= cursor)'
      PROVE  (KeyRecorded(w, b) \/ b <= Horizon(w))'
  <2>1. b \in 1..Tip /\ b \in Int
    BY <1>1, <1>3
  <2>2. KeyRecorded(w, b) \/ b <= Horizon(w)
    BY <1>1, <1>3, <2>1 DEF LivePassed
  <2>3. KeyRecorded(w, b) => KeyRecorded(w, b)'
    BY <2>1, RecordedStays
  <2> QED
    BY <1>2, <2>1, <2>2, <2>3
<1> QED
  BY <1>3 DEF LivePassed

\* A step that leaves the live watcher alone keeps its invariants.
LEMMA LiveKept ==
  ASSUME Shapes, Shapes', LiveRange, LivePassed, LivePassing, Grows,
         \A w \in Wallets : Horizon(w) <= Horizon(w)',
         UNCHANGED <<cursor, liveFrom, live>>
  PROVE  LiveRange' /\ LivePassed' /\ LivePassing'
<1>1. /\ Tip \in Nat /\ Tip' \in Nat /\ Tip <= Tip'
      /\ live.from \in Nat /\ live.to \in Nat
      /\ live.pc # "idle" => live.to <= Tip
  BY DEF Shapes, Blocks, Grows, LiveStates, LiveRange
<1>2. cursor' = cursor /\ liveFrom' = liveFrom /\ live' = live
  OBVIOUS
<1>3. LiveRange'
  BY <1>1, <1>2 DEF LiveRange
<1>4. ASSUME NEW w \in Wallets PROVE Horizon(w) \in Int /\ Horizon(w)' \in Int
  BY <1>1 DEF Shapes, Horizon, BackStates, Blocks, NotBackfilled
<1>5. ASSUME live.pc = "save", NEW w \in Wallets, NEW b \in 1..Tip', live.from <= b /\ b <= live.to
      PROVE  \/ \A t \in chain'[b] : w \in t.touches => HasKey(history', b, t.index) \/ HasKey(live.rows, b, t.index)
             \/ b <= Horizon(w)'
  <2>1. b \in 1..Tip /\ b \in Int
    BY <1>1, <1>5
  <2>2. \/ \A t \in chain[b] : w \in t.touches => HasKey(history, b, t.index) \/ HasKey(live.rows, b, t.index)
        \/ b <= Horizon(w)
    BY <1>5, <2>1 DEF LivePassing
  <2>3. chain'[b] = chain[b] /\ \A i : HasKey(history, b, i) => HasKey(history', b, i)
    BY <2>1 DEF Grows, HasKey
  <2>4. b <= Horizon(w) => b <= Horizon(w)'
    BY <1>4, <2>1
  <2> QED
    BY <2>2, <2>3, <2>4
<1>6. LivePassed'
  BY PassedKept
<1>7. LivePassing'
  BY <1>5 DEF LivePassing, HasKey
<1> QED
  BY <1>3, <1>6, <1>7

\* A step that leaves the backfill alone keeps its invariants.
LEMMA BackKept ==
  ASSUME Shapes, Shapes', BackPassed, BackPassing, Grows, UNCHANGED <<back, backfilledTo>>
  PROVE  BackPassed' /\ BackPassing'
<1>1. /\ Tip \in Nat /\ Tip' \in Nat /\ back.tip \in Nat /\ back.tip <= Tip
      /\ back.from \in Nat /\ ChunkSize \in Nat /\ FloorBlock \in Nat
      /\ \A w \in Wallets : backfilledTo[w] # NotBackfilled => backfilledTo[w] \in 0..Tip
  BY HistoryAssumption DEF Shapes, Blocks, BackStates
<1>2. ASSUME NEW w \in Wallets, NEW b \in 1..Tip',
             backfilledTo[w] # NotBackfilled /\ FloorBlock <= b /\ b <= backfilledTo[w]
      PROVE  KeyRecorded(w, b)'
  <2>1. b \in 1..Tip
    BY <1>1, <1>2
  <2> QED
    BY <1>2, <2>1, RecordedStays DEF BackPassed
<1>3. ASSUME back.pc \in {"chunk", "save"}, NEW w \in back.wallet, NEW b \in 1..Tip',
             FloorBlock <= b /\ b < back.from /\ b <= back.tip
      PROVE  KeyRecorded(w, b)'
  <2>1. b \in 1..Tip
    BY <1>1, <1>3
  <2> QED
    BY <1>3, <2>1, RecordedStays DEF BackPassed
<1>4. ASSUME back.pc = "save", NEW w \in back.wallet, NEW b \in 1..Tip',
             back.from <= b /\ b < back.from + ChunkSize /\ b <= back.tip
      PROVE  \A t \in chain'[b] : w \in t.touches => HasKey(history', b, t.index) \/ HasKey(back.rows, b, t.index)
  <2>1. b \in 1..Tip
    BY <1>1, <1>4
  <2>2. chain'[b] = chain[b] /\ \A i : HasKey(history, b, i) => HasKey(history', b, i)
    BY <2>1 DEF Grows, HasKey
  <2> QED
    BY <1>4, <2>1, <2>2 DEF BackPassing
<1>5. BackPassed'
  BY <1>2, <1>3 DEF BackPassed
<1>6. BackPassing'
  BY <1>4 DEF BackPassing, HasKey
<1> QED
  BY <1>5, <1>6

\* Scanning finds transfers of the chain, and all those of the wallets it is for.
LEMMA RangeFinds ==
  ASSUME Shapes, NEW from \in Nat, NEW to \in Nat, NEW wallets
  PROVE  /\ RowsForRange(from, to, wallets) \subseteq Rows
         /\ OfChain(RowsForRange(from, to, wallets))
         /\ \A w \in wallets, b \in 1..Tip : from <= b /\ b <= to =>
              \A t \in chain[b] : w \in t.touches => HasKey(RowsForRange(from, to, wallets), b, t.index)
<1>1. Tip \in Nat /\ 1..Tip \subseteq Blocks
  BY HistoryAssumption DEF Shapes, Blocks
<1>2. \A b \in 1..Tip : chain[b] \in Contents /\ chain[b] \subseteq Transfers
  BY HistoryAssumption DEF Shapes, Tip
<1>3. ASSUME NEW r \in RowsForRange(from, to, wallets)
      PROVE  r \in Rows /\ r.block \in 1..Tip /\ \E t \in chain[r.block] : r = Row(r.block, t)
  <2>1. PICK b \in 1..Tip : \E t \in chain[b] : r = Row(b, t)
    BY <1>3 DEF RowsForRange
  <2>2. PICK t \in chain[b] : r = Row(b, t)
    BY <2>1
  <2>3. t \in Transfers
    BY <1>2
  <2> QED
    BY <1>1, <2>1, <2>2, <2>3 DEF Row, Rows, Transfers
<1>4. ASSUME NEW w \in wallets, NEW b \in 1..Tip, from <= b, b <= to, NEW t \in chain[b], w \in t.touches
      PROVE  HasKey(RowsForRange(from, to, wallets), b, t.index)
  <2>1. Row(b, t) \in RowsForRange(from, to, wallets)
    BY <1>1, <1>4 DEF RowsForRange
  <2>2. Row(b, t).block = b /\ Row(b, t).index = t.index
    BY DEF Row
  <2> QED
    BY <2>1, <2>2 DEF HasKey
<1> QED
  BY <1>3, <1>4 DEF OfChain
-----------------------------------------------------------------------------
LEMMA HistoryInitially == HistoryInit => HistoryInv
<1> SUFFICES ASSUME HistoryInit PROVE HistoryInv
  OBVIOUS
<1>1. chain \in Seq(Contents) /\ Tip = 1
  BY DEF HistoryInit, Tip
<1>2. live \in LiveStates /\ live.pc = "idle" /\ live.tip = 0 /\ live.from = 0 /\ live.to = 0 /\ live.rows = {}
  BY DEF HistoryInit, LiveIdle, LiveStates
<1>3. back \in BackStates /\ back.pc = "idle" /\ back.todo = {} /\ back.wallet = {} /\ back.tip = 0 /\ back.rows = {}
  BY DEF HistoryInit, BackIdle, BackStates
<1>4. cursor \in 0..1 /\ liveFrom = cursor
  BY HistoryAssumption DEF HistoryInit
<1>5. backfilledTo = [w \in Wallets |-> NotBackfilled] /\ tracked = {} /\ userWallets = {} /\ history = {} /\ faults = 0
  BY DEF HistoryInit
<1>6. Shapes
  BY <1>1, <1>2, <1>3, <1>4, <1>5, HistoryAssumption DEF Shapes, Blocks
<1>7. OnlyTransfers /\ BackfillOnce /\ LiveRange
  BY <1>2, <1>3, <1>4, <1>5 DEF OnlyTransfers, OfChain, BackfillOnce, LiveRange
<1>8. LivePassed
  BY <1>1, <1>3, <1>5 DEF LivePassed, Horizon
<1>9. LivePassing /\ BackPassed /\ BackPassing
  BY <1>2, <1>3, <1>5 DEF LivePassing, BackPassed, BackPassing
<1> QED
  BY <1>6, <1>7, <1>8, <1>9 DEF HistoryInv

\* A step of the live watcher or of the chain leaves the backfill's part alone.
LEMMA LiveStep ==
  ASSUME HistoryInv, Shapes', OnlyTransfers', Grows, UNCHANGED <<back, backfilledTo, tracked>>,
         LiveRange', LivePassed', LivePassing'
  PROVE  HistoryInv'
<1>1. BackPassed' /\ BackPassing'
  BY BackKept DEF HistoryInv
<1>2. BackfillOnce'
  BY DEF HistoryInv, BackfillOnce
<1> QED
  BY <1>1, <1>2 DEF HistoryInv

\* A step of the tracking loop leaves the live watcher's part alone.
LEMMA BackStep ==
  ASSUME HistoryInv, Shapes', OnlyTransfers', BackfillOnce', Grows,
         \A w \in Wallets : Horizon(w) <= Horizon(w)',
         UNCHANGED <<cursor, liveFrom, live>>, BackPassed', BackPassing'
  PROVE  HistoryInv'
BY LiveKept DEF HistoryInv

\* A step that leaves the tables of transfers and blocks alone.
LEMMA SameTables ==
  ASSUME Shapes, UNCHANGED <<chain, history>>
  PROVE  Grows /\ Tip' = Tip
BY DEF Grows, Tip, Shapes, Blocks

LEMMA LivePollKeeps == HistoryInv /\ LivePoll => HistoryInv'
<1> SUFFICES ASSUME HistoryInv, LivePoll PROVE HistoryInv'
  OBVIOUS
<1> DEFINE from == IF cursor = 0 THEN Tip ELSE cursor + 1
           to   == LiveTo(from, Tip)
<1>1. /\ Shapes /\ Grows /\ Tip' = Tip /\ Tip \in Nat /\ Tip >= 1
      /\ cursor \in 0..Tip /\ MaxBlocksPerPoll \in Nat \ {0} /\ ChunkSize \in Nat
  BY SameTables, HistoryAssumption DEF LivePoll, HistoryInv, Shapes, Blocks
<1>2. /\ from \in 1..Tip /\ to \in from..Tip
      /\ cursor > 0 => from = cursor + 1
  BY <1>1 DEF LivePoll, LiveTo
<1>2a. from \in Nat /\ to \in Nat
  BY <1>1, <1>2
<1>3. live' = [live EXCEPT !.pc = "wallets", !.tip = Tip, !.from = from, !.to = to]
  BY DEF LivePoll
<1>4. live \in LiveStates
  BY DEF HistoryInv, Shapes
<1> HIDE DEF from, to
<1>5. /\ live' \in LiveStates /\ live'.pc = "wallets" /\ live'.tip = Tip /\ live'.from = from
      /\ live'.to = to /\ live'.rows = live.rows
  BY <1>1, <1>2a, <1>3, <1>4 DEF LiveStates
<1>6. Shapes'
  BY <1>1, <1>2, <1>5 DEF LivePoll, HistoryInv, Shapes
<1>7. OnlyTransfers'
  BY <1>1, <1>5 DEF LivePoll, HistoryInv, OnlyTransfers, OfChain, Row
<1>8. LiveRange' /\ LivePassing'
  BY <1>1, <1>2, <1>5 DEF LivePoll, HistoryInv, LiveRange, LivePassing
<1>9. LivePassed'
  BY <1>1, <1>6, HorizonKept, PassedKept DEF LivePoll, HistoryInv
<1> QED
  BY <1>1, <1>6, <1>7, <1>8, <1>9, LiveStep DEF LivePoll

\* What is not tracked when the rows are built has its whole backfill before it.
LEMMA LiveBuildRowsKeeps == HistoryInv /\ LiveBuildRows => HistoryInv'
<1> SUFFICES ASSUME HistoryInv, LiveBuildRows PROVE HistoryInv'
  OBVIOUS
<1> DEFINE rows == RowsForRange(live.from, live.to, tracked)
<1>1. /\ Shapes /\ Grows /\ Tip' = Tip /\ Tip \in Nat /\ live \in LiveStates
      /\ live.from \in Nat /\ live.to \in Nat
  BY SameTables DEF LiveBuildRows, HistoryInv, Shapes, Blocks, LiveStates
<1>2. /\ rows \subseteq Rows /\ OfChain(rows)
      /\ \A w \in tracked, b \in 1..Tip : live.from <= b /\ b <= live.to =>
           \A t \in chain[b] : w \in t.touches => HasKey(rows, b, t.index)
  BY <1>1, RangeFinds
<1>3. live' = [live EXCEPT !.pc = "save", !.rows = rows]
  BY DEF LiveBuildRows
<1>4. /\ live' \in LiveStates /\ live'.pc = "save" /\ live'.tip = live.tip /\ live'.from = live.from
      /\ live'.to = live.to /\ live'.rows = rows
  BY <1>1, <1>2, <1>3 DEF LiveStates
<1>5. Shapes'
  BY <1>1, <1>4 DEF LiveBuildRows, HistoryInv, Shapes
<1>6. OnlyTransfers'
  BY <1>1, <1>2, <1>4 DEF LiveBuildRows, HistoryInv, OnlyTransfers, OfChain, Row
<1>7. LiveRange'
  BY <1>1, <1>4 DEF LiveBuildRows, HistoryInv, LiveRange
<1>8. LivePassed'
  BY <1>1, <1>5, HorizonKept, PassedKept DEF LiveBuildRows, HistoryInv
<1>9. ASSUME NEW w \in Wallets, NEW b \in 1..Tip, live.from <= b, b <= live.to
      PROVE  \/ \A t \in chain[b] : w \in t.touches => HasKey(rows, b, t.index)
             \/ b <= Horizon(w)
  <2>1. CASE w \in tracked
    BY <1>2, <1>9, <2>1
  <2>2. CASE w \notin tracked
    <3>1. Horizon(w) = Tip
      BY <2>2 DEF Horizon, HistoryInv, BackfillOnce
    <3> QED
      BY <3>1
  <2> QED
    BY <2>1, <2>2
<1>10. \A w \in Wallets : Horizon(w)' = Horizon(w)
  BY <1>1 DEF Horizon, LiveBuildRows
<1>11. LivePassing'
  BY <1>1, <1>4, <1>9, <1>10 DEF LivePassing, LiveBuildRows, HasKey
<1> QED
  BY <1>1, <1>5, <1>6, <1>7, <1>8, <1>11, LiveStep DEF LiveBuildRows

LEMMA LiveSaveRowKeeps == HistoryInv /\ LiveSaveRow => HistoryInv'
<1> SUFFICES ASSUME HistoryInv, LiveSaveRow PROVE HistoryInv'
  OBVIOUS
<1>1. PICK row \in live.rows : SavePaymentHistory(row) /\ live' = [live EXCEPT !.rows = @ \ {row}]
  BY DEF LiveSaveRow
<1>2. Shapes /\ live \in LiveStates /\ Tip \in Nat /\ Tip' = Tip
  BY DEF LiveSaveRow, HistoryInv, Shapes, Blocks, Tip
<1>3. OfChain(history) /\ OfChain({row}) /\ OfChain(live.rows) /\ OfChain(back.rows)
  BY DEF HistoryInv, OnlyTransfers, OfChain
<1>4. /\ history \subseteq history' /\ history' \subseteq history \cup {row}
      /\ HasKey(history', row.block, row.index)
  BY <1>1, SaveAdds
<1>5. Grows
  BY <1>2, <1>4 DEF Grows, LiveSaveRow
<1>6. /\ live' \in LiveStates /\ live'.pc = "save" /\ live'.tip = live.tip /\ live'.from = live.from
      /\ live'.to = live.to /\ live'.rows = live.rows \ {row}
  BY <1>1, <1>2 DEF LiveStates, LiveSaveRow
<1>7. Shapes'
  BY <1>2, <1>6 DEF LiveSaveRow, HistoryInv, Shapes
<1>8. OnlyTransfers'
  BY <1>2, <1>3, <1>4, <1>6 DEF LiveSaveRow, OnlyTransfers, OfChain, Row
<1>9. LiveRange'
  BY <1>2, <1>6 DEF LiveSaveRow, HistoryInv, LiveRange
<1>10. LivePassed'
  BY <1>2, <1>5, <1>7, HorizonKept, PassedKept DEF LiveSaveRow, HistoryInv
<1>11. \A w \in Wallets : Horizon(w)' = Horizon(w)
  BY <1>2 DEF Horizon, LiveSaveRow
<1>12. /\ live.pc = "save"
       /\ \A b, i : HasKey(history, b, i) \/ HasKey(live.rows, b, i)
                   => HasKey(history', b, i) \/ HasKey(live'.rows, b, i)
  BY <1>4, <1>6 DEF LiveSaveRow, HasKey
<1>13. LivePassing'
  BY <1>2, <1>6, <1>11, <1>12 DEF HistoryInv, LivePassing, LiveSaveRow, HasKey
<1> QED
  BY <1>5, <1>7, <1>8, <1>9, <1>10, <1>13, LiveStep DEF LiveSaveRow

LEMMA LiveSaveCursorKeeps == HistoryInv /\ LiveSaveCursor => HistoryInv'
<1> SUFFICES ASSUME HistoryInv, LiveSaveCursor PROVE HistoryInv'
  OBVIOUS
<1>1. /\ Shapes /\ Grows /\ Tip' = Tip /\ Tip \in Nat /\ live \in LiveStates
      /\ cursor \in 0..Tip /\ liveFrom \in 0..Tip /\ live.from \in Nat /\ live.to \in Nat
  BY SameTables DEF LiveSaveCursor, HistoryInv, Shapes, Blocks, LiveStates
<1>2. /\ 1 <= live.from /\ live.from <= live.to /\ live.to <= Tip
      /\ cursor > 0 => live.from = cursor + 1
      /\ liveFrom > 0 => cursor > 0
  BY DEF LiveSaveCursor, HistoryInv, LiveRange
<1>3. live' \in LiveStates /\ live'.pc = "idle" /\ live'.tip = 0 /\ live'.from = 0 /\ live'.to = 0 /\ live'.rows = {}
  BY DEF LiveSaveCursor, LiveIdle, LiveStates
<1>4. cursor' = live.to /\ liveFrom' = IF liveFrom = 0 THEN live.from ELSE liveFrom
  BY DEF LiveSaveCursor
<1>5. Shapes'
  BY <1>1, <1>2, <1>3, <1>4 DEF LiveSaveCursor, HistoryInv, Shapes
<1>6. OnlyTransfers'
  BY <1>1, <1>3 DEF LiveSaveCursor, HistoryInv, OnlyTransfers, OfChain, Row
<1>7. LiveRange' /\ LivePassing'
  BY <1>1, <1>2, <1>3, <1>4 DEF LiveRange, LivePassing
<1>8. \A w \in Wallets : Horizon(w)' = Horizon(w)
  BY <1>1 DEF Horizon, LiveSaveCursor
<1>9. ASSUME NEW w \in Wallets, NEW b \in 1..Tip, liveFrom' > 0, liveFrom' <= b, b <= cursor'
      PROVE  KeyRecorded(w, b) \/ b <= Horizon(w)
  <2>1. CASE b >= live.from
    <3>1. live.pc = "save" /\ live.rows = {} /\ live.from <= b /\ b <= live.to
      BY <1>1, <1>4, <1>9, <2>1 DEF LiveSaveCursor
    <3> QED
      BY <3>1 DEF HistoryInv, LivePassing, KeyRecorded, HasKey
  <2>2. CASE ~(b >= live.from)
    <3>1. liveFrom > 0 /\ liveFrom <= b /\ b <= cursor
      BY <1>1, <1>2, <1>4, <1>9, <2>2
    <3> QED
      BY <3>1 DEF HistoryInv, LivePassed
  <2> QED
    BY <2>1, <2>2
<1>10. \A w \in Wallets, b \in 1..Tip : KeyRecorded(w, b) => KeyRecorded(w, b)'
  BY <1>1, RecordedStays
<1>11. LivePassed'
  BY <1>1, <1>8, <1>9, <1>10 DEF LivePassed
<1> QED
  BY <1>1, <1>5, <1>6, <1>7, <1>11, LiveStep DEF LiveSaveCursor
-----------------------------------------------------------------------------
\* What is to be shown of a step of the tracking loop that neither records nor
\* backfills anything.
LEMMA QuietBackStep ==
  ASSUME HistoryInv, UNCHANGED <<chain, history, cursor, liveFrom, live, backfilledTo>>,
         Shapes', OfChain(back'.rows), BackfillOnce', BackPassed', BackPassing',
         \A w \in Wallets : Horizon(w) <= Horizon(w)'
  PROVE  HistoryInv'
<1>1. Grows /\ Tip' = Tip
  BY SameTables DEF HistoryInv
<1>2. OnlyTransfers'
  BY <1>1 DEF HistoryInv, OnlyTransfers, OfChain, Row
<1> QED
  BY <1>1, <1>2, BackStep

\* The invariants of the backfill when no wallet is under way.
LEMMA NoWallet ==
  ASSUME HistoryInv, UNCHANGED <<chain, history, backfilledTo>>, back'.pc \notin {"chunk", "save"}
  PROVE  BackPassed' /\ BackPassing'
<1>1. Tip' = Tip
  BY DEF Tip
<1> QED
  BY <1>1 DEF HistoryInv, BackPassed, BackPassing, KeyRecorded, HasKey

LEMMA SweepKeeps == HistoryInv /\ Sweep => HistoryInv'
<1> SUFFICES ASSUME HistoryInv, Sweep PROVE HistoryInv'
  OBVIOUS
<1> DEFINE newlyTracked == userWallets \ tracked
<1>1. /\ Shapes /\ BackfillOnce /\ back \in BackStates /\ Tip \in Nat /\ Tip' = Tip
      /\ newlyTracked \subseteq Wallets /\ OfChain(back.rows)
  BY DEF Sweep, HistoryInv, OnlyTransfers, Shapes, Blocks, Tip
<1>2. back' = [back EXCEPT !.pc = "tip", !.todo = newlyTracked]
  BY DEF Sweep
<1>3. /\ back' \in BackStates /\ back'.pc = "tip" /\ back'.todo = newlyTracked /\ back'.tip = back.tip
      /\ back'.wallet = back.wallet /\ back'.from = back.from /\ back'.rows = back.rows
  BY <1>1, <1>2 DEF BackStates
<1>4. Shapes'
  BY <1>1, <1>3 DEF Sweep, Shapes
<1>5. BackfillOnce'
  BY <1>1, <1>3 DEF Sweep, BackfillOnce
<1>6. \A w \in Wallets : Horizon(w) <= Horizon(w)'
  BY <1>1, <1>3, HorizonBound DEF Sweep, Horizon
<1>7. BackPassed' /\ BackPassing'
  BY <1>3, NoWallet DEF Sweep
<1> QED
  BY <1>1, <1>3, <1>4, <1>5, <1>6, <1>7, QuietBackStep DEF Sweep

LEMMA BackfillTipKeeps == HistoryInv /\ BackfillTip => HistoryInv'
<1> SUFFICES ASSUME HistoryInv, BackfillTip PROVE HistoryInv'
  OBVIOUS
<1>1. /\ Shapes /\ BackfillOnce /\ back \in BackStates /\ Tip \in Nat /\ Tip' = Tip /\ OfChain(back.rows)
  BY DEF BackfillTip, HistoryInv, OnlyTransfers, Shapes, Blocks, Tip
<1>2. back' = [back EXCEPT !.pc = "next", !.tip = Tip]
  BY DEF BackfillTip
<1>3. /\ back' \in BackStates /\ back'.pc = "next" /\ back'.todo = back.todo /\ back'.tip = Tip
      /\ back'.wallet = back.wallet /\ back'.from = back.from /\ back'.rows = back.rows
  BY <1>1, <1>2 DEF BackStates
<1>4. Shapes'
  BY <1>1, <1>3 DEF BackfillTip, Shapes
<1>5. BackfillOnce'
  BY <1>1, <1>3 DEF BackfillTip, BackfillOnce
<1>6. \A w \in Wallets : Horizon(w) <= Horizon(w)'
  BY <1>1, <1>3, HorizonBound DEF BackfillTip, Horizon
<1>7. BackPassed' /\ BackPassing'
  BY <1>3, NoWallet DEF BackfillTip
<1> QED
  BY <1>1, <1>3, <1>4, <1>5, <1>6, <1>7, QuietBackStep DEF BackfillTip

LEMMA BackfillNextKeeps == HistoryInv /\ BackfillNext => HistoryInv'
<1> SUFFICES ASSUME HistoryInv, BackfillNext PROVE HistoryInv'
  OBVIOUS
<1>0. /\ back.pc = "next"
      /\ UNCHANGED <<chain, userWallets, tracked, cursor, history, live, faults, liveFrom, backfilledTo>>
  BY DEF BackfillNext
<1>1. /\ Shapes /\ BackfillOnce /\ back \in BackStates /\ back.wallet = {} /\ back.pc = "next"
      /\ Tip \in Nat /\ Tip' = Tip /\ OfChain(back.rows) /\ FloorBlock \in Nat
      /\ UNCHANGED <<chain, userWallets, tracked, cursor, history, live, faults, liveFrom, backfilledTo>>
  BY <1>0, HistoryAssumption DEF HistoryInv, OnlyTransfers, BackfillOnce, Shapes, Blocks, Tip
<1>2. CASE back.todo = {} /\ back' = BackIdle
  <2>1. /\ back' \in BackStates /\ back'.pc = "idle" /\ back'.todo = {} /\ back'.tip = 0
        /\ back'.wallet = {} /\ back'.rows = {}
    BY <1>2 DEF BackIdle, BackStates
  <2>2. Shapes'
    BY <1>1, <2>1 DEF Shapes
  <2>3. BackfillOnce' /\ OfChain(back'.rows)
    BY <1>1, <2>1 DEF BackfillOnce, OfChain
  <2>4. \A w \in Wallets : Horizon(w) <= Horizon(w)'
    BY <1>1, <1>2, <2>1, HorizonBound DEF Horizon
  <2>5. BackPassed' /\ BackPassing'
    BY <1>1, <2>1, NoWallet
  <2> QED
    BY <1>1, <2>2, <2>3, <2>4, <2>5, QuietBackStep
<1>3. ASSUME NEW w \in back.todo,
             back' = [back EXCEPT !.pc = "chunk", !.wallet = {w}, !.todo = @ \ {w}, !.from = FloorBlock]
      PROVE  HistoryInv'
  <2>1. /\ back' \in BackStates /\ back'.pc = "chunk" /\ back'.todo = back.todo \ {w} /\ back'.tip = back.tip
        /\ back'.wallet = {w} /\ back'.from = FloorBlock /\ back'.rows = back.rows
    BY <1>1, <1>3 DEF BackStates
  <2>2. Shapes'
    BY <1>1, <2>1 DEF Shapes
  <2>3. BackfillOnce' /\ OfChain(back'.rows)
    BY <1>1, <2>1 DEF BackfillOnce
  <2>4. \A u \in Wallets : Horizon(u) <= Horizon(u)'
    BY <1>1, <2>1, HorizonBound DEF Horizon
  <2>5. BackPassed' /\ BackPassing'
    BY <1>1, <2>1 DEF HistoryInv, BackPassed, BackPassing, KeyRecorded, HasKey
  <2> QED
    BY <1>1, <2>2, <2>3, <2>4, <2>5, QuietBackStep
<1> QED
  BY <1>2, <1>3 DEF BackfillNext

LEMMA BackfillChunkKeeps == HistoryInv /\ BackfillChunk => HistoryInv'
<1> SUFFICES ASSUME HistoryInv, BackfillChunk PROVE HistoryInv'
  OBVIOUS
<1> DEFINE rows == RowsForRange(back.from, ChunkTo, back.wallet)
<1>1. /\ Shapes /\ BackfillOnce /\ back \in BackStates /\ back.pc = "chunk" /\ back.from <= back.tip
      /\ Tip \in Nat /\ Tip' = Tip /\ back.from \in Nat /\ back.tip \in Nat /\ ChunkSize \in Nat \ {0}
      /\ UNCHANGED <<chain, userWallets, tracked, cursor, history, live, faults, liveFrom, backfilledTo>>
  BY HistoryAssumption DEF BackfillChunk, HistoryInv, Shapes, Blocks, Tip, BackStates
<1>2. /\ ChunkTo \in Nat
      /\ \A b \in 1..Tip : b < back.from + ChunkSize /\ b <= back.tip => b <= ChunkTo
  BY <1>1 DEF ChunkTo
<1>3. /\ rows \subseteq Rows /\ OfChain(rows)
      /\ \A w \in back.wallet, b \in 1..Tip : back.from <= b /\ b <= ChunkTo =>
           \A t \in chain[b] : w \in t.touches => HasKey(rows, b, t.index)
  BY <1>1, <1>2, RangeFinds
<1>4. back' = [back EXCEPT !.pc = "save", !.rows = rows]
  BY DEF BackfillChunk
<1>5. /\ back' \in BackStates /\ back'.pc = "save" /\ back'.todo = back.todo /\ back'.tip = back.tip
      /\ back'.wallet = back.wallet /\ back'.from = back.from /\ back'.rows = rows
  BY <1>1, <1>3, <1>4 DEF BackStates
<1> HIDE DEF rows
<1>6. Shapes'
  BY <1>1, <1>5 DEF Shapes
<1>7. BackfillOnce' /\ OfChain(back'.rows)
  BY <1>1, <1>3, <1>5 DEF BackfillOnce
<1>8. \A w \in Wallets : Horizon(w) <= Horizon(w)'
  BY <1>1, <1>5, HorizonBound DEF Horizon
<1>9. BackPassed'
  BY <1>1, <1>5 DEF HistoryInv, BackPassed, KeyRecorded, HasKey
<1>10. BackPassing'
  BY <1>1, <1>2, <1>3, <1>5 DEF BackPassing, HasKey
<1> QED
  BY <1>1, <1>6, <1>7, <1>8, <1>9, <1>10, QuietBackStep
LEMMA BackfillDoneKeeps == HistoryInv /\ BackfillDone => HistoryInv'
<1> SUFFICES ASSUME HistoryInv, BackfillDone PROVE HistoryInv'
  OBVIOUS
<1>0. /\ back.pc = "chunk" /\ back.from > back.tip
      /\ back' = [back EXCEPT !.pc = "next", !.wallet = {}]
      /\ backfilledTo' = [w \in Wallets |-> IF w \in back.wallet THEN back.tip ELSE backfilledTo[w]]
      /\ UNCHANGED <<chain, userWallets, tracked, cursor, history, live, faults, liveFrom>>
  BY DEF BackfillDone
<1>1. /\ Shapes /\ BackfillOnce /\ OnlyTransfers /\ back \in BackStates
      /\ Tip \in Nat /\ Tip' = Tip /\ Grows
      /\ back.tip \in 0..Tip /\ back.from \in Nat /\ back.wallet \subseteq Wallets
  BY <1>0, SameTables DEF HistoryInv, Shapes, Blocks, Tip, BackStates
<1>2. /\ back' \in BackStates /\ back'.pc = "next" /\ back'.todo = back.todo /\ back'.tip = back.tip
      /\ back'.wallet = {} /\ back'.from = back.from /\ back'.rows = back.rows
  BY <1>0, <1>1 DEF BackStates
<1>3. \A w \in Wallets : backfilledTo'[w] = IF w \in back.wallet THEN back.tip ELSE backfilledTo[w]
  BY <1>0
<1>4. backfilledTo' \in [Wallets -> {NotBackfilled} \cup 0..Tip]
  BY <1>0, <1>1 DEF Shapes
<1>5. Shapes'
  BY <1>0, <1>1, <1>2, <1>4 DEF Shapes
<1>6. OnlyTransfers'
  BY <1>0, <1>1, <1>2 DEF OnlyTransfers, OfChain, Row
<1>7. BackfillOnce'
  BY <1>0, <1>1, <1>2, <1>3 DEF BackfillOnce
<1>8. \A w \in Wallets : Horizon(w) <= Horizon(w)'
  <2> TAKE w \in Wallets
  <2>1. Horizon(w) \in 0..Tip
    BY <1>1, HorizonBound
  <2>2. CASE w \in back.wallet
    <3>1. Horizon(w) = back.tip
      BY <1>0, <1>1, <2>2 DEF Horizon, BackfillOnce
    <3>2. backfilledTo'[w] = back.tip /\ back.tip # NotBackfilled
      BY <1>1, <1>3, <2>2 DEF NotBackfilled
    <3>3. Horizon(w)' = back.tip
      BY <3>2 DEF Horizon, NotBackfilled
    <3> QED
      BY <1>1, <3>1, <3>3
  <2>3. CASE w \notin back.wallet
    <3>1. Horizon(w)' = Horizon(w)
      BY <1>0, <1>1, <1>2, <1>3, <2>3 DEF Horizon, NotBackfilled
    <3> QED
      BY <2>1, <3>1
  <2> QED
    BY <2>2, <2>3
<1>9. ASSUME NEW w \in Wallets, NEW b \in 1..Tip,
             backfilledTo'[w] # NotBackfilled, FloorBlock <= b, b <= backfilledTo'[w]
      PROVE  KeyRecorded(w, b)
  <2>1. CASE w \in back.wallet
    <3>1. b <= back.tip /\ b < back.from
      BY <1>0, <1>1, <1>3, <1>9, <2>1
    <3> QED
      BY <1>0, <1>9, <2>1, <3>1 DEF HistoryInv, BackPassed
  <2>2. CASE w \notin back.wallet
    BY <1>3, <1>9, <2>2 DEF HistoryInv, BackPassed
  <2> QED
    BY <2>1, <2>2
<1>10. \A w \in Wallets, b \in 1..Tip : KeyRecorded(w, b) => KeyRecorded(w, b)'
  BY <1>1, RecordedStays
<1>11. BackPassed' /\ BackPassing'
  BY <1>1, <1>2, <1>9, <1>10 DEF BackPassed, BackPassing, NotBackfilled
<1> QED
  BY <1>0, <1>1, <1>5, <1>6, <1>7, <1>8, <1>11, BackStep

LEMMA BackfillSaveRowKeeps == HistoryInv /\ BackfillSaveRow => HistoryInv'
<1> SUFFICES ASSUME HistoryInv, BackfillSaveRow PROVE HistoryInv'
  OBVIOUS
<1>0. /\ back.pc = "save"
      /\ UNCHANGED <<chain, userWallets, tracked, cursor, live, faults, liveFrom, backfilledTo>>
  BY DEF BackfillSaveRow
<1>1. /\ Shapes /\ BackfillOnce /\ OnlyTransfers /\ back \in BackStates
      /\ Tip \in Nat /\ Tip' = Tip /\ back.tip \in Nat /\ back.from \in Nat
      /\ ChunkSize \in Nat /\ FloorBlock \in Nat
  BY <1>0, HistoryAssumption DEF HistoryInv, Shapes, Blocks, Tip, BackStates
<1>2. ASSUME NEW row \in back.rows, SavePaymentHistory(row), back' = [back EXCEPT !.rows = @ \ {row}]
      PROVE  HistoryInv'
  <2>1. OfChain(history) /\ OfChain({row})
    BY <1>1 DEF OnlyTransfers, OfChain
  <2>2. /\ history \subseteq history' /\ history' \subseteq history \cup {row}
        /\ HasKey(history', row.block, row.index)
    BY <1>2, SaveAdds
  <2>3. Grows
    BY <1>0, <1>1, <2>2 DEF Grows
  <2>4. /\ back' \in BackStates /\ back'.pc = "save" /\ back'.todo = back.todo /\ back'.tip = back.tip
        /\ back'.wallet = back.wallet /\ back'.from = back.from /\ back'.rows = back.rows \ {row}
    BY <1>0, <1>1, <1>2 DEF BackStates
  <2>5. Shapes'
    BY <1>0, <1>1, <2>4 DEF Shapes
  <2>6. OnlyTransfers'
    BY <1>0, <1>1, <2>1, <2>2, <2>4 DEF OnlyTransfers, OfChain, Row
  <2>7. BackfillOnce'
    BY <1>0, <1>1, <2>4 DEF BackfillOnce
  <2>8. \A w \in Wallets : Horizon(w) <= Horizon(w)'
    BY <1>0, <1>1, <2>4, HorizonBound DEF Horizon
  <2>9. \A w \in Wallets, b \in 1..Tip : KeyRecorded(w, b) => KeyRecorded(w, b)'
    BY <2>3, RecordedStays
  <2>10. back.wallet \subseteq Wallets
    BY <1>1 DEF BackStates
  <2>11. BackPassed'
    BY <1>0, <1>1, <2>4, <2>9, <2>10 DEF HistoryInv, BackPassed
  <2>12. \A b, i : HasKey(history, b, i) \/ HasKey(back.rows, b, i)
                 => HasKey(history', b, i) \/ HasKey(back'.rows, b, i)
    BY <2>2, <2>4 DEF HasKey
  <2>13. ASSUME NEW w \in back.wallet, NEW b \in 1..Tip,
               back.from <= b /\ b < back.from + ChunkSize /\ b <= back.tip
         PROVE  \A t \in chain[b] : w \in t.touches =>
                  HasKey(history', b, t.index) \/ HasKey(back'.rows, b, t.index)
    BY <1>0, <2>12, <2>13 DEF HistoryInv, BackPassing
  <2>14. BackPassing'
    BY <1>0, <1>1, <2>4, <2>13 DEF BackPassing, HasKey
  <2> QED
    BY <1>0, <2>3, <2>5, <2>6, <2>7, <2>8, <2>11, <2>14, BackStep
<1>3. ASSUME back.rows = {}, back' = [back EXCEPT !.pc = "chunk", !.from = @ + ChunkSize], UNCHANGED history
      PROVE  HistoryInv'
  <2>a. back.from + ChunkSize \in Nat
    BY <1>1
  <2>b. back' = [back EXCEPT !.pc = "chunk", !.from = back.from + ChunkSize]
    BY <1>3
  <2>1. /\ back' \in BackStates /\ back'.pc = "chunk" /\ back'.todo = back.todo /\ back'.tip = back.tip
        /\ back'.wallet = back.wallet /\ back'.from = back.from + ChunkSize /\ back'.rows = back.rows
    BY <1>1, <2>a, <2>b DEF BackStates
  <2>2. Shapes'
    BY <1>0, <1>1, <2>1 DEF Shapes
  <2>3. BackfillOnce' /\ OfChain(back'.rows)
    BY <1>0, <1>1, <1>3, <2>1 DEF BackfillOnce, OfChain
  <2>4. \A w \in Wallets : Horizon(w) <= Horizon(w)'
    BY <1>0, <1>1, <2>1, HorizonBound DEF Horizon
  <2>5. ASSUME NEW w \in back.wallet, NEW b \in 1..Tip,
               FloorBlock <= b, b < back.from + ChunkSize, b <= back.tip
        PROVE  KeyRecorded(w, b)
    <3>1. CASE b < back.from
      BY <1>0, <2>5, <3>1 DEF HistoryInv, BackPassed
    <3>2. CASE back.from <= b
      BY <1>0, <1>3, <2>5, <3>2 DEF HistoryInv, BackPassing, KeyRecorded, HasKey
    <3> QED
      BY <1>1, <3>1, <3>2
  <2>6. \A w \in Wallets, b \in 1..Tip : KeyRecorded(w, b)' <=> KeyRecorded(w, b)
    BY <1>0, <1>3 DEF KeyRecorded, HasKey
  <2>7. back.wallet \subseteq Wallets
    BY <1>1 DEF BackStates
  <2>8. BackPassed'
    BY <1>0, <1>1, <2>1, <2>5, <2>6, <2>7 DEF HistoryInv, BackPassed
  <2>9. BackPassing'
    BY <2>1 DEF BackPassing
  <2> QED
    BY <1>0, <1>3, <2>2, <2>3, <2>4, <2>8, <2>9, QuietBackStep
<1> QED
  BY <1>2, <1>3 DEF BackfillSaveRow

\* A backfill that fails is not finished: its wallet's horizon moves to the tip.
LEMMA BackfillFailsKeeps == HistoryInv /\ BackfillFails => HistoryInv'
<1> SUFFICES ASSUME HistoryInv, BackfillFails PROVE HistoryInv'
  OBVIOUS
<1>0. /\ faults < MaxFaults /\ faults' = faults + 1
      /\ UNCHANGED <<chain, userWallets, tracked, cursor, history, live, liveFrom, backfilledTo>>
  BY DEF BackfillFails
<1>1. /\ Shapes /\ BackfillOnce /\ back \in BackStates
      /\ Tip \in Nat /\ Tip' = Tip /\ back.tip \in 0..Tip /\ MaxFaults \in Nat /\ faults \in Nat
  BY <1>0, HistoryAssumption DEF HistoryInv, Shapes, Blocks, Tip, BackStates
<1>2. ASSUME back.pc = "tip", back' = BackIdle
      PROVE  HistoryInv'
  <2>1. /\ back' \in BackStates /\ back'.pc = "idle" /\ back'.todo = {} /\ back'.tip = 0
        /\ back'.wallet = {} /\ back'.rows = {}
    BY <1>2 DEF BackIdle, BackStates
  <2>2. Shapes'
    BY <1>0, <1>1, <2>1 DEF Shapes
  <2>3. BackfillOnce' /\ OfChain(back'.rows)
    BY <1>0, <1>1, <2>1 DEF BackfillOnce, OfChain
  <2>4. \A w \in Wallets : Horizon(w) <= Horizon(w)'
    BY <1>0, <1>1, <1>2, <2>1, HorizonBound DEF Horizon
  <2>5. BackPassed' /\ BackPassing'
    BY <1>0, <2>1, NoWallet
  <2> QED
    BY <1>0, <2>2, <2>3, <2>4, <2>5, QuietBackStep
<1>3. ASSUME back.pc \in {"chunk", "save"},
             back' = [back EXCEPT !.pc = "next", !.wallet = {}, !.rows = {}]
      PROVE  HistoryInv'
  <2>1. /\ back' \in BackStates /\ back'.pc = "next" /\ back'.todo = back.todo /\ back'.tip = back.tip
        /\ back'.wallet = {} /\ back'.from = back.from /\ back'.rows = {}
    BY <1>1, <1>3 DEF BackStates
  <2>2. Shapes'
    BY <1>0, <1>1, <2>1 DEF Shapes
  <2>3. BackfillOnce' /\ OfChain(back'.rows)
    BY <1>0, <1>1, <2>1 DEF BackfillOnce, OfChain
  <2>4. \A w \in Wallets : Horizon(w) <= Horizon(w)'
    BY <1>0, <1>1, <1>3, <2>1, HorizonBound DEF Horizon
  <2>5. BackPassed' /\ BackPassing'
    BY <1>0, <2>1, NoWallet
  <2> QED
    BY <1>0, <2>2, <2>3, <2>4, <2>5, QuietBackStep
<1> QED
  BY <1>2, <1>3 DEF BackfillFails
-----------------------------------------------------------------------------
\* A poll that fails, or an engine that restarts, has saved no cursor.
LEMMA LiveFailsKeeps == HistoryInv /\ LiveFails => HistoryInv'
<1> SUFFICES ASSUME HistoryInv, LiveFails PROVE HistoryInv'
  OBVIOUS
<1>0. /\ faults < MaxFaults /\ faults' = faults + 1 /\ live' = LiveIdle
      /\ UNCHANGED <<chain, userWallets, tracked, cursor, history, back, liveFrom, backfilledTo>>
  BY DEF LiveFails
<1>1. Shapes /\ OnlyTransfers /\ Grows /\ Tip \in Nat /\ Tip' = Tip /\ MaxFaults \in Nat /\ faults \in Nat
  BY <1>0, SameTables, HistoryAssumption DEF HistoryInv, Shapes, Blocks
<1>2. live' \in LiveStates /\ live'.pc = "idle" /\ live'.tip = 0 /\ live'.from = 0 /\ live'.to = 0 /\ live'.rows = {}
  BY <1>0 DEF LiveIdle, LiveStates
<1>3. Shapes'
  BY <1>0, <1>1, <1>2 DEF Shapes
<1>4. OnlyTransfers'
  BY <1>0, <1>1, <1>2 DEF OnlyTransfers, OfChain, Row
<1>5. LiveRange' /\ LivePassing'
  BY <1>0, <1>2 DEF HistoryInv, LiveRange, LivePassing
<1>6. LivePassed'
  BY <1>0, <1>1, <1>3, HorizonKept, PassedKept DEF HistoryInv
<1> QED
  BY <1>0, <1>1, <1>3, <1>4, <1>5, <1>6, LiveStep

LEMMA RestartKeeps == HistoryInv /\ Restart => HistoryInv'
<1> SUFFICES ASSUME HistoryInv, Restart PROVE HistoryInv'
  OBVIOUS
<1>0. /\ faults < MaxFaults /\ faults' = faults + 1 /\ live' = LiveIdle /\ back' = BackIdle
      /\ UNCHANGED <<chain, userWallets, tracked, cursor, history, liveFrom, backfilledTo>>
  BY DEF Restart
<1>1. /\ Shapes /\ OnlyTransfers /\ BackfillOnce /\ Grows /\ Tip \in Nat /\ Tip' = Tip
      /\ MaxFaults \in Nat /\ faults \in Nat
  BY <1>0, SameTables, HistoryAssumption DEF HistoryInv, Shapes, Blocks
<1>2. live' \in LiveStates /\ live'.pc = "idle" /\ live'.tip = 0 /\ live'.from = 0 /\ live'.to = 0 /\ live'.rows = {}
  BY <1>0 DEF LiveIdle, LiveStates
<1>3. /\ back' \in BackStates /\ back'.pc = "idle" /\ back'.todo = {} /\ back'.tip = 0
      /\ back'.wallet = {} /\ back'.rows = {}
  BY <1>0 DEF BackIdle, BackStates
<1>4. Shapes'
  BY <1>0, <1>1, <1>2, <1>3 DEF Shapes
<1>5. OnlyTransfers'
  BY <1>0, <1>1, <1>2, <1>3 DEF OnlyTransfers, OfChain, Row
<1>6. BackfillOnce'
  BY <1>0, <1>1, <1>3 DEF BackfillOnce
<1>7. LiveRange' /\ LivePassing'
  BY <1>0, <1>2 DEF HistoryInv, LiveRange, LivePassing
<1>8. \A w \in Wallets : Horizon(w) <= Horizon(w)'
  BY <1>0, <1>1, <1>3, HorizonBound DEF Horizon
<1>9. LivePassed'
  BY <1>0, <1>1, <1>4, <1>8, PassedKept DEF HistoryInv
<1>10. BackPassed' /\ BackPassing'
  BY <1>0, <1>3, NoWallet
<1> QED
  BY <1>4, <1>5, <1>6, <1>7, <1>9, <1>10 DEF HistoryInv

LEMMA MineKeeps == HistoryInv /\ Mine => HistoryInv'
<1> SUFFICES ASSUME HistoryInv, Mine PROVE HistoryInv'
  OBVIOUS
<1>0. /\ Tip < MaxBlock /\ \E c \in Contents : chain' = Append(chain, c)
      /\ UNCHANGED <<userWallets, tracked, cursor, history, live, back, faults, liveFrom, backfilledTo>>
  BY DEF Mine
<1>1. Shapes /\ OnlyTransfers /\ Tip \in Nat /\ MaxBlock \in Nat /\ chain \in Seq(Contents)
  BY HistoryAssumption DEF HistoryInv, Shapes, Blocks
<1>2. PICK c \in Contents : chain' = Append(chain, c)
  BY <1>0
<1>3. chain' \in Seq(Contents) /\ Tip' = Tip + 1 /\ \A b \in 1..Tip : chain'[b] = chain[b]
  BY <1>1, <1>2 DEF Tip
<1>4. Grows
  <2>1. Tip <= Tip'
    BY <1>1, <1>3
  <2>2. history' = history
    BY <1>0
  <2> QED
    BY <1>3, <2>1, <2>2 DEF Grows
<1>5. Tip' \in Blocks
  BY <1>0, <1>1, <1>3 DEF Blocks
<1>6. Shapes'
  <2>1. cursor' \in 0..Tip' /\ liveFrom' \in 0..Tip' /\ live'.tip <= Tip' /\ back'.tip <= Tip'
    BY <1>0, <1>1, <1>3 DEF Shapes, LiveStates, BackStates
  <2>2. backfilledTo' \in [Wallets -> {NotBackfilled} \cup 0..Tip']
    BY <1>0, <1>1, <1>3 DEF Shapes
  <2> QED
    BY <1>0, <1>1, <1>3, <1>5, <2>1, <2>2 DEF Shapes
<1>7. ASSUME NEW rows, OfChain(rows)
      PROVE  \A r \in rows : r.block \in 1..Tip' /\ \E t \in chain'[r.block] : r = Row(r.block, t)
  BY <1>1, <1>4, <1>7, OfChainStays
<1>8. OnlyTransfers'
  BY <1>0, <1>1, <1>7 DEF OnlyTransfers, OfChain, Row
<1>9. \A w \in Wallets : Horizon(w) <= Horizon(w)'
  BY <1>0, <1>1, <1>4, <1>6, HorizonKept
<1>10. LiveRange' /\ LivePassed' /\ LivePassing'
  BY <1>0, <1>1, <1>4, <1>6, <1>9, LiveKept DEF HistoryInv
<1> QED
  BY <1>0, <1>4, <1>6, <1>8, <1>10, LiveStep

LEMMA RegisterKeeps == HistoryInv /\ (Register \/ UNCHANGED historyVars) => HistoryInv'
<1> SUFFICES ASSUME HistoryInv, Register \/ UNCHANGED historyVars PROVE HistoryInv'
  OBVIOUS
<1>1. /\ UNCHANGED <<chain, tracked, cursor, history, live, back, faults, liveFrom, backfilledTo>>
      /\ userWallets \subseteq userWallets'
      /\ userWallets \subseteq Wallets => userWallets' \subseteq Wallets
  BY DEF Register, historyVars
<1>2. Shapes /\ Grows /\ Tip' = Tip
  BY <1>1, SameTables DEF HistoryInv
<1>3. Shapes'
  BY <1>1, <1>2 DEF Shapes
<1>4. OnlyTransfers'
  BY <1>1, <1>2 DEF HistoryInv, OnlyTransfers, OfChain, Row
<1>5. \A w \in Wallets : Horizon(w) <= Horizon(w)'
  BY <1>1, <1>2, <1>3, HorizonKept
<1>6. LiveRange' /\ LivePassed' /\ LivePassing'
  BY <1>1, <1>2, <1>3, <1>5, LiveKept DEF HistoryInv
<1> QED
  BY <1>1, <1>2, <1>3, <1>4, <1>6, LiveStep

LEMMA HistoryInvariant == HistorySpec => []HistoryInv
<1>1. HistoryInv /\ [HistoryNext]_historyVars => HistoryInv'
  BY LivePollKeeps, LiveBuildRowsKeeps, LiveSaveRowKeeps, LiveSaveCursorKeeps, LiveFailsKeeps,
     SweepKeeps, BackfillTipKeeps, BackfillNextKeeps, BackfillChunkKeeps, BackfillDoneKeeps,
     BackfillSaveRowKeeps, BackfillFailsKeeps, RestartKeeps, MineKeeps, RegisterKeeps
     DEF HistoryNext, Live, Back
<1> QED
  BY HistoryInitially, <1>1, PTL DEF HistorySpec

\* The unique index lets no two rows have one key.
UniqueKeys == \A r, s \in history : r.block = s.block /\ r.index = s.index => r = s

LEMMA KeysStayUnique == HistorySpec => []UniqueKeys
<1>1. HistoryInit => UniqueKeys
  BY DEF HistoryInit, UniqueKeys
<1>2. UniqueKeys /\ [HistoryNext]_historyVars => UniqueKeys'
  <2> SUFFICES ASSUME UniqueKeys, [HistoryNext]_historyVars PROVE UniqueKeys'
    OBVIOUS
  <2>1. ASSUME NEW row, SavePaymentHistory(row) PROVE UniqueKeys'
    BY <2>1 DEF SavePaymentHistory, UniqueKeys
  <2>2. ASSUME UNCHANGED history PROVE UniqueKeys'
    BY <2>2 DEF UniqueKeys
  <2>3. CASE LiveSaveRow
    BY <2>1, <2>3 DEF LiveSaveRow
  <2>4. CASE BackfillSaveRow
    BY <2>1, <2>2, <2>4 DEF BackfillSaveRow
  <2>5. CASE ~LiveSaveRow /\ ~BackfillSaveRow
    <3>1. UNCHANGED history
      BY <2>5 DEF HistoryNext, Live, Back, LivePoll, LiveBuildRows, LiveSaveCursor, LiveFails, Sweep, BackfillTip,
                  BackfillNext, BackfillChunk, BackfillDone, BackfillFails, Restart, Mine, Register, historyVars
    <3> QED
      BY <2>2, <3>1
  <2> QED
    BY <2>3, <2>4, <2>5
<1> QED
  BY <1>1, <1>2, PTL DEF HistorySpec
-----------------------------------------------------------------------------
\* No two rows have one key, no scan goes beyond the tip it read, and the cursor
\* and the backfills stay within the chain, for any number of wallets and blocks.
THEOREM HistoryTyping == HistorySpec => []HistoryTypeOK
<1>1. HistoryInv /\ UniqueKeys => HistoryTypeOK
  <2> SUFFICES ASSUME HistoryInv, UniqueKeys PROVE HistoryTypeOK
    OBVIOUS
  <2>1. Shapes /\ OnlyTransfers /\ BackfillOnce
    BY DEF HistoryInv
  <2>2. chain \in Seq(SUBSET Transfers)
    BY <2>1, HistoryAssumption DEF Shapes
  <2>3. /\ live.pc \in {"idle", "wallets", "save"} /\ live.rows \subseteq Rows
        /\ live.tip \in 0..Tip /\ live.from \in 0..live.tip /\ live.to \in 0..live.tip
    BY <2>1 DEF Shapes, LiveStates, Blocks
  <2>4. /\ back.pc \in {"idle", "tip", "next", "chunk", "save"} /\ back.rows \subseteq Rows
        /\ back.tip \in 0..Tip /\ back.from \in Nat
    BY <2>1 DEF Shapes, BackStates, Blocks
  <2>5. ASSUME NEW r \in history PROVE r \in Rows
    <3>1. r.block \in 1..Tip /\ chain[r.block] \in Contents /\ 1..Tip \subseteq Blocks
      BY <2>1, HistoryAssumption DEF OnlyTransfers, OfChain, Shapes, Tip, Blocks
    <3>2. PICK t \in chain[r.block] : r = Row(r.block, t)
      BY <2>1 DEF OnlyTransfers, OfChain
    <3>3. t \in Transfers
      BY <3>1, HistoryAssumption
    <3> QED
      BY <3>1, <3>2, <3>3 DEF Row, Rows, Transfers
  <2> QED
    BY <2>1, <2>2, <2>3, <2>4, <2>5 DEF HistoryTypeOK, Shapes, BackfillOnce, UniqueKeys
<1> QED
  BY HistoryInvariant, KeysStayUnique, <1>1, PTL

\* A wallet that was backfilled misses no key of what the backfill or the live
\* watcher has covered, whenever it was registered, however the two goroutines
\* interleave and whatever calls fail: what a poll under way did not look for is
\* in the blocks that the wallet's backfill has yet to read.  Blocks may hold
\* transfers of one key; what is under a key is one of them.
THEOREM CoveredBlocksAreRecorded == HistorySpec => []CoveredIsRecorded
<1>1. HistoryInv => CoveredIsRecorded
  <2> SUFFICES ASSUME HistoryInv, NEW w \in Wallets, NEW b \in 1..Tip,
                      backfilledTo[w] # NotBackfilled, FloorBlock <= b,
                      b <= backfilledTo[w] \/ (liveFrom > 0 /\ liveFrom <= b /\ b <= cursor)
               PROVE  Recorded(w, b)
    BY DEF CoveredIsRecorded
  <2>1. Horizon(w) = backfilledTo[w]
    BY DEF Horizon
  <2>2. KeyRecorded(w, b) \/ b <= backfilledTo[w]
    BY <2>1 DEF HistoryInv, LivePassed
  <2>3. KeyRecorded(w, b)
    BY <2>2 DEF HistoryInv, BackPassed
  <2>4. ASSUME NEW t \in chain[b], w \in t.touches
        PROVE  \E u \in chain[b] : u.index = t.index /\ Row(b, u) \in history
    <3>1. PICK r \in history : r.block = b /\ r.index = t.index
      BY <2>3, <2>4 DEF KeyRecorded, HasKey
    <3>2. PICK u \in chain[b] : r = Row(b, u)
      BY <3>1 DEF HistoryInv, OnlyTransfers, OfChain
    <3>3. u.index = t.index
      BY <3>1, <3>2 DEF Row
    <3> QED
      BY <3>1, <3>2, <3>3
  <2> QED
    BY <2>4 DEF Recorded
<1> QED
  BY HistoryInvariant, <1>1, PTL
=============================================================================
