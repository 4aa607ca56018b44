--------------------------- MODULE AddressWatcher ---------------------------
(***************************************************************************)
(* The cached answer of GET /v1/users/:username and the watcher that       *)
(* drops it when a block touches the user's address.  One address, one     *)
(* cache entry.  The watcher's mutex makes a registration, the choice of   *)
(* the callbacks to fire and each access to its cursor one step; the calls *)
(* to the chain and the callbacks themselves run outside of it.            *)
(***************************************************************************)
EXTENDS Naturals

CONSTANTS Readers, \* bound: requests
          MaxHead, \* bound: blocks mined
          Epochs   \* bound: lives of the process, 1..n

ASSUME WatcherAssumption == MaxHead \in Nat \ {0} /\ 1 \in Epochs /\ Epochs \subseteq Nat \ {0}

VARIABLES cached,    \* the life of the process that cached the answer, or 0: Redis outlives it
          epoch,     \* the life of the process
          callbacks, \* registered: the head at that time, and was the cursor set
          fired,     \* taken out of the map and not run yet
          cursor,    \* fromBlock
          poll,      \* the poll under way with the head it has read
          head,      \* the chain's head: external
          touching,  \* the blocks that touch the address: external
          reader     \* the requests
watcherVars == <<cached, epoch, callbacks, fired, cursor, poll, head, touching, reader>>

NoPoll == [pc |-> "none", latest |-> 0, touched |-> FALSE]

WatcherInit ==
  /\ cached = 0 /\ epoch = 1 /\ callbacks = {} /\ fired = 0 /\ cursor = 0 /\ poll = NoPoll
  /\ head = 1 /\ touching = {} /\ reader = [r \in Readers |-> "new"]

ReaderGoes(r, from, to) == reader[r] = from /\ reader' = [reader EXCEPT ![r] = to]

-----------------------------------------------------------------------------
\* An entry that is there is the answer; else the row is read and the answer cached ...
GetUser(r) ==
  /\ ReaderGoes(r, "new", IF cached # 0 THEN "over" ELSE "set")
  /\ UNCHANGED <<cached, epoch, callbacks, fired, cursor, poll, head, touching>>

CacheAnswer(r) ==
  /\ ReaderGoes(r, "set", "watch") /\ cached' = epoch
  /\ UNCHANGED <<epoch, callbacks, fired, cursor, poll, head, touching>>

\* ... and then watched.
Watch(r) ==
  /\ ReaderGoes(r, "watch", "over")
  /\ callbacks' = callbacks \cup {[head |-> head, seeded |-> cursor # 0]}
  /\ UNCHANGED <<cached, epoch, fired, cursor, poll, head, touching>>

Expire ==
  /\ cached # 0 /\ cached' = 0
  /\ UNCHANGED <<epoch, callbacks, fired, cursor, poll, head, touching, reader>>

-----------------------------------------------------------------------------
\* Poll: with nothing registered it returns; else it reads the head, and the first
\* time seeds the cursor with it.
PollHead ==
  /\ poll = NoPoll /\ callbacks # {}
  /\ LET from == IF cursor = 0 THEN head ELSE cursor IN
     /\ cursor' = from
     /\ poll' = IF head < from THEN NoPoll ELSE [pc |-> "logs", latest |-> head, touched |-> FALSE]
  /\ UNCHANGED <<cached, epoch, callbacks, fired, head, touching, reader>>

\* Mutant: the cursor goes on from the head as it is when the logs have come.
FilterLogsToHead ==
  /\ poll.pc = "logs" /\ cursor' = head + 1
  /\ poll' = [poll EXCEPT !.pc = "fire", !.touched = \E b \in touching : b \in cursor..poll.latest]
  /\ UNCHANGED <<cached, epoch, callbacks, fired, head, touching, reader>>
FilterLogs ==
  /\ poll.pc = "logs" /\ cursor' = poll.latest + 1
  /\ poll' = [poll EXCEPT !.pc = "fire", !.touched = \E b \in touching : b \in cursor..poll.latest]
  /\ UNCHANGED <<cached, epoch, callbacks, fired, head, touching, reader>>

FailFilterLogs ==
  /\ poll.pc = "logs" /\ poll' = NoPoll
  /\ UNCHANGED <<cached, epoch, callbacks, fired, cursor, head, touching, reader>>

\* All callbacks of a touched address are taken out, and run one by one.
FireCallbacks ==
  /\ poll.pc = "fire"
  /\ IF poll.touched /\ callbacks # {}
       THEN callbacks' = {} /\ fired' = 1 /\ poll' = [poll EXCEPT !.pc = "run"]
       ELSE poll' = NoPoll /\ UNCHANGED <<callbacks, fired>>
  /\ UNCHANGED <<cached, epoch, cursor, head, touching, reader>>

RunCallback ==
  /\ poll.pc = "run" /\ fired' = 0 /\ poll' = NoPoll /\ cached' = 0
  /\ UNCHANGED <<epoch, callbacks, cursor, head, touching, reader>>

Mine ==
  /\ head < MaxHead /\ head' = head + 1
  /\ touching' \in {touching, touching \cup {head + 1}}
  /\ UNCHANGED <<cached, epoch, callbacks, fired, cursor, poll, reader>>

\* What the process had in memory is gone.
RestartWatcher ==
  /\ epoch + 1 \in Epochs /\ epoch' = epoch + 1 /\ callbacks' = {} /\ fired' = 0 /\ cursor' = 0 /\ poll' = NoPoll
  /\ reader' = [r \in Readers |-> IF reader[r] = "new" THEN "new" ELSE "over"]
  /\ UNCHANGED <<cached, head, touching>>

WatcherNext ==
  \/ \E r \in Readers : GetUser(r) \/ CacheAnswer(r) \/ Watch(r)
  \/ Expire \/ PollHead \/ FilterLogs \/ FailFilterLogs \/ FireCallbacks \/ RunCallback \/ Mine \/ RestartWatcher

WatcherSpec == WatcherInit /\ [][WatcherNext]_watcherVars

-----------------------------------------------------------------------------
WatcherTypeOK ==
  /\ cached \in {0} \cup Epochs /\ epoch \in Epochs /\ fired \in 0..1
  /\ callbacks \subseteq [head: 1..MaxHead, seeded: BOOLEAN]
  /\ cursor \in 0..(MaxHead + 1) /\ head \in 1..MaxHead /\ touching \subseteq 1..MaxHead
  /\ poll \in [pc: {"none", "logs", "fire", "run"}, latest: 0..MaxHead, touched: BOOLEAN]
  /\ reader \in [Readers -> {"new", "set", "watch", "over"}]

\* An answer this process cached is never left to its expiry alone: a callback that
\* drops it is registered, about to run, or about to be registered.
CachedIsWatched ==
  cached = epoch => callbacks # {} \/ fired > 0 \/ \E r \in Readers : reader[r] = "watch"

\* No poll passes over a block that touches the address after a callback for it was
\* registered, though blocks are mined while it runs: the callback is taken first.
NoEventSkipped ==
  \A c \in callbacks : \A b \in touching :
    c.seeded /\ c.head < b /\ b < cursor => poll.pc = "fire" /\ poll.touched
=============================================================================
