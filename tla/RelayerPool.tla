---------------------------- MODULE RelayerPool ----------------------------
(***************************************************************************)
(* internal/relayer: the fixed pool of backend-operated EOAs.  Free        *)
(* relayers queue in a buffered channel; a claimed one is in the inUse map *)
(* until it is released.  Claim and Release each take two steps, since     *)
(* the channel operation and the map update are not one critical section.  *)
(***************************************************************************)
EXTENDS Integers, Sequences, FiniteSets

CONSTANTS Relayers,    \* the pool's addresses
          Goroutines,  \* its callers: request handlers and boot-time waiters
          NoRelayer,
          FirstOrder   \* the order NewPool fills the channel in

Elements(s) == {s[i] : i \in DOMAIN s}
Distinct(s) == \A i, j \in DOMAIN s : s[i] = s[j] => i = j

ASSUME RelayerAssumption == /\ NoRelayer \notin Relayers \cup Goroutines
                            /\ Goroutines \cap Relayers = {}
ASSUME OrderAssumption == /\ FirstOrder \in Seq(Relayers)
                          /\ Elements(FirstOrder) = Relayers
                          /\ Distinct(FirstOrder)

VARIABLES available, \* the channel
          inUse,     \* the relayers the map marks
          caller,    \* caller[g]: where g is in Claim or Release, and its relayer
          unscanned  \* queued relayers ReserveAtStartup has not looked at yet

poolVars == <<available, inUse, caller, unscanned>>

Caller == [pc: {"idle", "claiming"}, relayer: {NoRelayer}]
            \cup [pc: {"received", "holding", "pushing"}, relayer: Relayers]
Idle   == [pc |-> "idle", relayer |-> NoRelayer]

Queued(r)   == r \in Elements(available)

\* NewPool at boot.  Submissions left unresolved by the previous process each
\* have a goroutine that will release the relayer once it is resolved.
PoolInit ==
  /\ available = FirstOrder
  /\ inUse = {}
  /\ unscanned = Len(FirstOrder)
  /\ \E stuck \in [Goroutines -> Relayers \cup {NoRelayer}] :
       /\ \A g, h \in Goroutines : stuck[g] = stuck[h] /\ stuck[g] # NoRelayer => g = h
       /\ caller = [g \in Goroutines |->
            IF stuck[g] = NoRelayer THEN Idle ELSE [pc |-> "holding", relayer |-> stuck[g]]]

\* Mutant: every relayer stays free.
ReserveNothing ==
  /\ unscanned > 0
  /\ unscanned' = unscanned - 1
  /\ available' = Append(Tail(available), Head(available))
  /\ UNCHANGED <<inUse, caller>>

\* One turn of ReserveAtStartup's loop; no caller runs before the loop is done.
ReserveAtStartup ==
  LET r == Head(available) IN
  /\ unscanned > 0
  /\ unscanned' = unscanned - 1
  /\ IF \E g \in Goroutines : caller[g].pc = "holding" /\ caller[g].relayer = r
     THEN inUse' = inUse \cup {r} /\ available' = Tail(available)
     ELSE available' = Append(Tail(available), r) /\ UNCHANGED inUse
  /\ UNCHANGED caller

Claim(g) == /\ caller[g].pc = "idle"
            /\ caller' = [caller EXCEPT ![g].pc = "claiming"]
            /\ UNCHANGED <<available, inUse>>

\* Mutant: a cancelled Claim releases what it did not get.
CancelAndPush(g) == /\ caller[g].pc = "claiming"
                    /\ caller' = [caller EXCEPT ![g] = Idle]
                    /\ available' = Append(available, caller[g].relayer)
                    /\ UNCHANGED inUse

\* Claim's select: the caller's context is done before a relayer is free.
ClaimCancelled(g) == /\ caller[g].pc = "claiming"
                     /\ caller' = [caller EXCEPT ![g] = Idle]
                     /\ UNCHANGED <<available, inUse>>

\* Claim's select: a relayer arrives.
Receive(g) == /\ caller[g].pc = "claiming"
              /\ available # <<>>
              /\ available' = Tail(available)
              /\ caller' = [caller EXCEPT ![g] = [pc |-> "received", relayer |-> Head(available)]]
              /\ UNCHANGED inUse

MarkInUse(g) == /\ caller[g].pc = "received"
                /\ inUse' = inUse \cup {caller[g].relayer}
                /\ caller' = [caller EXCEPT ![g].pc = "holding"]
                /\ UNCHANGED available

\* Mutant: Release unmarks and never pushes.
UnmarkOnly(g) == /\ caller[g].pc = "holding"
                 /\ inUse' = inUse \ {caller[g].relayer}
                 /\ caller' = [caller EXCEPT ![g] = Idle]
                 /\ UNCHANGED available

\* Release by the goroutine that claimed the relayer, under the mutex.
Unmark(g) == /\ caller[g].pc = "holding"
             /\ IF caller[g].relayer \in inUse
                THEN /\ inUse' = inUse \ {caller[g].relayer}
                     /\ caller' = [caller EXCEPT ![g].pc = "pushing"]
                ELSE /\ caller' = [caller EXCEPT ![g] = Idle]
                     /\ UNCHANGED inUse
             /\ UNCHANGED available

\* Mutants: the relayer is pushed twice; it is dropped.
PushTwice(g) == /\ caller[g].pc = "pushing"
                /\ available' = available \o <<caller[g].relayer, caller[g].relayer>>
                /\ caller' = [caller EXCEPT ![g] = Idle]
                /\ UNCHANGED inUse

Push(g) == /\ caller[g].pc = "pushing"
           /\ available' = Append(available, caller[g].relayer)
           /\ caller' = [caller EXCEPT ![g] = Idle]
           /\ UNCHANGED inUse

\* Release by a goroutine that does not hold the relayer (a second Release of
\* the same claim): the pool has no way to tell, and frees a marked relayer.
StrayRelease(g, r) == /\ caller[g].pc = "idle"
                      /\ r \in inUse
                      /\ inUse' = inUse \ {r}
                      /\ caller' = [caller EXCEPT ![g] = [pc |-> "pushing", relayer |-> r]]
                      /\ UNCHANGED available

Serving     == unscanned = 0 /\ UNCHANGED unscanned
PoolStep(g) == /\ Serving
               /\ \/ Claim(g) \/ ClaimCancelled(g) \/ Receive(g) \/ MarkInUse(g)
                  \/ Unmark(g) \/ Push(g)

\* Callers that release what they claimed, once.
PoolNext == ReserveAtStartup \/ \E g \in Goroutines : PoolStep(g)
\* Callers that may release anything.
AnyNext  == PoolNext \/ \E g \in Goroutines, r \in Relayers : Serving /\ StrayRelease(g, r)

PoolSpec == PoolInit /\ [][PoolNext]_poolVars
AnySpec  == PoolInit /\ [][AnyNext]_poolVars

\* A waiting receiver of a Go channel is served in turn, and every holder
\* releases: executeAction does on a failed submission, awaitExecution by defer.
PoolFairness == /\ WF_poolVars(ReserveAtStartup)
                /\ \A g \in Goroutines : /\ SF_poolVars(Serving /\ Receive(g))
                                         /\ WF_poolVars(Serving /\ MarkInUse(g))
                                         /\ WF_poolVars(Serving /\ Unmark(g))
                                         /\ WF_poolVars(Serving /\ Push(g))
FairPoolSpec == PoolSpec /\ PoolFairness
-----------------------------------------------------------------------------
PoolTypeOK == /\ available \in Seq(Relayers)
              /\ inUse \subseteq Relayers
              /\ caller \in [Goroutines -> Caller]
              /\ unscanned \in Nat

Carries(g, r) == caller[g].pc \in {"received", "pushing"} /\ caller[g].relayer = r
InTransit(r)  == \E g \in Goroutines : Carries(g, r)
Owns(g, r)    == caller[g].pc \in {"received", "holding"} /\ caller[g].relayer = r

\* Every relayer is in exactly one place - queued once, marked in use, or on its
\* way between the two - so the pool neither loses a relayer nor duplicates one,
\* whatever its callers release.
Conservation ==
  /\ Distinct(available)
  /\ \A g, h \in Goroutines : \A r \in Relayers : Carries(g, r) /\ Carries(h, r) => g = h
  /\ \A r \in Relayers : /\ Queued(r) \/ InTransit(r) \/ r \in inUse
                         /\ ~(Queued(r) /\ InTransit(r))
                         /\ ~(Queued(r) /\ r \in inUse)
                         /\ ~(InTransit(r) /\ r \in inUse)

\* Two goroutines never submit from the same relayer account, so they never
\* compete for its nonce.
Exclusive == \A g, h \in Goroutines : \A r \in Relayers : Owns(g, r) /\ Owns(h, r) => g = h

\* A goroutine blocked in Claim is eventually served or its context ends.
ClaimIsServed == \A g \in Goroutines : caller[g].pc = "claiming" ~> caller[g].pc # "claiming"

Lease == INSTANCE RelayerLease WITH
  Free  <- NoRelayer,
  lease <- [r \in Relayers |-> IF \E g \in Goroutines : Owns(g, r)
                               THEN CHOOSE g \in Goroutines : Owns(g, r) ELSE NoRelayer]

\* The pool gives each relayer to one goroutine at a time.
ImplementsLease == Lease!LeaseSpec
=============================================================================
