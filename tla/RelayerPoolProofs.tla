------------------------- MODULE RelayerPoolProofs -------------------------
(***************************************************************************)
(* Proofs about the relayer pool, for any pool and any set of callers.     *)
(***************************************************************************)
EXTENDS RelayerPool, TLAPS

\* What typing needs to be inductive: the boot loop never runs off the channel.
TypeInv == PoolTypeOK /\ unscanned <= Len(available)

\* One step of the pool keeps its types, whatever its callers release.
LEMMA TypeStep == TypeInv /\ [AnyNext]_poolVars => TypeInv'
<1> SUFFICES ASSUME TypeInv, [AnyNext]_poolVars PROVE TypeInv'
  OBVIOUS
<1> USE DEF TypeInv, PoolTypeOK, Caller, Idle
<1>1. CASE UNCHANGED poolVars
  BY <1>1 DEF poolVars
<1>2. CASE ReserveAtStartup
  <2> HIDE DEF Caller
  <2>1. available # <<>> /\ unscanned' = unscanned - 1 /\ unscanned' \in Nat /\ UNCHANGED caller
    BY <1>2 DEF ReserveAtStartup
  <2>2. Head(available) \in Relayers /\ Tail(available) \in Seq(Relayers)
        /\ Len(Tail(available)) = Len(available) - 1
    BY <2>1
  <2>3. /\ available' \in Seq(Relayers) /\ inUse' \subseteq Relayers
        /\ Len(available') \in {Len(available) - 1, Len(available)}
    <3>1. CASE available' = Tail(available) /\ inUse' = inUse \cup {Head(available)}
      BY <2>2, <3>1
    <3>2. CASE available' = Append(Tail(available), Head(available)) /\ UNCHANGED inUse
      BY <2>2, <3>2
    <3> QED
      BY <1>2, <3>1, <3>2 DEF ReserveAtStartup
  <2>4. Len(available) \in Nat /\ Len(available') \in Nat
    BY <2>3
  <2>5. unscanned' <= Len(available')
    BY <2>1, <2>3, <2>4
  <2> QED
    BY <2>1, <2>3, <2>5
<1>3. ASSUME NEW g \in Goroutines, Serving, Claim(g) \/ ClaimCancelled(g) PROVE TypeInv'
  BY <1>3 DEF Claim, ClaimCancelled, Serving
<1>4. ASSUME NEW g \in Goroutines, Serving, Receive(g) PROVE TypeInv'
  <2>1. Head(available) \in Relayers /\ Tail(available) \in Seq(Relayers)
    BY <1>4 DEF Receive
  <2> QED
    BY <1>4, <2>1 DEF Receive, Serving
<1>5. ASSUME NEW g \in Goroutines, Serving, MarkInUse(g) PROVE TypeInv'
  <2>1. caller[g].relayer \in Relayers
    BY <1>5 DEF MarkInUse
  <2> QED
    BY <1>5, <2>1 DEF MarkInUse, Serving
<1>6. ASSUME NEW g \in Goroutines, Serving, Unmark(g) PROVE TypeInv'
  <2>1. caller[g].relayer \in Relayers
    BY <1>6 DEF Unmark
  <2> QED
    BY <1>6, <2>1 DEF Unmark, Serving
<1>7. ASSUME NEW g \in Goroutines, Serving, Push(g) PROVE TypeInv'
  <2>1. caller[g].relayer \in Relayers
    BY <1>7 DEF Push
  <2> QED
    BY <1>7, <2>1 DEF Push, Serving
<1>8. ASSUME NEW g \in Goroutines, NEW r \in Relayers, Serving, StrayRelease(g, r) PROVE TypeInv'
  BY <1>8 DEF StrayRelease, Serving
<1> QED
  BY <1>1, <1>2, <1>3, <1>4, <1>5, <1>6, <1>7, <1>8 DEF AnyNext, PoolNext, PoolStep

LEMMA TypeInit == PoolInit => TypeInv
<1> SUFFICES ASSUME PoolInit PROVE TypeInv
  OBVIOUS
<1>1. PICK stuck \in [Goroutines -> Relayers \cup {NoRelayer}] :
        caller = [g \in Goroutines |-> IF stuck[g] = NoRelayer THEN Idle
                                       ELSE [pc |-> "holding", relayer |-> stuck[g]]]
  BY DEF PoolInit
<1>2. caller \in [Goroutines -> Caller]
  BY <1>1 DEF Caller, Idle
<1>3. available \in Seq(Relayers) /\ inUse = {} /\ unscanned = Len(available)
  BY OrderAssumption DEF PoolInit
<1> QED
  BY <1>2, <1>3 DEF TypeInv, PoolTypeOK

\* The pool's state stays well typed, for any pool and any callers.
THEOREM PoolTyping == AnySpec => []PoolTypeOK
<1>1. AnySpec => []TypeInv
  BY TypeInit, TypeStep, PTL DEF AnySpec
<1>2. TypeInv => PoolTypeOK
  BY DEF TypeInv
<1> QED
  BY <1>1, <1>2, PTL
-----------------------------------------------------------------------------
\* Taking the head off a duplicate-free sequence removes that element only.
LEMMA TailElements ==
  ASSUME NEW S, NEW s \in Seq(S), s # <<>>, Distinct(s)
  PROVE  Distinct(Tail(s)) /\ Elements(Tail(s)) = Elements(s) \ {Head(s)}
<1> DEFINE t == Tail(s)
<1>1. /\ t \in Seq(S) /\ Len(t) = Len(s) - 1 /\ Len(s) \in Nat \ {0}
      /\ \A i \in 1..Len(t) : t[i] = s[i + 1]
      /\ Head(s) = s[1] /\ DOMAIN s = 1..Len(s) /\ DOMAIN t = 1..Len(t)
  OBVIOUS
<1> HIDE DEF t
<1>2. Distinct(t)
  BY <1>1 DEF Distinct
<1>3. ASSUME NEW x \in Elements(t) PROVE x \in Elements(s) \ {Head(s)}
  BY <1>1 DEF Distinct, Elements
<1>4. ASSUME NEW x \in Elements(s) \ {Head(s)} PROVE x \in Elements(t)
  <2>1. PICK i \in DOMAIN s : x = s[i] /\ i # 1
    BY <1>1, <1>4 DEF Elements
  <2>2. i - 1 \in 1..Len(t) /\ t[i - 1] = s[i]
    BY <1>1, <2>1
  <2> QED
    BY <1>1, <2>1, <2>2 DEF Elements
<1> QED
  BY <1>2, <1>3, <1>4 DEF t

\* Appending a new element to a duplicate-free sequence adds that element only.
LEMMA AppendElements ==
  ASSUME NEW S, NEW s \in Seq(S), NEW x \in S, Distinct(s), x \notin Elements(s)
  PROVE  Distinct(Append(s, x)) /\ Elements(Append(s, x)) = Elements(s) \cup {x}
<1> DEFINE t == Append(s, x)
<1>1. /\ t \in Seq(S) /\ Len(t) = Len(s) + 1 /\ Len(s) \in Nat
      /\ \A i \in 1..Len(s) : t[i] = s[i]
      /\ t[Len(s) + 1] = x /\ DOMAIN s = 1..Len(s) /\ DOMAIN t = 1..Len(t)
  OBVIOUS
<1> HIDE DEF t
<1>2. Distinct(t)
  BY <1>1 DEF Distinct, Elements
<1>3. ASSUME NEW y \in Elements(t) PROVE y \in Elements(s) \cup {x}
  BY <1>1 DEF Elements
<1>4. ASSUME NEW y \in Elements(s) \cup {x} PROVE y \in Elements(t)
  <2>1. CASE y = x
    <3>1. Len(s) + 1 \in DOMAIN t
      BY <1>1
    <3> QED
      BY <1>1, <2>1, <3>1 DEF Elements
  <2>2. CASE y \in Elements(s)
    <3>1. PICK i \in DOMAIN s : y = s[i]
      BY <2>2 DEF Elements
    <3>2. i \in DOMAIN t /\ t[i] = s[i]
      BY <1>1
    <3> QED
      BY <3>1, <3>2 DEF Elements
  <2> QED
    BY <1>4, <2>1, <2>2
<1> QED
  BY <1>2, <1>3, <1>4 DEF t

-----------------------------------------------------------------------------
\* Each kind of step moves one relayer from one place to the next.
LEMMA ConservationStep == TypeInv /\ Conservation /\ [AnyNext]_poolVars => Conservation'
<1> SUFFICES ASSUME TypeInv, Conservation, [AnyNext]_poolVars PROVE Conservation'
  OBVIOUS
<1> USE DEF Conservation, Queued, InTransit, Carries
<1>0. /\ available \in Seq(Relayers) /\ inUse \subseteq Relayers
      /\ caller \in [Goroutines -> Caller]
      /\ \A g \in Goroutines : caller[g].pc \in {"received", "holding", "pushing"}
                                  => caller[g].relayer \in Relayers
  BY DEF TypeInv, PoolTypeOK, Caller
<1>1. CASE UNCHANGED poolVars
  BY <1>1 DEF poolVars
<1>2. CASE ReserveAtStartup
  <2>1. available # <<>>
    BY <1>2 DEF ReserveAtStartup, TypeInv, PoolTypeOK
  <2> DEFINE r == Head(available)
  <2>2. /\ Distinct(Tail(available))
        /\ Elements(Tail(available)) = Elements(available) \ {r}
    BY <1>0, <2>1, TailElements
  <2>3. r \in Relayers /\ r \in Elements(available) /\ Tail(available) \in Seq(Relayers)
    <3>1. 1 \in DOMAIN available /\ Head(available) = available[1]
      BY <1>0, <2>1
    <3> QED
      BY <1>0, <2>1, <3>1 DEF Elements
  <2> HIDE DEF r
  <2>4. CASE available' = Tail(available) /\ inUse' = inUse \cup {r}
    BY <1>0, <1>2, <2>2, <2>3, <2>4 DEF ReserveAtStartup
  <2>5. CASE available' = Append(Tail(available), r) /\ UNCHANGED inUse
    <3>1. Distinct(available') /\ Elements(available') = Elements(available)
      <4>1. r \notin Elements(Tail(available))
        BY <2>2
      <4>2. /\ Distinct(Append(Tail(available), r))
            /\ Elements(Append(Tail(available), r)) = Elements(Tail(available)) \cup {r}
        BY <2>2, <2>3, <4>1, AppendElements
      <4> QED
        BY <2>2, <2>3, <2>5, <4>2
    <3> QED
      BY <1>0, <1>2, <2>5, <3>1 DEF ReserveAtStartup
  <2> QED
    BY <1>2, <2>4, <2>5 DEF ReserveAtStartup, r
<1>3. ASSUME NEW g \in Goroutines, Claim(g) \/ ClaimCancelled(g) PROVE Conservation'
  <2>1. /\ available' = available /\ inUse' = inUse
        /\ \A h \in Goroutines : \A r \in Relayers : Carries(h, r)' <=> Carries(h, r)
    <3>1. CASE Claim(g)
      BY <1>0, <3>1 DEF Claim
    <3>2. CASE ClaimCancelled(g)
      BY <1>0, <3>2 DEF ClaimCancelled, Idle
    <3> QED
      BY <1>3, <3>1, <3>2
  <2> HIDE DEF Carries
  <2> QED
    BY <2>1
<1>4. ASSUME NEW g \in Goroutines, Receive(g) PROVE Conservation'
  <2> DEFINE r == Head(available)
  <2>1. /\ available # <<>> /\ available' = Tail(available)
        /\ caller' = [caller EXCEPT ![g] = [pc |-> "received", relayer |-> r]]
        /\ inUse' = inUse /\ caller[g].pc = "claiming"
    BY <1>4 DEF Receive
  <2>2. Distinct(available') /\ Elements(available') = Elements(available) \ {r}
    BY <1>0, <2>1, TailElements
  <2>3. r \in Relayers /\ r \in Elements(available)
    <3>1. 1 \in DOMAIN available /\ Head(available) = available[1]
      BY <1>0, <2>1
    <3> QED
      BY <1>0, <2>1, <3>1 DEF Elements
  <2> HIDE DEF r
  <2> QED
    BY <1>0, <2>1, <2>2, <2>3
<1>5. ASSUME NEW g \in Goroutines, MarkInUse(g) PROVE Conservation'
  BY <1>0, <1>5 DEF MarkInUse
<1>6. ASSUME NEW g \in Goroutines, Unmark(g) PROVE Conservation'
  <2>1. CASE caller[g].relayer \in inUse
    <3> DEFINE r == caller[g].relayer
    <3>1. /\ r \in inUse /\ inUse' = inUse \ {r} /\ available' = available
          /\ caller' = [caller EXCEPT ![g].pc = "pushing"] /\ caller[g].pc = "holding"
      BY <1>6, <2>1 DEF Unmark
    <3>2. \A h \in Goroutines, q \in Relayers :
             Carries(h, q)' <=> Carries(h, q) \/ (h = g /\ q = r)
      BY <1>0, <3>1
    <3> HIDE DEF r, Carries
    <3> QED
      BY <1>0, <3>1, <3>2
  <2>2. CASE caller[g].relayer \notin inUse
    BY <1>0, <1>6, <2>2 DEF Unmark, Idle
  <2> QED
    BY <2>1, <2>2
<1>7. ASSUME NEW g \in Goroutines, Push(g) PROVE Conservation'
  <2> DEFINE r == caller[g].relayer
  <2>1. /\ r \in Relayers /\ r \notin Elements(available)
        /\ available' = Append(available, r) /\ inUse' = inUse
        /\ caller' = [caller EXCEPT ![g] = Idle] /\ caller[g].pc = "pushing"
    BY <1>0, <1>7 DEF Push
  <2>2. Distinct(available') /\ Elements(available') = Elements(available) \cup {r}
    BY <1>0, <2>1, AppendElements
  <2> QED
    BY <1>0, <2>1, <2>2 DEF Idle
<1>8. ASSUME NEW g \in Goroutines, NEW r \in Relayers, StrayRelease(g, r) PROVE Conservation'
  BY <1>0, <1>8 DEF StrayRelease
<1> QED
  BY <1>1, <1>2, <1>3, <1>4, <1>5, <1>6, <1>7, <1>8 DEF AnyNext, PoolNext, PoolStep

LEMMA ConservationInit == PoolInit => Conservation
<1> SUFFICES ASSUME PoolInit PROVE Conservation
  OBVIOUS
<1>1. \A g \in Goroutines : caller[g].pc \in {"idle", "holding"}
  BY DEF PoolInit, Idle
<1> QED
  BY <1>1, OrderAssumption DEF PoolInit, Conservation, Queued, InTransit, Carries

\* Whatever its callers release, the pool never loses a relayer and never has
\* the same one in two places.
THEOREM PoolConserves == AnySpec => []Conservation
<1>1. PoolInit => TypeInv /\ Conservation
  BY TypeInit, ConservationInit
<1>2. TypeInv /\ Conservation /\ [AnyNext]_poolVars => (TypeInv /\ Conservation)'
  BY TypeStep, ConservationStep
<1> QED
  BY <1>1, <1>2, PTL DEF AnySpec

-----------------------------------------------------------------------------
\* Why two goroutines cannot hold one relayer: once the boot loop has passed, a
\* held relayer is marked in use, and until then it is still among the queued
\* ones the loop has yet to look at.
LeaseInv ==
  /\ TypeInv
  /\ Conservation
  /\ Exclusive
  /\ unscanned > 0 => \A g \in Goroutines : caller[g].pc \in {"idle", "holding"}
  /\ \A g \in Goroutines : caller[g].pc = "holding" =>
        \/ caller[g].relayer \in inUse
        \/ \E i \in 1..unscanned : available[i] = caller[g].relayer
LEMMA LeaseInvStep == LeaseInv /\ [PoolNext]_poolVars => LeaseInv'
<1> SUFFICES ASSUME LeaseInv, [PoolNext]_poolVars PROVE LeaseInv'
  OBVIOUS
<1>0. TypeInv' /\ Conservation'
  BY TypeStep, ConservationStep DEF LeaseInv, AnyNext
<1>t. /\ available \in Seq(Relayers) /\ inUse \subseteq Relayers /\ unscanned \in Nat
      /\ unscanned <= Len(available) /\ caller \in [Goroutines -> Caller]
      /\ \A g \in Goroutines : caller[g].pc \in {"received", "holding", "pushing"}
                                  => caller[g].relayer \in Relayers
  BY DEF LeaseInv, TypeInv, PoolTypeOK, Caller
<1> DEFINE Boot == unscanned > 0 => \A g \in Goroutines : caller[g].pc \in {"idle", "holding"}
           Marked == \A g \in Goroutines : caller[g].pc = "holding" =>
                        \/ caller[g].relayer \in inUse
                        \/ \E i \in 1..unscanned : available[i] = caller[g].relayer
<1>i. Boot /\ Marked /\ Exclusive /\ Conservation
  BY DEF LeaseInv
<1> SUFFICES Boot' /\ Marked' /\ Exclusive'
  BY <1>0 DEF LeaseInv
<1>1. CASE UNCHANGED poolVars
  BY <1>1, <1>i DEF poolVars, Exclusive, Owns
<1>2. CASE ReserveAtStartup
  <2>1. /\ unscanned \in Nat \ {0} /\ unscanned' = unscanned - 1 /\ caller' = caller
    BY <1>t, <1>2 DEF ReserveAtStartup
  <2>2. Boot' /\ Exclusive'
    BY <1>i, <2>1 DEF Exclusive, Owns
  <2>3. available # <<>> /\ Head(available) = available[1] /\ Len(available) \in Nat
        /\ Len(Tail(available)) = Len(available) - 1
        /\ \A i \in 1..Len(Tail(available)) : Tail(available)[i] = available[i + 1]
    BY <1>t, <2>1
  <2>4. /\ \A i \in 1..unscanned' : available'[i] = available[i + 1]
        /\ inUse \subseteq inUse'
    <3>1. CASE available' = Tail(available) /\ inUse' = inUse \cup {Head(available)}
      BY <1>t, <2>1, <2>3, <3>1
    <3>2. CASE available' = Append(Tail(available), Head(available)) /\ UNCHANGED inUse
      <4>1. Tail(available) \in Seq(Relayers) /\ Head(available) \in Relayers
        BY <1>t, <2>3
      <4>2. \A i \in 1..Len(Tail(available)) : available'[i] = Tail(available)[i]
        BY <3>2, <4>1
      <4>3. \A i \in 1..unscanned' : i \in 1..Len(Tail(available))
        BY <1>t, <2>1, <2>3
      <4> QED
        BY <2>3, <3>2, <4>2, <4>3
    <3> QED
      BY <1>2, <3>1, <3>2 DEF ReserveAtStartup
  <2>5. ASSUME NEW g \in Goroutines, caller'[g].pc = "holding"
        PROVE  \/ caller'[g].relayer \in inUse'
               \/ \E i \in 1..unscanned' : available'[i] = caller'[g].relayer
    <3>1. CASE caller[g].relayer \in inUse
      BY <2>1, <2>4, <3>1
    <3>2. CASE \E i \in 1..unscanned : available[i] = caller[g].relayer
      <4>1. PICK i \in 1..unscanned : available[i] = caller[g].relayer
        BY <3>2
      <4>2. CASE i = 1
        <5>1. Head(available) = caller[g].relayer
          BY <2>3, <4>1, <4>2
        <5>2. Head(available) \in inUse'
          BY <1>2, <2>1, <2>5, <5>1 DEF ReserveAtStartup
        <5> QED
          BY <2>1, <5>1, <5>2
      <4>3. CASE i # 1
        <5>1. i - 1 \in 1..unscanned' /\ available'[i - 1] = available[i]
          BY <2>1, <2>4, <4>1, <4>3
        <5> QED
          BY <2>1, <4>1, <5>1
      <4> QED
        BY <4>2, <4>3
    <3> QED
      BY <1>i, <2>1, <2>5, <3>1, <3>2
  <2> QED
    BY <2>2, <2>5
<1>3. ASSUME NEW g \in Goroutines, PoolStep(g) PROVE Boot' /\ Marked' /\ Exclusive'
  <2>1. unscanned = 0 /\ unscanned' = 0
    BY <1>3 DEF PoolStep, Serving
  <2>2. \A h \in Goroutines : caller[h].pc = "holding" => caller[h].relayer \in inUse
    BY <1>i, <2>1
  <2>3. Boot'
    BY <2>1
  <2>4. \A h \in Goroutines : caller'[h].pc = "holding" => caller'[h].relayer \in inUse'
    <3>1. CASE Claim(g)
      BY <1>t, <2>2, <3>1 DEF Claim
    <3>c. CASE ClaimCancelled(g)
      BY <1>t, <2>2, <3>c DEF ClaimCancelled, Idle
    <3>2. CASE Receive(g)
      BY <1>t, <2>2, <3>2 DEF Receive
    <3>3. CASE MarkInUse(g)
      BY <1>t, <2>2, <3>3 DEF MarkInUse
    <3>4. CASE Unmark(g)
      <4>1. /\ caller[g].pc = "holding" /\ caller[g].relayer \in inUse
            /\ inUse' = inUse \ {caller[g].relayer}
            /\ caller' = [caller EXCEPT ![g].pc = "pushing"]
        BY <2>2, <3>4 DEF Unmark
      <4>2. ASSUME NEW h \in Goroutines, h # g, caller[h].pc = "holding"
            PROVE  caller[h].relayer # caller[g].relayer
        BY <1>t, <1>i, <4>1, <4>2 DEF Exclusive, Owns
      <4>3. \A h \in Goroutines : caller'[h].pc = "holding" => h # g /\ caller'[h] = caller[h]
        BY <1>t, <4>1
      <4> QED
        BY <2>2, <4>1, <4>2, <4>3
    <3>5. CASE Push(g)
      BY <1>t, <2>2, <3>5 DEF Push, Idle
    <3> QED
      BY <1>3, <3>1, <3>c, <3>2, <3>3, <3>4, <3>5 DEF PoolStep
  <2>5. Exclusive'
    <3>1. CASE Claim(g) \/ ClaimCancelled(g) \/ MarkInUse(g) \/ Unmark(g) \/ Push(g)
      <4>1. ASSUME NEW h \in Goroutines, NEW r \in Relayers, Owns(h, r)' PROVE Owns(h, r)
        <5>1. CASE h # g
          <6>1. caller'[h] = caller[h]
            BY <1>t, <3>1, <5>1 DEF Claim, ClaimCancelled, MarkInUse, Unmark, Push
          <6> QED
            BY <4>1, <6>1 DEF Owns
        <5>2. CASE h = g /\ (Claim(g) \/ ClaimCancelled(g) \/ Push(g))
          <6>1. Claim(g) => caller'[g].pc = "claiming"
            BY <1>t DEF Claim
          <6>2. ClaimCancelled(g) \/ Push(g) => caller'[g].pc = "idle"
            BY <1>t DEF ClaimCancelled, Push, Idle
          <6> QED
            BY <4>1, <5>2, <6>1, <6>2 DEF Owns
        <5>3. CASE h = g /\ MarkInUse(g)
          BY <1>t, <4>1, <5>3 DEF MarkInUse, Owns
        <5>4. CASE h = g /\ Unmark(g)
          <6>1. caller[g].relayer \in inUse
            BY <2>2, <5>4 DEF Unmark
          <6>2. caller' = [caller EXCEPT ![g].pc = "pushing"]
            BY <5>4, <6>1 DEF Unmark
          <6>3. caller'[g].pc = "pushing"
            BY <1>t, <6>2
          <6> QED
            BY <4>1, <5>4, <6>3 DEF Owns
        <5> QED
          BY <3>1, <5>1, <5>2, <5>3, <5>4
      <4> QED
        BY <1>i, <4>1 DEF Exclusive
    <3>2. CASE Receive(g)
      <4> DEFINE r == Head(available)
      <4>1. available # <<>> /\ caller' = [caller EXCEPT ![g] = [pc |-> "received", relayer |-> r]]
        BY <3>2 DEF Receive
      <4>2. Queued(r) /\ r \in Relayers
        <5>1. 1 \in DOMAIN available /\ r = available[1]
          BY <1>t, <4>1
        <5> QED
          BY <1>t, <4>1, <5>1 DEF Queued, Elements
      <4> HIDE DEF r
      <4>3. \A h \in Goroutines : ~Owns(h, r)
        BY <1>i, <2>2, <4>2 DEF Conservation, Owns, InTransit, Carries
      <4>4. \A h \in Goroutines, q \in Relayers :
              Owns(h, q)' <=> ((h = g /\ q = r) \/ (h # g /\ Owns(h, q)))
        BY <1>t, <4>1 DEF Owns
      <4> QED
        BY <1>i, <4>3, <4>4 DEF Exclusive
    <3> QED
      BY <1>3, <3>1, <3>2 DEF PoolStep
  <2> QED
    BY <2>1, <2>3, <2>4, <2>5
<1> QED
  BY <1>1, <1>2, <1>3 DEF PoolNext

LEMMA LeaseInvInit == PoolInit => LeaseInv
<1> SUFFICES ASSUME PoolInit PROVE LeaseInv
  OBVIOUS
<1>1. PICK stuck \in [Goroutines -> Relayers \cup {NoRelayer}] :
        /\ \A g, h \in Goroutines : stuck[g] = stuck[h] /\ stuck[g] # NoRelayer => g = h
        /\ caller = [g \in Goroutines |-> IF stuck[g] = NoRelayer THEN Idle
                                          ELSE [pc |-> "holding", relayer |-> stuck[g]]]
  BY DEF PoolInit
<1>2. Exclusive
  BY <1>1 DEF Exclusive, Owns, Idle
<1>3. \A g \in Goroutines : caller[g].pc \in {"idle", "holding"}
  BY <1>1 DEF Idle
<1>4. ASSUME NEW g \in Goroutines, caller[g].pc = "holding"
      PROVE  \E i \in 1..unscanned : available[i] = caller[g].relayer
  <2>1. caller[g].relayer \in Elements(FirstOrder)
    BY <1>1, <1>4, OrderAssumption DEF Idle
  <2>2. DOMAIN FirstOrder = 1..Len(FirstOrder)
    BY OrderAssumption
  <2> QED
    BY <2>1, <2>2 DEF Elements, PoolInit
<1> QED
  BY <1>2, <1>3, <1>4, TypeInit, ConservationInit DEF LeaseInv

\* As long as callers release only what they claimed, no relayer ever has two
\* owners, not even one a submission from before a restart still holds.
THEOREM PoolExclusive == PoolSpec => []Exclusive
<1>1. PoolSpec => []LeaseInv
  BY LeaseInvInit, LeaseInvStep, PTL DEF PoolSpec
<1>2. LeaseInv => Exclusive
  BY DEF LeaseInv
<1> QED
  BY <1>1, <1>2, PTL
-----------------------------------------------------------------------------
\* The relayer pool as its callers see it: who holds each relayer.
Held == [r \in Relayers |-> IF \E g \in Goroutines : Owns(g, r)
                            THEN CHOOSE g \in Goroutines : Owns(g, r) ELSE NoRelayer]

\* A step leaves every claim as it was, or one goroutine that held nothing receives a
\* relayer nobody held, or one gives its relayer back.
LEMMA OwnersStep ==
  ASSUME LeaseInv, PoolNext
  PROVE  \/ \A h \in Goroutines, q \in Relayers : Owns(h, q)' <=> Owns(h, q)
         \/ \E g \in Goroutines, r \in Relayers :
              /\ \A h \in Goroutines : ~Owns(h, r)
              /\ \A q \in Relayers : ~Owns(g, q)
              /\ \A h \in Goroutines, q \in Relayers :
                   Owns(h, q)' <=> Owns(h, q) \/ (h = g /\ q = r)
         \/ \E g \in Goroutines, r \in Relayers :
              /\ Owns(g, r)
              /\ \A h \in Goroutines, q \in Relayers :
                   Owns(h, q)' <=> Owns(h, q) /\ ~(h = g /\ q = r)
<1>t. /\ available \in Seq(Relayers) /\ caller \in [Goroutines -> Caller]
      /\ \A g \in Goroutines : caller[g].pc \in {"received", "holding", "pushing"}
                                  => caller[g].relayer \in Relayers
  BY DEF LeaseInv, TypeInv, PoolTypeOK, Caller
<1>1. CASE ReserveAtStartup
  BY <1>1 DEF ReserveAtStartup, Owns
<1>2. ASSUME NEW g \in Goroutines, PoolStep(g),
             Claim(g) \/ ClaimCancelled(g) \/ MarkInUse(g) \/ Push(g)
      PROVE  \A h \in Goroutines, q \in Relayers : Owns(h, q)' <=> Owns(h, q)
  <2>1. CASE Claim(g)
    BY <1>t, <2>1 DEF Claim, Owns
  <2>2. CASE ClaimCancelled(g)
    BY <1>t, <2>2 DEF ClaimCancelled, Idle, Owns
  <2>3. CASE MarkInUse(g)
    BY <1>t, <2>3 DEF MarkInUse, Owns
  <2>4. CASE Push(g)
    BY <1>t, <2>4 DEF Push, Idle, Owns
  <2> QED
    BY <1>2, <2>1, <2>2, <2>3, <2>4
<1>3. ASSUME NEW g \in Goroutines, PoolStep(g), Receive(g)
      PROVE  \E r \in Relayers :
              /\ \A h \in Goroutines : ~Owns(h, r)
              /\ \A q \in Relayers : ~Owns(g, q)
              /\ \A h \in Goroutines, q \in Relayers :
                   Owns(h, q)' <=> Owns(h, q) \/ (h = g /\ q = r)
  <2> DEFINE r == Head(available)
  <2>1. /\ available # <<>> /\ caller[g].pc = "claiming"
        /\ caller' = [caller EXCEPT ![g] = [pc |-> "received", relayer |-> r]]
    BY <1>3 DEF Receive
  <2>2. Queued(r) /\ r \in Relayers
    <3>1. 1 \in DOMAIN available /\ r = available[1]
      BY <1>t, <2>1
    <3> QED
      BY <1>t, <2>1, <3>1 DEF Queued, Elements
  <2>3. \A h \in Goroutines : caller[h].pc = "holding" => caller[h].relayer \in inUse
    BY <1>3 DEF LeaseInv, PoolStep, Serving
  <2> HIDE DEF r
  <2>4. \A h \in Goroutines : ~Owns(h, r)
    BY <2>2, <2>3 DEF LeaseInv, Conservation, Owns, InTransit, Carries
  <2>5. \A q \in Relayers : ~Owns(g, q)
    BY <2>1 DEF Owns
  <2>6. \A h \in Goroutines, q \in Relayers : Owns(h, q)' <=> Owns(h, q) \/ (h = g /\ q = r)
    BY <1>t, <2>1 DEF Owns
  <2> QED
    BY <2>2, <2>4, <2>5, <2>6
<1>4. ASSUME NEW g \in Goroutines, PoolStep(g), Unmark(g)
      PROVE  \E r \in Relayers :
              /\ Owns(g, r)
              /\ \A h \in Goroutines, q \in Relayers :
                   Owns(h, q)' <=> Owns(h, q) /\ ~(h = g /\ q = r)
  <2>1. caller[g].pc = "holding" /\ caller[g].relayer \in inUse
    BY <1>4 DEF LeaseInv, PoolStep, Serving, Unmark
  <2>2. caller' = [caller EXCEPT ![g].pc = "pushing"]
    BY <1>4, <2>1 DEF Unmark
  <2>3. caller[g].relayer \in Relayers
    BY <1>t, <2>1
  <2> WITNESS caller[g].relayer \in Relayers
  <2> QED
    BY <1>t, <2>1, <2>2 DEF Owns
<1> QED
  BY <1>1, <1>2, <1>3, <1>4 DEF PoolNext, PoolStep

\* The step the abstract pool takes for it.
LEMMA LeaseStep == LeaseInv /\ LeaseInv' /\ [PoolNext]_poolVars => [Lease!LeaseNext]_Held
<1> SUFFICES ASSUME LeaseInv, LeaseInv', [PoolNext]_poolVars PROVE [Lease!LeaseNext]_Held
  OBVIOUS
<1>1. /\ \A g \in Goroutines, r \in Relayers : Owns(g, r) => Held[r] = g
      /\ \A r \in Relayers : (\A g \in Goroutines : ~Owns(g, r)) => Held[r] = NoRelayer
  BY DEF LeaseInv, Exclusive, Held
<1>2. /\ \A g \in Goroutines, r \in Relayers : Owns(g, r)' => Held'[r] = g
      /\ \A r \in Relayers : (\A g \in Goroutines : ~Owns(g, r)') => Held'[r] = NoRelayer
  BY DEF LeaseInv, Exclusive, Held
<1>3. Held = [r \in Relayers |-> Held[r]] /\ Held' = [r \in Relayers |-> Held'[r]]
  BY DEF Held
<1>4. ASSUME \A h \in Goroutines, q \in Relayers : Owns(h, q)' <=> Owns(h, q)
      PROVE  Held' = Held
  <2>1. \A r \in Relayers : Held'[r] = Held[r]
    BY <1>1, <1>2, <1>4
  <2> QED
    BY <1>3, <2>1
<1>5. CASE UNCHANGED poolVars
  BY <1>4, <1>5 DEF poolVars, Owns
<1>6. ASSUME NEW g \in Goroutines, NEW r \in Relayers,
             \A h \in Goroutines : ~Owns(h, r),
             \A q \in Relayers : ~Owns(g, q),
             \A h \in Goroutines, q \in Relayers :
               Owns(h, q)' <=> Owns(h, q) \/ (h = g /\ q = r)
      PROVE  Lease!Acquire(g, r)
  <2>1. Held[r] = NoRelayer
    BY <1>1, <1>6
  <2>2. \A q \in Relayers : Held[q] # g
    <3>1. ASSUME NEW q \in Relayers, Held[q] = g PROVE FALSE
      <4>1. \E h \in Goroutines : Owns(h, q)
        BY <1>1, <3>1, RelayerAssumption
      <4> QED
        BY <1>1, <1>6, <3>1, <4>1
    <3> QED
      BY <3>1
  <2>3. Held'[r] = g
    BY <1>2, <1>6
  <2>4. \A q \in Relayers \ {r} : Held'[q] = Held[q]
    BY <1>1, <1>2, <1>6
  <2>5. Held' = [Held EXCEPT ![r] = g]
    BY <1>3, <2>3, <2>4
  <2> QED
    BY <2>1, <2>2, <2>5 DEF Lease!Acquire, Held
<1>7. ASSUME NEW g \in Goroutines, NEW r \in Relayers,
             Owns(g, r),
             \A h \in Goroutines, q \in Relayers :
               Owns(h, q)' <=> Owns(h, q) /\ ~(h = g /\ q = r)
      PROVE  Lease!GiveBack(g, r)
  <2>1. Held[r] = g /\ Held'[r] = NoRelayer
    BY <1>1, <1>2, <1>7 DEF LeaseInv, Exclusive
  <2>2. \A q \in Relayers \ {r} : Held'[q] = Held[q]
    BY <1>1, <1>2, <1>7
  <2>3. Held' = [Held EXCEPT ![r] = NoRelayer]
    BY <1>3, <2>1, <2>2
  <2> QED
    BY <2>1, <2>3 DEF Lease!GiveBack, Held
<1>8. CASE PoolNext
  <2>1. CASE \A h \in Goroutines, q \in Relayers : Owns(h, q)' <=> Owns(h, q)
    BY <1>4, <2>1
  <2>2. CASE \E g \in Goroutines, r \in Relayers : Lease!Acquire(g, r) \/ Lease!GiveBack(g, r)
    BY <2>2 DEF Lease!LeaseNext
  <2> QED
    BY <1>6, <1>7, <1>8, <2>1, <2>2, OwnersStep
<1> QED
  BY <1>5, <1>4, <1>8

\* Callers that release what they claimed see a pool that gives each relayer to one of
\* them at a time, from boot on: the channel and the map together implement a lease.
THEOREM PoolIsALease == PoolSpec => ImplementsLease
<1>1. PoolSpec => []LeaseInv
  BY LeaseInvInit, LeaseInvStep, PTL DEF PoolSpec
<1>2. PoolInit => Lease!LeaseInit
  BY DEF Lease!LeaseInit
<1>3. LeaseInv /\ LeaseInv' /\ [PoolNext]_poolVars => [Lease!LeaseNext]_Held
  BY LeaseStep
<1> QED
  BY <1>1, <1>2, <1>3, PTL DEF PoolSpec, ImplementsLease, Lease!LeaseSpec, Held
=============================================================================
