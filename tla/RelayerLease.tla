---------------------------- MODULE RelayerLease ----------------------------
(***************************************************************************)
(* What the relayer pool promises its callers: a relayer belongs to one    *)
(* goroutine at a time, from the moment it is claimed until that goroutine *)
(* gives it back.  RelayerPool implements this module.                     *)
(***************************************************************************)
CONSTANTS Relayers,
          Goroutines,
          Free        \* not a goroutine

VARIABLE lease  \* lease[r]: the goroutine that holds relayer r, or Free

LeaseInit == lease \in [Relayers -> Goroutines \cup {Free}]

Acquire(g, r) == /\ lease[r] = Free
                 /\ \A q \in Relayers : lease[q] # g
                 /\ lease' = [lease EXCEPT ![r] = g]

GiveBack(g, r) == /\ lease[r] = g
                  /\ lease' = [lease EXCEPT ![r] = Free]

LeaseNext == \E g \in Goroutines, r \in Relayers : Acquire(g, r) \/ GiveBack(g, r)

LeaseSpec == LeaseInit /\ [][LeaseNext]_lease
=============================================================================
