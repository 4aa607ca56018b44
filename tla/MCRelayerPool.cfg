SPECIFICATION FairPoolSpec
CONSTANTS
  r1 = r1
  r2 = r2
  Relayers = {r1, r2}
  Goroutines = {g1, g2, g3}
  NoRelayer = none
  FirstOrder <- TwoRelayers
INVARIANTS
  PoolTypeOK
  Exclusive
  Conservation
PROPERTIES
  ImplementsLease
  ClaimIsServed
