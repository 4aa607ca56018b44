----------------------------- MODULE MCServices -----------------------------
(***************************************************************************)
(* Accounts have three keys and two rows.  A behaviour of theirs starts at *)
(* the first boot and serves one request, or with an account that was      *)
(* registered, or deployed and enrolled, and serves two.  The requests of  *)
(* all components are the same model values, and so interchangeable.       *)
(***************************************************************************)
EXTENDS Services, TLC
CONSTANTS k1, k2, k3, r1, r2, r3, r4

\* An account with or without a deployed wallet that is enrolled in both recoveries.
Account(deployed) ==
  LET a == SafeOf(k1) IN
  /\ user = [u \in UserIds |-> IF u > 1 THEN NoUser ELSE
               [status |-> "live", signer |-> k1, address |-> a, deployed |-> deployed,
                account |-> TRUE, wallet |-> deployed, answers |-> TRUE]]
  /\ wallets = {<<1, a>>} /\ members = (IF deployed THEN {<<a, k1>>} ELSE {})
  /\ groups = (IF deployed THEN {a} ELSE {}) /\ code = [c \in Codes |-> 0]
  /\ safe = [s \in Safes |-> IF s = a /\ deployed
               THEN [state |-> "deployed", owners |-> {k1, Service}, guard |-> TRUE, nonce |-> 2]
               ELSE [state |-> "absent", owners |-> {}, guard |-> FALSE, nonce |-> 0]]
  /\ platform = [service |-> TRUE, guard |-> TRUE, code |-> TRUE, boot |-> "up"]
  /\ request = [r \in Requests |-> Idle]
  /\ faults = 0 /\ unrecorded = {}

FirstBoot == Empty /\ request = [r \in Requests |-> IF r = r1 THEN Idle ELSE Over]

MCGrades == {<<"GOLD", "MONTHLY">>, <<"GOLD", "LIFETIME">>, <<"PLATINUM", "LIFETIME">>}

MCSpec == ServicesInit(FirstBoot \/ \E deployed \in BOOLEAN : Account(deployed)) /\ [][ServicesNext]_servicesVars

Symmetry == Permutations({k2, k3}) \cup Permutations({r1, r2})
=============================================================================
