--------------------------- MODULE MCSharedAccess ---------------------------
(***************************************************************************)
(* Instances of SharedAccess for TLC: groups of two or three addresses,    *)
(* one or two concurrent requests, and up to three rows.                   *)
(***************************************************************************)
EXTENDS SharedAccess, TLC

\* A group of two approvers, and one with an outsider it may still admit.
TwoMembers   == 1..2
ThreeMembers == 1..3
BothApprove  == [m \in Members |-> IF m = 1 THEN "INITIATOR_APPROVER" ELSE "APPROVER"]
TwoOfThree   == [m \in Members |-> CASE m = 1 -> "INITIATOR_APPROVER"
                                     [] m = 2 -> "APPROVER"
                                     [] OTHER -> NoMember]

Payment      == NoProposal
PaymentsOnly == {Payment}

\* Every kind of management action, with thresholds on both sides of what the
\* owner set allows.
AddMember(m, r, n)  == [kind |-> "add_member", target |-> m, role |-> r, newThreshold |-> n]
RemoveMember(m, n)  == [kind |-> "remove_member", target |-> m, role |-> NoMember, newThreshold |-> n]
ChangeThreshold(n)  == [kind |-> "change_threshold", target |-> 0, role |-> NoMember, newThreshold |-> n]
DisableGroup        == [NoProposal EXCEPT !.kind = "disable_group"]
ManagementProposals ==
  {Payment, DisableGroup, ChangeThreshold(1), RemoveMember(2, 1),
   AddMember(3, "VIEW_ONLY", 2), AddMember(3, "APPROVER", 3)}
\* One address may be added in two ways, one of them without a call to the Safe.
AddTwice == {AddMember(3, "VIEW_ONLY", 2), AddMember(3, "APPROVER", 2)}

RequestSymmetry == Permutations(Requests)
=============================================================================
