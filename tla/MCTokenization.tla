--------------------------- MODULE MCTokenization ---------------------------
(***************************************************************************)
(* One asset with four approvers, two of whom must sign, and two requests  *)
(* at a time.  A behaviour starts with an empty table, with a draft under  *)
(* way, or when the fee has been acknowledged; the mint may then have been *)
(* requested and signed by one approver.                                   *)
(***************************************************************************)
EXTENDS Tokenization

OneWindow == {<<1, 2>>}
At(status, vetted) == asset = [status |-> status, vetted |-> vetted, window |-> <<1, 2>>, token |-> 0]
SignedOnce == [NoMint EXCEPT !.status = "PENDING", !.signoffs = {CHOOSE a \in Approvers : TRUE}]
MCInit ==
  /\ \/ asset = NoAsset /\ mint = NoMint /\ calls = 0
     \/ At("APPLICATION_CONFIRMED", FALSE) /\ mint = NoMint /\ calls = 0
     \/ At("FEE_ACKNOWLEDGED", TRUE) /\ mint = SignedOnce /\ calls = 0
     \* where the mint is still to be requested, one more request is served
     \/ At("FEE_ACKNOWLEDGED", TRUE) /\ mint = NoMint /\ calls = 2
  /\ curated = {}
  /\ chain = [n \in TokenIds |-> NotIssued]
  /\ task = [t \in Tasks \cup {Worker} |-> Free]
  /\ now = 0 /\ tokenFaults = 0

MCSpec == MCInit /\ [][TokenizationNext]_tokenizationVars /\ WF_tokenizationVars(WorkerStep)
=============================================================================
