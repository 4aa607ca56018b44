---------------------------- MODULE ServiceLinks ----------------------------
(***************************************************************************)
(* Partners ("service links"): their standing, the consent they ask of a   *)
(* user, the callback that tells them of it, and their documents.  The     *)
(* handlers read a row and later save all of it, so that a row can be      *)
(* changed or deleted in between; a key is looked at when a request        *)
(* begins.  There is one user, whom every approval request is addressed    *)
(* to.                                                                     *)
(***************************************************************************)
EXTENDS Naturals

CONSTANTS Links,        \* service links
          Partners,     \* those created and verified before
          Approvals,    \* ids of approval requests: drawn at random, never drawn twice
          Documents,    \* ids of documents, likewise
          LinkCalls,    \* bound: requests and approval dispatchers
          MaxAttempts,  \* attempts to deliver a callback
          MaxLinkFaults \* bound: failed statements, calls and restarts

ASSUME LinksAssumption == MaxAttempts \in Nat \ {0} /\ MaxLinkFaults \in Nat

VARIABLES serviceLink, \* service_links
          approvalRow, \* service_link_approvals: the state, "gone" once deleted
          askedBy,     \* their service link
          expired,     \* requests past their ExpiresAt
          delivered,   \* callbacks the partner has received: external
          documentRow, \* stakeholder_documents: the owner, or "none"
          content,     \* the object storage
          call,        \* the requests: where they are, what they hold and what they did
          linkFaults

linkVars == <<serviceLink, approvalRow, askedBy, expired, delivered, documentRow, content, call, linkFaults>>
approvalVars == <<approvalRow, askedBy, expired, delivered>>
documentVars == <<documentRow, content>>

Unlisted == [verified |-> FALSE, suspended |-> FALSE, listed |-> FALSE]
NewCall  == [pc |-> "new", link |-> {}, item |-> {}, copy |-> Unlisted, attempts |-> 0, did |-> "nothing"]

LinksInit ==
  /\ serviceLink = [l \in Links |-> IF l \in Partners THEN [Unlisted EXCEPT !.verified = TRUE, !.listed = TRUE]
                                   ELSE Unlisted]
  /\ approvalRow = [a \in Approvals |-> "none"] /\ askedBy = [a \in Approvals |-> {}]
  /\ expired = {} /\ delivered = {}
  /\ documentRow = [d \in Documents |-> {}] /\ content = {}
  /\ call = [c \in LinkCalls |-> NewCall] /\ linkFaults = 0

CallAt(c, pc)      == call[c].pc = pc
CallTo(c, pc)      == call' = [call EXCEPT ![c].pc = pc]
CallDone(c, did)   == call' = [call EXCEPT ![c].pc = "over", ![c].did = did]
Hold(c, item, pc)  == call' = [call EXCEPT ![c].pc = pc, ![c].item = {item}]
TheItem(c)         == CHOOSE i \in Approvals \cup Documents : i \in call[c].item
TheLink(c)         == CHOOSE l \in Links : l \in call[c].link

-----------------------------------------------------------------------------
(* The standing of a service link: administrators.                         *)
CreateServiceLink(c, l) ==
  /\ CallAt(c, "new") /\ ~serviceLink[l].listed /\ CallTo(c, "over")
  /\ serviceLink' = [serviceLink EXCEPT ![l] = [Unlisted EXCEPT !.listed = TRUE]]
  /\ UNCHANGED <<approvalVars, documentVars, linkFaults>>

VerifyServiceLink(copy)     == [copy EXCEPT !.verified = TRUE]
SuspendServiceLink(copy)    == [copy EXCEPT !.suspended = TRUE]
ReactivateServiceLink(copy) == [copy EXCEPT !.suspended = FALSE]

GetServiceLink(c, l) ==
  /\ CallAt(c, "new") /\ serviceLink[l].listed
  /\ \E copy \in {VerifyServiceLink(serviceLink[l]), SuspendServiceLink(serviceLink[l]),
                  ReactivateServiceLink(serviceLink[l])} :
       call' = [call EXCEPT ![c] = [NewCall EXCEPT !.pc = "saveLink", !.link = {l}, !.copy = copy]]
  /\ UNCHANGED <<serviceLink, approvalVars, documentVars, linkFaults>>

SaveServiceLink(c) ==
  /\ CallAt(c, "saveLink") /\ CallTo(c, "over")
  /\ serviceLink' = [serviceLink EXCEPT ![TheLink(c)] = call[c].copy]
  /\ UNCHANGED <<approvalVars, documentVars, linkFaults>>

\* The request goes on with the link as it was here.
APIKeyAuth(c, l) ==
  /\ CallAt(c, "new") /\ serviceLink[l].verified /\ ~serviceLink[l].suspended
  /\ call' = [call EXCEPT ![c] = [NewCall EXCEPT !.pc = "partner", !.link = {l}, !.did = "admitted"]]
  /\ UNCHANGED <<serviceLink, approvalVars, documentVars, linkFaults>>

-----------------------------------------------------------------------------
(* Consent: requested by the partner, approved by the user, redeemed.      *)
RequestApproval(c, a) ==
  /\ CallAt(c, "partner") /\ approvalRow[a] = "none" /\ CallTo(c, "over")
  /\ approvalRow' = [approvalRow EXCEPT ![a] = "requested"]
  /\ askedBy' = [askedBy EXCEPT ![a] = call[c].link]
  /\ UNCHANGED <<serviceLink, expired, delivered, documentVars, linkFaults>>

ExpireApproval(a) ==
  /\ approvalRow[a] # "none" /\ a \notin expired /\ expired' = expired \cup {a}
  /\ UNCHANGED <<serviceLink, approvalRow, askedBy, delivered, documentVars, call, linkFaults>>

\* Approve, what it checks: the caller is the user it is addressed to.
Approve(c, a) ==
  /\ CallAt(c, "new") /\ approvalRow[a] = "requested" /\ a \notin expired /\ Hold(c, a, "approve")
  /\ UNCHANGED <<serviceLink, approvalVars, documentVars, linkFaults>>

\* Saves the row it read, which creates it again when it was redeemed meanwhile, and
\* only then starts the dispatcher.
SaveApproval(c) ==
  /\ CallAt(c, "approve")
  /\ approvalRow' = [approvalRow EXCEPT ![TheItem(c)] = "authorized"]
  /\ call' = [call EXCEPT ![c].pc = "dispatch", ![c].did = "approved"]
  /\ UNCHANGED <<serviceLink, askedBy, expired, delivered, documentVars, linkFaults>>

PostApprovalCallback(a) == delivered' = delivered \cup {a}

\* One attempt: received and acknowledged, or not acknowledged, received or not.
DispatchApprovalCallback(c) ==
  /\ CallAt(c, "dispatch")
  /\ \/ PostApprovalCallback(TheItem(c)) /\ CallTo(c, "over")
     \/ /\ PostApprovalCallback(TheItem(c)) \/ UNCHANGED delivered
        /\ call' = [call EXCEPT ![c].attempts = @ + 1,
                                ![c].pc = IF call[c].attempts + 1 = MaxAttempts THEN "over" ELSE @]
  /\ UNCHANGED <<serviceLink, approvalRow, askedBy, expired, documentVars, linkFaults>>

\* Mutant: the token is issued for a request that was not authorized.
VerifyUnauthorized(c, a) ==
  /\ CallAt(c, "partner") /\ askedBy[a] = call[c].link /\ approvalRow[a] \in {"requested", "authorized"}
  /\ Hold(c, a, "redeem")
  /\ UNCHANGED <<serviceLink, approvalVars, documentVars, linkFaults>>
\* What VerifyApproval checks before it issues the token ...
VerifyApproval(c, a) ==
  /\ CallAt(c, "partner") /\ askedBy[a] = call[c].link /\ approvalRow[a] = "authorized"
  /\ Hold(c, a, "redeem")
  /\ UNCHANGED <<serviceLink, approvalVars, documentVars, linkFaults>>

\* ... and the deletion, which does not look at whether the row was still there.
RedeemApproval(c) ==
  /\ CallAt(c, "redeem") /\ CallDone(c, "redeemed")
  /\ approvalRow' = [approvalRow EXCEPT ![TheItem(c)] = "gone"]
  /\ UNCHANGED <<serviceLink, askedBy, expired, delivered, documentVars, linkFaults>>

-----------------------------------------------------------------------------
(* Documents: the content is stored before its row and deleted before it.  *)
UploadStakeholderDocument(c, d) ==
  /\ CallAt(c, "partner") /\ d \notin content /\ documentRow[d] = {}
  /\ \A e \in LinkCalls : d \notin call[e].item
  /\ content' = content \cup {d} /\ Hold(c, d, "saveDocument")
  /\ UNCHANGED <<serviceLink, approvalVars, documentRow, linkFaults>>

SaveStakeholderDocument(c) ==
  /\ CallAt(c, "saveDocument") /\ CallTo(c, "over")
  /\ documentRow' = [documentRow EXCEPT ![TheItem(c)] = call[c].link]
  /\ UNCHANGED <<serviceLink, approvalVars, content, linkFaults>>

GetOwnedStakeholderDocument(c, d) ==
  /\ CallAt(c, "partner") /\ documentRow[d] = call[c].link
  /\ \E pc \in {"read", "erase"} : Hold(c, d, pc)
  /\ UNCHANGED <<serviceLink, approvalVars, documentVars, linkFaults>>

GetStakeholderDocument(c) ==
  /\ CallAt(c, "read") /\ CallDone(c, IF TheItem(c) \in content THEN "read" ELSE "nothing")
  /\ UNCHANGED <<serviceLink, approvalVars, documentVars, linkFaults>>

DeleteStakeholderDocument(c) ==
  /\ CallAt(c, "erase") /\ content' = content \ {TheItem(c)}
  /\ call' = [call EXCEPT ![c].pc = "unlist", ![c].did = "erased"]
  /\ UNCHANGED <<serviceLink, approvalVars, documentRow, linkFaults>>

DeleteDocumentRecord(c) ==
  /\ CallAt(c, "unlist") /\ CallTo(c, "over")
  /\ documentRow' = [documentRow EXCEPT ![TheItem(c)] = {}]
  /\ UNCHANGED <<serviceLink, approvalVars, content, linkFaults>>

-----------------------------------------------------------------------------
\* A statement fails, or the process restarts and drops the requests and dispatchers.
FailLinkCalls ==
  /\ linkFaults < MaxLinkFaults /\ linkFaults' = linkFaults + 1
  /\ \E cs \in {LinkCalls} \cup {{c} : c \in LinkCalls} :
       call' = [c \in LinkCalls |-> IF c \in cs /\ call[c].pc # "new" THEN [call[c] EXCEPT !.pc = "over"] ELSE call[c]]
  /\ UNCHANGED <<serviceLink, approvalVars, documentVars>>

AdminLinkRoutes(c)  == \E l \in Links : CreateServiceLink(c, l) \/ GetServiceLink(c, l)
ApprovalRoutes(c)   == \E a \in Approvals : RequestApproval(c, a) \/ Approve(c, a) \/ VerifyApproval(c, a)
DocumentRoutes(c)   == \E d \in Documents : UploadStakeholderDocument(c, d) \/ GetOwnedStakeholderDocument(c, d)

LinksNext ==
  \/ \E c \in LinkCalls :
       \/ AdminLinkRoutes(c) \/ ApprovalRoutes(c) \/ DocumentRoutes(c)
       \/ \E l \in Links : APIKeyAuth(c, l)
       \/ SaveServiceLink(c) \/ SaveApproval(c) \/ DispatchApprovalCallback(c) \/ RedeemApproval(c)
       \/ SaveStakeholderDocument(c) \/ GetStakeholderDocument(c) \/ DeleteStakeholderDocument(c)
       \/ DeleteDocumentRecord(c)
  \/ \E a \in Approvals : ExpireApproval(a)
  \/ FailLinkCalls

LinksSpec == LinksInit /\ [][LinksNext]_linkVars

-----------------------------------------------------------------------------
LinksTypeOK ==
  /\ serviceLink \in [Links -> [verified: BOOLEAN, suspended: BOOLEAN, listed: BOOLEAN]]
  /\ approvalRow \in [Approvals -> {"none", "requested", "authorized", "gone"}]
  /\ askedBy \in [Approvals -> SUBSET Links] /\ expired \subseteq Approvals /\ delivered \subseteq Approvals
  /\ documentRow \in [Documents -> SUBSET Links] /\ content \subseteq Documents
  /\ \A c \in LinkCalls :
       /\ call[c].pc \in {"new", "saveLink", "partner", "approve", "dispatch", "redeem", "saveDocument",
                          "read", "erase", "unlist", "over"}
       /\ call[c].link \subseteq Links /\ call[c].item \subseteq Approvals \cup Documents
       /\ call[c].attempts \in 0..MaxAttempts
       /\ call[c].did \in {"nothing", "admitted", "approved", "redeemed", "erased", "read"}
  /\ linkFaults \in 0..MaxLinkFaults

\* A partner collects a token, or is told of a consent, only after the user's approval was
\* saved, however requests are repeated, overtake each other or lose their process.
ConsentComesFirst ==
  \A a \in Approvals :
    a \in delivered \/ (\E c \in LinkCalls : call[c].did = "redeemed" /\ call[c].item = {a}) =>
      \E c \in LinkCalls : call[c].did = "approved" /\ call[c].item = {a}

\* A listed document can be read until somebody has begun to delete it.
DocumentsAreStored ==
  \A d \in Documents :
    documentRow[d] # {} => d \in content \/ \E c \in LinkCalls : call[c].did = "erased" /\ call[c].item = {d}
=============================================================================
