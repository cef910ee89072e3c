-------------------------- MODULE NodeAssociation --------------------------
(***************************************************************************)
(* How a user proves to hold a node and puts it in a group                 *)
(* (rmneo/handlers/node/node_assoc, rmneo/db/assoc_request_db): a request  *)
(* is initiated, a device answers its challenge, and the node is added at  *)
(* once, or, when it is to join a Matter fabric, gets an operational       *)
(* certificate (NOC) first and is added when the user confirms.            *)
(*                                                                         *)
(* The row is read, checked, and written or deleted later, with no         *)
(* condition on what was read.                                             *)
(***************************************************************************)
EXTENDS Integers, FiniteSets

CONSTANTS
    AUser, NoUser,
    AGroup, NoAGroup,
    MatterGroup,        \* those of AGroup that are Matter fabrics
    ANode, NoANode,     \* nodes with a certificate in the registry
    AReq,               \* request ids
    AInvocation,
    AReadsMayLag

ASSUME AssociationConstants ==
    /\ NoUser \notin AUser
    /\ NoAGroup \notin AGroup
    /\ NoANode \notin ANode
    /\ AReq # {} /\ ANode \intersect AReq = {}
    /\ MatterGroup \subseteq AGroup

VARIABLES
    areq,               \* [AReq -> association request]
    staleAreq,          \* [AReq -> the row a lagging read returns]
    editor,             \* users and the groups whose nodes they may edit
    answers,            \* the challenges a node has signed: <<node, request>>
    noc,                \* certificates issued: <<request, invocation>>
    added,              \* history: <<user, node, group, request>>
    spent,              \* history: requests whose row was deleted
    assoc               \* [AInvocation -> what it holds]

assocVars == <<areq, staleAreq, editor, answers, noc, added, spent, assoc>>

\* A node without a certificate gets a random id: here, its request's.
NodeIdOf(q) == q
NodeIds == ANode \union AReq \union {NoANode}

AssocRequestEntry ==
    [status : {"absent", "pending", "verified"}, user : AUser \union {NoUser},
     group : AGroup \union {NoAGroup}, node : NodeIds, fresh : BOOLEAN]
NoEntry == [status |-> "absent", user |-> NoUser, group |-> NoAGroup,
            node |-> NoANode, fresh |-> FALSE]

AssocJob ==
    [pc : {"idle", "burn", "mint", "status", "delete", "add", "capability"},
     user : AUser \union {NoUser}, req : AReq, row : AssocRequestEntry,
     node : NodeIds]
NoAssocJob == [pc |-> "idle", user |-> NoUser, req |-> CHOOSE q \in AReq : TRUE,
               row |-> NoEntry, node |-> NoANode]

AssocInit ==
    /\ areq = [q \in AReq |-> NoEntry]
    /\ staleAreq = areq
    /\ editor = AUser \X AGroup
    /\ answers = {}
    /\ noc = {}
    /\ added = {}
    /\ spent = {}
    /\ assoc = [i \in AInvocation |-> NoAssocJob]

GetAssocRequestByID(q) == {areq[q], staleAreq[q]}

PutAssoc(q, e) ==
    /\ areq' = [areq EXCEPT ![q] = e]
    /\ staleAreq' = IF AReadsMayLag THEN staleAreq ELSE [staleAreq EXCEPT ![q] = e]

AssocCatchUp(q) ==
    /\ staleAreq[q] # areq[q]
    /\ staleAreq' = [staleAreq EXCEPT ![q] = areq[q]]
    /\ UNCHANGED <<areq, editor, answers, noc, added, spent, assoc>>

AssocAt(i, pc) == assoc[i].pc = pc
AssocGoto(i, pc) == assoc' = [assoc EXCEPT ![i].pc = pc]
AssocDone(i) == assoc' = [assoc EXCEPT ![i] = NoAssocJob]

---------------------------------------------------------------------------
(* handleInitiate: whoever sees the group may ask *)

StoreAssocRequest(u, g, q) ==
    /\ areq[q] = NoEntry
    /\ q \notin spent
    /\ PutAssoc(q, [status |-> "pending", user |-> u, group |-> g,
                    node |-> NoANode, fresh |-> TRUE])
    /\ UNCHANGED <<editor, answers, noc, added, spent, assoc>>

\* A device in the hands of its user signs a challenge.
SignChallenge(n, q) ==
    /\ areq[q] # NoEntry
    /\ answers' = answers \union {<<n, q>>}
    /\ UNCHANGED <<areq, staleAreq, editor, noc, added, spent, assoc>>

\* AssocRequestTTL runs out.
AssocExpires(q) ==
    /\ areq[q].fresh
    /\ areq' = [areq EXCEPT ![q].fresh = FALSE]
    /\ staleAreq' = [staleAreq EXCEPT ![q].fresh = FALSE]
    /\ UNCHANGED <<editor, answers, noc, added, spent, assoc>>

\* The caller's own row is downgraded or removed.
LoseEditRight(u, g) ==
    /\ <<u, g>> \in editor
    /\ editor' = editor \ {<<u, g>>}
    /\ UNCHANGED <<areq, staleAreq, answers, noc, added, spent, assoc>>

---------------------------------------------------------------------------
(* handleVerify *)

AssocRequestUsable(e, status) == e.status = status /\ e.fresh

\* The checks before a branch is taken: the caller's request, its group.
Admitted(u, g, e, status) ==
    /\ e # NoEntry
    /\ e.user = u
    /\ e.group = g
    /\ AssocRequestUsable(e, status)

AssocStart(i, u, q, e, n, pc) ==
    assoc' = [assoc EXCEPT ![i] =
                 [pc |-> pc, user |-> u, req |-> q, row |-> e, node |-> n]]

\* challenge_response: a wrong answer burns the request.
VerifyChallengeResponse(i, u, g, q, n) ==
    /\ AssocAt(i, "idle")
    /\ \E e \in GetAssocRequestByID(q) :
           /\ Admitted(u, g, e, "pending")
           /\ AssocStart(i, u, q, e, n,
                  IF <<n, q>> \in answers THEN "delete" ELSE "burn")
    /\ UNCHANGED <<areq, staleAreq, editor, answers, noc, added, spent>>

\* Mutant: the signature counts for a node that has been heard of before.
AttestedByName(n, q) ==
    IF n \in ANode THEN \E p \in AReq : <<n, p>> \in answers
    ELSE n = NodeIdOf(q)

\* verifyMatterAttestation: a node that names itself and has a certificate
\* must have signed; one that does not is given an id.
Attested(n, q) == IF n \in ANode THEN <<n, q>> \in answers ELSE n = NodeIdOf(q)

\* nocsr_elements, for a fabric only and with the nonce of the request; what
\* is refused here leaves the request as it was.
VerifyNOCSR(i, u, g, q, n) ==
    /\ AssocAt(i, "idle")
    /\ g \in MatterGroup
    /\ Attested(n, q)
    /\ \E e \in GetAssocRequestByID(q) :
           /\ Admitted(u, g, e, "pending")
           /\ AssocStart(i, u, q, e, n, "mint")
    /\ UNCHANGED <<areq, staleAreq, editor, answers, noc, added, spent>>

\* handleMatterVerifyWithCSR: the right to edit nodes, then the certificate.
GenerateDeviceNOC(i) ==
    /\ AssocAt(i, "mint")
    /\ <<assoc[i].user, assoc[i].row.group>> \in editor
    /\ noc' = noc \union {<<assoc[i].req, i>>}
    /\ AssocGoto(i, "status")
    /\ UNCHANGED <<areq, staleAreq, editor, answers, added, spent>>

\* An upsert of status, expiry and node: of a row deleted meanwhile it makes
\* one that names no user and no group.
UpdateAssocRequestStatus(i) ==
    /\ AssocAt(i, "status")
    /\ PutAssoc(assoc[i].req, [areq[assoc[i].req] EXCEPT !.status = "verified",
                                  !.node = assoc[i].node, !.fresh = TRUE])
    /\ AssocDone(i)
    /\ UNCHANGED <<editor, answers, noc, added, spent>>

BurnAssocRequest(i) ==
    /\ AssocAt(i, "burn")
    /\ PutAssoc(assoc[i].req, NoEntry)
    /\ spent' = spent \union {assoc[i].req}
    /\ AssocDone(i)
    /\ UNCHANGED <<editor, answers, noc, added>>

---------------------------------------------------------------------------
(* handleConfirm and confirmNodeAssociation *)

HandleConfirm(i, u, g, q) ==
    /\ AssocAt(i, "idle")
    /\ \E e \in GetAssocRequestByID(q) :
           /\ Admitted(u, g, e, "verified")
           /\ e.node # NoANode
           /\ AssocStart(i, u, q, e, e.node, "delete")
    /\ UNCHANGED <<areq, staleAreq, editor, answers, noc, added, spent>>

\* The request is deleted before the node is added.
ConfirmDeletes(i) ==
    /\ AssocAt(i, "delete")
    /\ PutAssoc(assoc[i].req, NoEntry)
    /\ spent' = spent \union {assoc[i].req}
    /\ AssocGoto(i, "add")
    /\ UNCHANGED <<editor, answers, noc, added>>

\* ShadowNodeAddToGroup, for a member who may edit the group's nodes.
ConfirmAdds(i) ==
    /\ AssocAt(i, "add")
    /\ <<assoc[i].user, assoc[i].row.group>> \in editor
    /\ added' = added \union
           {<<assoc[i].user, assoc[i].node, assoc[i].row.group, assoc[i].req>>}
    /\ AssocGoto(i, "capability")
    /\ UNCHANGED <<areq, staleAreq, editor, answers, noc, spent>>

\* invokeCapabilityLambda: asynchronous and outside this component.
InvokeCapabilityLambda(i) ==
    /\ AssocAt(i, "capability")
    /\ AssocDone(i)
    /\ UNCHANGED <<areq, staleAreq, editor, answers, noc, added, spent>>

\* A refusal (no right to edit the group's nodes) or a failed call ends the
\* request with what it has done so far.
AssocFails(i) ==
    /\ ~AssocAt(i, "idle")
    /\ AssocDone(i)
    /\ UNCHANGED <<areq, staleAreq, editor, answers, noc, added, spent>>

AssocNext ==
    \/ \E i \in AInvocation :
           \/ GenerateDeviceNOC(i) \/ UpdateAssocRequestStatus(i)
           \/ BurnAssocRequest(i) \/ ConfirmDeletes(i) \/ ConfirmAdds(i)
           \/ InvokeCapabilityLambda(i) \/ AssocFails(i)
           \/ \E u \in AUser, g \in AGroup, q \in AReq :
                  \/ HandleConfirm(i, u, g, q)
                  \/ \E n \in ANode : VerifyChallengeResponse(i, u, g, q, n)
                  \/ \E n \in ANode \union {NodeIdOf(q)} : VerifyNOCSR(i, u, g, q, n)
    \/ \E q \in AReq :
           \/ AssocCatchUp(q) \/ AssocExpires(q)
           \/ \E n \in ANode : SignChallenge(n, q)
           \/ \E u \in AUser, g \in AGroup : StoreAssocRequest(u, g, q)
    \/ \E u \in AUser, g \in AGroup : LoseEditRight(u, g)

AssocSpec == AssocInit /\ [][AssocNext]_assocVars

---------------------------------------------------------------------------
(* Properties *)

AssocTypeOK ==
    /\ areq \in [AReq -> AssocRequestEntry]
    /\ staleAreq \in [AReq -> AssocRequestEntry]
    /\ editor \subseteq AUser \X AGroup
    /\ answers \subseteq ANode \X AReq
    /\ noc \subseteq AReq \X AInvocation
    /\ added \subseteq AUser \X NodeIds \X AGroup \X AReq
    /\ spent \subseteq AReq
    /\ assoc \in [AInvocation -> AssocJob]

\* A node is put in a group only on a request whose challenge that node has
\* signed, and one without a certificate only under the id made up for that
\* request, in a fabric: the node a confirmation names, written by another
\* invocation and maybe over another's, never lost that proof.
AddedWithProof ==
    \A a \in added :
        IF a[2] \in ANode THEN <<a[2], a[4]>> \in answers
        ELSE a[2] = NodeIdOf(a[4]) /\ a[3] \in MatterGroup

\* A request once deleted, consumed or burnt by a wrong answer, starts no
\* other invocation, even when the status update of an earlier one has made
\* its row anew (for reads that return the latest write).
SpentStaysSpent ==
    [][\A i \in AInvocation :
          AssocAt(i, "idle") /\ assoc'[i].pc # "idle" =>
              assoc'[i].req \notin spent]_assocVars

===========================================================================
