---------------------------- MODULE NodeRegistry ----------------------------
(***************************************************************************)
(* The nodes of the deployment (rmneo/node/node.go, awsutils/iotutil,      *)
(* rmneo/db/node_details_db): a node is an IoT thing, certificates         *)
(* attached to it, policies attached to those, and a row in rmng-nodes     *)
(* that says it is registered.  A registration makes the four in order and *)
(* undoes what it made when a call fails; an update puts a new certificate *)
(* in the place of the ones it finds.  Each AWS call is a step.            *)
(*                                                                         *)
(* As AWS documents them, a thing with principals is not deleted, nor is a *)
(* certificate that has a policy or a thing.                               *)
(***************************************************************************)
EXTENDS Integers, FiniteSets

CONSTANTS
    FleetNode,
    MaxCerts,           \* bound: certificates signed for a node
    RegCall,            \* concurrent invocations that register or update
    RegCallsMayFail,    \* an AWS call fails, or the process dies
    AnyCert             \* old certificates and other nodes' are submitted too

ASSUME RegistryConstants ==
    /\ FleetNode # {}
    /\ MaxCerts \in Nat \ {0}

VARIABLES
    certSt,             \* [Certificate -> its status in IoT]
    policies,           \* [Certificate -> policies attached]
    principals,         \* attachments: <<node, certificate>>
    things,
    nodeRow,            \* [FleetNode -> type of the rmng-nodes row]
    reg,                \* [RegCall -> what it holds]
    overlapped          \* history: two calls ran at once

registryVars == <<certSt, policies, principals, things, nodeRow, reg, overlapped>>

\* A certificate carries the node's id as its common name.
Certificate == FleetNode \X (1..MaxCerts)
CommonName(c) == c[1]

Policies == {"base", "bridge"}
LiveCerts(n) == {c \in Certificate : <<n, c>> \in principals /\ certSt[c] = "active"}

RegPc == {"idle", "cert", "thing", "attach", "policy", "row", "drop", "kill",
          "type", "undoThing", "undoDetach", "undoCert"}
RegJob == [pc : RegPc, update : BOOLEAN, node : FleetNode, cert : Certificate,
           fresh : BOOLEAN, bridge : BOOLEAN, made : SUBSET {"cert", "thing"},
           old : SUBSET Certificate, carry : SUBSET Policies]
IdleRegJob == [pc |-> "idle", update |-> FALSE, node |-> CHOOSE n \in FleetNode : TRUE,
            cert |-> CHOOSE c \in Certificate : TRUE, fresh |-> FALSE, bridge |-> FALSE,
            made |-> {}, old |-> {}, carry |-> {}]

RegistryInit ==
    /\ certSt = [c \in Certificate |-> "none"]
    /\ policies = [c \in Certificate |-> {}]
    /\ principals = {}
    /\ things = {}
    /\ nodeRow = [n \in FleetNode |-> "none"]
    /\ reg = [i \in RegCall |-> IdleRegJob]
    /\ overlapped = FALSE

RegAt(i, pc) == reg[i].pc = pc
RegGoto(i, pc) == reg' = [reg EXCEPT ![i].pc = pc]
RegDone(i) == reg' = [reg EXCEPT ![i] = IdleRegJob]

\* What callers submit: new certificates of the node, or, while no other call
\* runs, one submitted before that is active or was deleted.
Busy == {j \in RegCall : ~RegAt(j, "idle")}
Submitted(n, c) ==
    AnyCert \/ /\ CommonName(c) = n
               /\ \/ certSt[c] = "none" /\ \A j \in Busy : reg[j].fresh /\ reg[j].cert # c
                  \/ certSt[c] \in {"active", "deleted"} /\ Busy = {}

---------------------------------------------------------------------------
(* RegisterNodeInRmng *)

\* The look-up only spares the work for a known node: one that fails is ignored.
RegisterNode(i, c, bridge) ==
    /\ RegAt(i, "idle")
    /\ nodeRow[CommonName(c)] = "none" \/ RegCallsMayFail
    /\ reg' = [reg EXCEPT ![i] = [IdleRegJob EXCEPT
                  !.pc = "cert", !.node = CommonName(c), !.cert = c,
                  !.fresh = certSt[c] = "none", !.bridge = bridge]]
    /\ overlapped' = (overlapped \/ Busy # {})
    /\ UNCHANGED <<certSt, policies, principals, things, nodeRow>>

\* A certificate IoT knows is taken as it is.
RegisterCert(i) ==
    LET c == reg[i].cert IN
    /\ RegAt(i, "cert")
    /\ IF certSt[c] \in {"none", "deleted"}
       THEN /\ certSt' = [certSt EXCEPT ![c] = "active"]
            /\ reg' = [reg EXCEPT ![i].made = @ \union {"cert"},
                         ![i].pc = IF reg[i].update THEN "attach" ELSE "thing"]
       ELSE /\ RegGoto(i, IF reg[i].update THEN "attach" ELSE "thing")
            /\ UNCHANGED certSt
    /\ UNCHANGED <<policies, principals, things, nodeRow, overlapped>>

CreateFleetThing(i) ==
    /\ RegAt(i, "thing")
    /\ things' = things \union {reg[i].node}
    /\ reg' = [reg EXCEPT ![i].pc = "attach",
                          ![i].made = IF reg[i].node \in things THEN @
                                      ELSE @ \union {"thing"}]
    /\ UNCHANGED <<certSt, policies, principals, nodeRow, overlapped>>

\* Either is gone when another call undid it.
Attachable(i) == reg[i].node \in things /\ certSt[reg[i].cert] # "deleted"

AttachCertificateToThing(i) ==
    /\ RegAt(i, "attach") /\ Attachable(i)
    /\ principals' = principals \union {<<reg[i].node, reg[i].cert>>}
    /\ RegGoto(i, "policy")
    /\ UNCHANGED <<certSt, policies, things, nodeRow, overlapped>>

\* AttachDefaultPolicy, the old certificates' policies, the register hook's.
AttachPolicies(i) ==
    /\ RegAt(i, "policy") /\ Attachable(i)
    /\ policies' = [policies EXCEPT ![reg[i].cert] =
                       @ \union {"base"} \union reg[i].carry
                         \union (IF reg[i].bridge THEN {"bridge"} ELSE {})]
    /\ RegGoto(i, IF reg[i].update THEN "drop" ELSE "row")
    /\ UNCHANGED <<certSt, principals, things, nodeRow, overlapped>>

\* The row is created by the first of two; a failed write is only logged.
AddNodeRow(i) ==
    /\ RegAt(i, "row")
    /\ LET n == reg[i].node IN
       \/ nodeRow' = IF nodeRow[n] # "none" THEN nodeRow
                     ELSE [nodeRow EXCEPT ![n] = IF reg[i].bridge THEN "bridge" ELSE "plain"]
       \/ RegCallsMayFail /\ UNCHANGED nodeRow
    /\ RegDone(i)
    /\ UNCHANGED <<certSt, policies, principals, things, overlapped>>

---------------------------------------------------------------------------
(* rollbackTracker: the deferred rollback of a registration *)

DeleteThing(i) ==
    /\ RegAt(i, "undoThing")
    /\ things' = IF /\ "thing" \in reg[i].made
                    /\ \A c \in Certificate : <<reg[i].node, c>> \notin principals
                 THEN things \ {reg[i].node} ELSE things
    /\ RegGoto(i, "undoDetach")
    /\ UNCHANGED <<certSt, policies, principals, nodeRow, overlapped>>

DetachThingPrincipal(i) ==
    /\ RegAt(i, "undoDetach")
    /\ principals' = IF reg[i].made = {"cert", "thing"}
                     THEN principals \ {<<reg[i].node, reg[i].cert>>} ELSE principals
    /\ RegGoto(i, "undoCert")
    /\ UNCHANGED <<certSt, policies, things, nodeRow, overlapped>>

DeleteCertificate(i) ==
    LET c == reg[i].cert
        held == policies[c] # {} \/ \E n \in FleetNode : <<n, c>> \in principals IN
    /\ RegAt(i, "undoCert")
    /\ certSt' = IF "cert" \notin reg[i].made THEN certSt
                 ELSE [certSt EXCEPT ![c] = IF held THEN "inactive" ELSE "deleted"]
    /\ RegDone(i)
    /\ UNCHANGED <<policies, principals, things, nodeRow, overlapped>>

\* A call fails: a registration is undone, an update just ends.  The attempt
\* may have attached the default policy before the hook failed.
RegCallFails(i) ==
    /\ reg[i].pc \in {"cert", "thing", "attach", "policy"}
    /\ RegCallsMayFail \/ (reg[i].pc \in {"attach", "policy"} /\ ~Attachable(i))
    /\ IF reg[i].update THEN RegDone(i) ELSE RegGoto(i, "undoThing")
    /\ \/ UNCHANGED policies
       \/ /\ RegAt(i, "policy") /\ Attachable(i)
          /\ policies' = [policies EXCEPT ![reg[i].cert] = @ \union {"base"}]
    /\ UNCHANGED <<certSt, principals, things, nodeRow, overlapped>>

\* The process dies: what it made stays.
RegCallDies(i) ==
    /\ RegCallsMayFail
    /\ ~RegAt(i, "idle")
    /\ RegDone(i)
    /\ UNCHANGED <<certSt, policies, principals, things, nodeRow, overlapped>>

---------------------------------------------------------------------------
(* UpdateNodeInRmng with a certificate: replaceNodeCert *)

\* Mutant: the new certificate is not recognised among those it replaces.
UpdateDroppingAll(i, n, c, bridge) ==
    LET others == LiveCerts(n) IN
    /\ RegAt(i, "idle")
    /\ nodeRow[n] # "none"
    /\ reg' = [reg EXCEPT ![i] =
                  [pc |-> "cert", update |-> TRUE, node |-> n, cert |-> c,
                   fresh |-> certSt[c] = "none", bridge |-> bridge, made |-> {}, old |-> others,
                   carry |-> UNION {policies[o] : o \in others}]]
    /\ overlapped' = (overlapped \/ Busy # {})
    /\ UNCHANGED <<certSt, policies, principals, things, nodeRow>>

\* A registered node's active certificates are listed before anything changes.
UpdateNode(i, n, c, bridge) ==
    LET others == LiveCerts(n) \ {c} IN
    /\ RegAt(i, "idle")
    /\ nodeRow[n] # "none"
    /\ reg' = [reg EXCEPT ![i] =
                  [pc |-> "cert", update |-> TRUE, node |-> n, cert |-> c,
                   fresh |-> certSt[c] = "none", bridge |-> bridge, made |-> {}, old |-> others,
                   carry |-> UNION {policies[o] : o \in others}]]
    /\ overlapped' = (overlapped \/ Busy # {})
    /\ UNCHANGED <<certSt, policies, principals, things, nodeRow>>

\* Each of them is detached, then made inactive.
DetachOld(i) ==
    /\ RegAt(i, "drop")
    /\ \E o \in reg[i].old :
          /\ principals' = principals \ {<<reg[i].node, o>>}
          /\ reg' = [reg EXCEPT ![i].pc = "kill", ![i].carry = {}]
    /\ UNCHANGED <<certSt, policies, things, nodeRow, overlapped>>

\* Mutant: the loop ends after the first of them.
DeactivateFirst(i) ==
    /\ RegAt(i, "kill")
    /\ \E o \in reg[i].old :
          /\ <<reg[i].node, o>> \notin principals
          /\ certSt' = [certSt EXCEPT ![o] = IF @ = "deleted" THEN @ ELSE "inactive"]
          /\ reg' = [reg EXCEPT ![i].old = {}, ![i].pc = "drop"]
    /\ UNCHANGED <<policies, principals, things, nodeRow, overlapped>>

DeactivateOld(i) ==
    /\ RegAt(i, "kill")
    /\ \E o \in reg[i].old :
          /\ <<reg[i].node, o>> \notin principals
          /\ certSt' = [certSt EXCEPT ![o] = IF @ = "deleted" THEN @ ELSE "inactive"]
          /\ reg' = [reg EXCEPT ![i].old = @ \ {o}, ![i].pc = "drop"]
    /\ UNCHANGED <<policies, principals, things, nodeRow, overlapped>>

\* SetNodeType, when the hook gave one.
SetNodeType(i) ==
    /\ RegAt(i, "drop")
    /\ reg[i].old = {}
    /\ nodeRow' = [nodeRow EXCEPT ![reg[i].node] = IF reg[i].bridge THEN "bridge" ELSE @]
    /\ RegDone(i)
    /\ UNCHANGED <<certSt, policies, principals, things, overlapped>>

RegistryStep(i) ==
    \/ RegisterCert(i) \/ CreateFleetThing(i) \/ AttachCertificateToThing(i)
    \/ AttachPolicies(i) \/ AddNodeRow(i)
    \/ DeleteThing(i) \/ DetachThingPrincipal(i) \/ DeleteCertificate(i)
    \/ RegCallFails(i) \/ RegCallDies(i)
    \/ DetachOld(i) \/ DeactivateOld(i) \/ SetNodeType(i)

RegistryNext ==
    \E i \in RegCall :
       \/ \E c \in Certificate, b \in BOOLEAN :
             Submitted(CommonName(c), c) /\ RegisterNode(i, c, b)
       \/ \E n \in FleetNode, c \in Certificate, b \in BOOLEAN :
             Submitted(n, c) /\ UpdateNode(i, n, c, b)
       \/ RegistryStep(i)

RegistrySpec == RegistryInit /\ [][RegistryNext]_registryVars

---------------------------------------------------------------------------
(* Properties *)

\* Every variable has its type.
RegistryTypeOK ==
    /\ certSt \in [Certificate -> {"none", "active", "inactive", "deleted"}]
    /\ policies \in [Certificate -> SUBSET Policies]
    /\ principals \subseteq FleetNode \X Certificate
    /\ things \subseteq FleetNode
    /\ nodeRow \in [FleetNode -> {"none", "plain", "bridge"}]
    /\ reg \in [RegCall -> RegJob]
    /\ overlapped \in BOOLEAN

\* A registered node can connect: one of its certificates is attached, active
\* and has the policy of nodes, whatever registrations and updates failed, died
\* or ran into each other on the way.  A bridge may also speak for its children,
\* even when an update that does not name the capability replaced its
\* certificate, unless calls overlapped.
RegisteredCanConnect ==
    \A n \in FleetNode :
       /\ nodeRow[n] # "none" => \E c \in LiveCerts(n) : "base" \in policies[c]
       /\ nodeRow[n] = "bridge" /\ ~overlapped =>
             \E c \in LiveCerts(n) : "bridge" \in policies[c]

\* An update that ends well leaves the new certificate as the only one the node
\* can use, also after updates that failed half way: replaceNodeCert drops all
\* it finds, for "leaving the wrong cert active" would defeat its purpose.
UpdateEnds(i) == reg[i].update /\ RegAt(i, "drop") /\ reg[i].old = {}
UpdateLeavesOne ==
    [][\A i \in RegCall :
          UpdateEnds(i) /\ SetNodeType(i) /\ ~overlapped =>
             LiveCerts(reg[i].node) = {reg[i].cert}]_registryVars
=============================================================================
