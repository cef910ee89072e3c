---------------------------- MODULE FleetProofs ----------------------------
(***************************************************************************)
(* Proofs about how nodes come into the fleet: the claiming of ids and     *)
(* certificates (Claiming), for any numbers of callers, devices, ids and   *)
(* calls at once, any limit per claimant, and calls that may fail anywhere; *)
(* the registry of nodes (NodeRegistry), for any numbers of nodes,         *)
(* certificates and invocations; and the association of a node with its    *)
(* owner (NodeAssociation), for any numbers of users, groups, nodes,       *)
(* requests and invocations.                                               *)
(*                                                                         *)
(* Claiming.  What callers were told is a history.  It has to be tied to   *)
(* the table: whoever was told an id was told the one reserved for its     *)
(* key, no two keys are reserved one id, and a call answers in the name of *)
(* the key it looks up (ReserveInv).  For the authority the published      *)
(* certificate is what was last told, and only a certificate that exists   *)
(* is published (MintInv).                                                 *)
(*                                                                         *)
(* NodeRegistry.  That a registered node can connect is not inductive:     *)
(* several updates drop each other's certificates, any of them may die     *)
(* half way, and a registration may still undo its own.  What is kept is a *)
(* certificate that no pending rollback undoes and that whoever listed it  *)
(* can replace (Keeps): the update that lists it still has its own         *)
(* certificate in place, and no update that is dropping lists that one.    *)
(* When an update starts to drop, its certificate takes over, because      *)
(* listing orders the updates: one that lists the certificate of another   *)
(* also lists all that the other lists and are still in use (Ordered).     *)
(*                                                                         *)
(* NodeAssociation.  A node is added only on the proof its request asked   *)
(* for, and, when reads return the latest write, a request once deleted    *)
(* starts nothing again.  AddedWithProof speaks of what was added, which   *)
(* comes from an invocation at "add", whose node may come from a row       *)
(* another invocation wrote over a row it never read.  So the invariant    *)
(* follows the node through the rows and invocations (ProofInv) and, since *)
(* a node without a certificate may only join a fabric, shows that every   *)
(* row and invocation of one request means one group (GroupInv).           *)
(***************************************************************************)
EXTENDS Claiming, NodeRegistry, NodeAssociation, TLAPS


ReserveInv ==
    /\ ReserveTypeOK
    /\ \A k \in ClaimKey : reservation[k] # NoId => reservation[k] \in drawn
    /\ \A k, l \in ClaimKey :
          reservation[k] = reservation[l] /\ reservation[k] # NoId => k = l
    /\ \A i \in ClaimCall : claim[i].pc # "idle" => claim[i].caller = claim[i].key[2]
    /\ \A s \in claimTold : reservation[<<s[1], s[2]>>] = s[3]

\* The key of a device and its caller is one of the table.
LEMMA KeyType ==
    ASSUME NEW mac \in Mac, NEW caller \in Caller
    PROVE  KeyOf(mac, caller) \in ClaimKey /\ KeyOf(mac, caller)[2] = caller
BY DEF KeyOf, ClaimKey

\* A key is made of the device and the caller it names.
LEMMA KeyParts ==
    ASSUME NEW k \in ClaimKey
    PROVE  k[1] \in Mac /\ k[2] \in Caller /\ k = <<k[1], k[2]>>
BY DEF ClaimKey

\* An idle call has its type.
LEMMA NoClaimType ==
    /\ NoClaim.pc = "idle"
    /\ NoClaim \in [pc : {"idle", "get", "count", "create"},
                    key : ClaimKey, caller : Caller]
<1>1. ClaimKey # {} /\ Caller # {}
  <2>1. PICK m \in Mac, c \in Caller : TRUE
    BY ClaimingConstants
  <2>2. <<m, c>> \in ClaimKey
    BY DEF ClaimKey
  <2> QED BY <2>2
<1> QED BY <1>1 DEF NoClaim

\* A call that goes on or ends keeps what ReserveInv says of the calls.
LEMMA CallKept ==
    ASSUME ReserveInv, NEW i \in ClaimCall,
           EndClaim(i) \/ \E pc \in {"count", "create"} : claim' = [claim EXCEPT ![i].pc = pc],
           claim[i].pc # "idle"
    PROVE  /\ claim' \in [ClaimCall -> [pc : {"idle", "get", "count", "create"},
                                        key : ClaimKey, caller : Caller]]
           /\ \A j \in ClaimCall : claim'[j].pc # "idle" =>
                                       claim'[j].caller = claim'[j].key[2]
<1>1. CASE EndClaim(i)
  BY <1>1, NoClaimType DEF EndClaim, ReserveInv, ReserveTypeOK
<1>2. ASSUME NEW pc \in {"count", "create"}, claim' = [claim EXCEPT ![i].pc = pc]
      PROVE  /\ claim' \in [ClaimCall -> [pc : {"idle", "get", "count", "create"},
                                          key : ClaimKey, caller : Caller]]
             /\ \A j \in ClaimCall : claim'[j].pc # "idle" =>
                                         claim'[j].caller = claim'[j].key[2]
  BY <1>2 DEF ReserveInv, ReserveTypeOK
<1> QED BY <1>1, <1>2

\* An answer that names what is reserved for the key is told of the table.
LEMMA ToldOfTheTable ==
    ASSUME ReserveInv, NEW k \in ClaimKey, reservation'[k] \in IdPool,
           \A l \in ClaimKey : reservation[l] # NoId => reservation'[l] = reservation[l],
           claimTold' = claimTold \union {<<k[1], k[2], reservation'[k]>>}
    PROVE  /\ claimTold' \subseteq Mac \X Caller \X IdPool
           /\ \A s \in claimTold' : reservation'[<<s[1], s[2]>>] = s[3]
<1>1. k = <<k[1], k[2]>> /\ k[1] \in Mac /\ k[2] \in Caller
  BY KeyParts
<1>2. claimTold \subseteq Mac \X Caller \X IdPool
  BY DEF ReserveInv, ReserveTypeOK
<1>3. ASSUME NEW s \in claimTold
      PROVE  reservation'[<<s[1], s[2]>>] = s[3]
  <2>1. s[1] \in Mac /\ s[2] \in Caller /\ s[3] \in IdPool
    BY <1>2
  <2>2. <<s[1], s[2]>> \in ClaimKey
    BY <2>1 DEF ClaimKey
  <2>3. reservation[<<s[1], s[2]>>] = s[3]
    BY DEF ReserveInv
  <2> QED BY <2>1, <2>2, <2>3, ClaimingConstants
<1> DEFINE t == <<k[1], k[2], reservation'[k]>>
<1>4. t[1] = k[1] /\ t[2] = k[2] /\ t[3] = reservation'[k]
  OBVIOUS
<1>5. reservation'[<<t[1], t[2]>>] = t[3]
  BY <1>1, <1>4
<1>6. t \in Mac \X Caller \X IdPool
  BY <1>1
<1> QED BY <1>2, <1>3, <1>5, <1>6

\* Nothing is reserved or told at the start.
LEMMA ReserveInitial == ASSUME ReserveInit PROVE ReserveInv
BY NoClaimType, ClaimingConstants DEF ReserveInit, ReserveInv, ReserveTypeOK

\* Every call and every interleaving of calls keeps ReserveInv.
LEMMA ReserveStep ==
    ASSUME ReserveInv, [ReserveNext]_reserveVars PROVE ReserveInv'
<1>1. ASSUME NEW i \in ClaimCall, NEW mac \in Mac, NEW caller \in Caller,
             Initiate(i, mac, caller)
      PROVE  ReserveInv'
  <2> DEFINE c == [pc |-> "get", key |-> KeyOf(mac, caller), caller |-> caller]
  <2>1. /\ c \in [pc : {"idle", "get", "count", "create"}, key : ClaimKey,
                  caller : Caller]
        /\ c.caller = c.key[2]
    BY KeyType
  <2>2. claim' = [claim EXCEPT ![i] = c] /\ UNCHANGED <<reservation, drawn, claimTold>>
    BY <1>1 DEF Initiate
  <2> HIDE DEF c
  <2> QED BY <2>1, <2>2 DEF ReserveInv, ReserveTypeOK
<1>2. ASSUME NEW i \in ClaimCall, GetReservation(i)
      PROVE  ReserveInv'
  <2> DEFINE k == claim[i].key
  <2>1. k \in ClaimKey /\ claim[i].pc # "idle" /\ claim[i].caller = k[2]
    BY <1>2 DEF ReserveInv, ReserveTypeOK, GetReservation
  <2>2. CASE reservation[k] = NoId
    BY <1>2, <2>1, <2>2, CallKept DEF GetReservation, ReserveInv, ReserveTypeOK
  <2>3. CASE reservation[k] # NoId
    <3>1. /\ reservation' = reservation /\ drawn' = drawn /\ EndClaim(i)
          /\ claimTold' = claimTold \union {<<k[1], k[2], reservation'[k]>>}
      BY <1>2, <2>1, <2>3 DEF GetReservation, Answer
    <3>2. reservation'[k] \in IdPool
      BY <2>1, <2>3, <3>1 DEF ReserveInv, ReserveTypeOK
    <3>3. /\ claimTold' \subseteq Mac \X Caller \X IdPool
          /\ \A s \in claimTold' : reservation'[<<s[1], s[2]>>] = s[3]
      BY <2>1, <3>1, <3>2, ToldOfTheTable
    <3> QED BY <2>1, <3>1, <3>3, CallKept DEF ReserveInv, ReserveTypeOK
  <2> QED BY <2>2, <2>3
<1>3. ASSUME NEW i \in ClaimCall, CountReservations(i) \/ ClaimFails(i)
      PROVE  ReserveInv'
  <2>1. /\ claim[i].pc # "idle" /\ UNCHANGED <<reservation, drawn, claimTold>>
        /\ EndClaim(i) \/ claim' = [claim EXCEPT ![i].pc = "create"]
    BY <1>3 DEF CountReservations, ClaimFails
  <2> QED BY <2>1, CallKept DEF ReserveInv, ReserveTypeOK
<1>4. ASSUME NEW i \in ClaimCall, CreateReservation(i)
      PROVE  ReserveInv'
  <2> DEFINE k == claim[i].key
  <2>1. /\ k \in ClaimKey /\ claim[i].pc # "idle" /\ claim[i].caller = k[2]
        /\ reservation \in [ClaimKey -> IdPool \union {NoId}] /\ drawn \subseteq IdPool
    BY <1>4 DEF ReserveInv, ReserveTypeOK, CreateReservation
  <2>2. PICK id \in IdPool \ drawn :
            LET held == reservation[k]
                got == IF held = NoId THEN id ELSE held IN
            /\ drawn' = drawn \union {id}
            /\ reservation' = [reservation EXCEPT ![k] = got]
            /\ Answer(i, got)
            /\ EndClaim(i)
    BY <1>4 DEF CreateReservation
  <2>3. /\ \A l \in ClaimKey \ {k} : reservation'[l] = reservation[l]
        /\ reservation[k] = NoId => reservation'[k] = id
        /\ reservation[k] # NoId => reservation'[k] = reservation[k]
    BY <2>1, <2>2
  <2>4. reservation'[k] \in IdPool
    BY <2>1, <2>3
  <2>5. claimTold' = claimTold \union {<<k[1], k[2], reservation'[k]>>}
    BY <2>1, <2>2, <2>3 DEF Answer
  <2>6. /\ claimTold' \subseteq Mac \X Caller \X IdPool
        /\ \A s \in claimTold' : reservation'[<<s[1], s[2]>>] = s[3]
    BY <2>1, <2>3, <2>4, <2>5, ToldOfTheTable
  <2>7. \A l \in ClaimKey : reservation'[l] # NoId => reservation'[l] \in drawn'
    BY <2>1, <2>2, <2>3 DEF ReserveInv
  <2>8. ASSUME NEW l \in ClaimKey, NEW m \in ClaimKey,
               reservation'[l] = reservation'[m], reservation'[l] # NoId
        PROVE  l = m
    <3>1. \A j \in ClaimKey : reservation[j] # id
      BY <2>1, <2>2, ClaimingConstants DEF ReserveInv
    <3> QED BY <2>3, <2>8, <3>1 DEF ReserveInv
  <2>9. /\ reservation' \in [ClaimKey -> IdPool \union {NoId}]
        /\ drawn' \subseteq IdPool
    BY <2>1, <2>2
  <2> QED BY <2>1, <2>2, <2>6, <2>7, <2>8, <2>9, CallKept DEF ReserveInv, ReserveTypeOK
<1>5. ASSUME NEW mac \in Mac, NEW caller \in Caller, Verify(mac, caller)
      PROVE  ReserveInv'
  <2> DEFINE k == <<mac, caller>>
  <2>1. k \in ClaimKey /\ k[1] = mac /\ k[2] = caller
    BY DEF ClaimKey
  <2>2. /\ reservation' = reservation /\ drawn' = drawn /\ claim' = claim
        /\ reservation'[k] # NoId
        /\ claimTold' = claimTold \union {<<k[1], k[2], reservation'[k]>>}
    BY <1>5, <2>1 DEF Verify, KeyOf
  <2>3. reservation'[k] \in IdPool
    BY <2>1, <2>2 DEF ReserveInv, ReserveTypeOK
  <2>4. /\ claimTold' \subseteq Mac \X Caller \X IdPool
        /\ \A s \in claimTold' : reservation'[<<s[1], s[2]>>] = s[3]
    BY <2>1, <2>2, <2>3, ToldOfTheTable
  <2> QED BY <2>2, <2>4 DEF ReserveInv, ReserveTypeOK
<1>6. CASE UNCHANGED reserveVars
  BY <1>6 DEF reserveVars, ReserveInv, ReserveTypeOK
<1> QED BY <1>1, <1>2, <1>3, <1>4, <1>5, <1>6 DEF ReserveNext

\* A caller is told one node id for a device, and no other caller or device is
\* told that id, however the calls of claimants interleave and whatever fails
\* (reserveNodeID, CreateReservation's condition, verify).
THEOREM EachClaimHasItsId == ReserveSpec => []OneIdPerClaim
<1>1. ReserveInv => OneIdPerClaim
  <2> SUFFICES ASSUME ReserveInv, NEW s \in claimTold, NEW t \in claimTold
               PROVE  (s[1] = t[1] /\ s[2] = t[2]) <=> s[3] = t[3]
    BY DEF OneIdPerClaim
  <2>1. /\ s[1] \in Mac /\ s[2] \in Caller /\ s[3] \in IdPool
        /\ t[1] \in Mac /\ t[2] \in Caller /\ t[3] \in IdPool
    BY DEF ReserveInv, ReserveTypeOK
  <2>2. <<s[1], s[2]>> \in ClaimKey /\ <<t[1], t[2]>> \in ClaimKey
    BY <2>1 DEF ClaimKey
  <2>3. /\ reservation[<<s[1], s[2]>>] = s[3]
        /\ reservation[<<t[1], t[2]>>] = t[3]
    BY DEF ReserveInv
  <2>4. s[3] = t[3] => <<s[1], s[2]>> = <<t[1], t[2]>>
    BY <2>1, <2>2, <2>3, ClaimingConstants DEF ReserveInv
  <2> QED BY <2>3, <2>4
<1> QED BY <1>1, ReserveInitial, ReserveStep, PTL DEF ReserveSpec

---------------------------------------------------------------------------
(* The claiming authority *)

MintInv ==
    /\ MintTypeOK
    /\ \A i \in MintCall : mint[i].pc # "idle" => mint[i].ca # 0
    /\ caTold \subseteq {ca}
    /\ ca = 0 => caTold = {}

\* Every step of every call keeps MintInv.
LEMMA MintingStep == ASSUME MintInv, [MintNext]_caVars PROVE MintInv'
<1> USE DEF MintInv, MintTypeOK
<1>1. ASSUME NEW i \in MintCall, NEW force \in BOOLEAN, SignCA(i, force)
      PROVE  MintInv'
  <2> DEFINE c == [pc |-> IF force THEN "force" ELSE "once", ca |-> minted + 1]
  <2>1. minted + 1 \in 0..MaxCA /\ minted + 1 # 0
    BY <1>1, ClaimingConstants DEF SignCA
  <2>2. c \in [pc : {"idle", "once", "force"}, ca : 0..MaxCA] /\ c.ca # 0
    BY <2>1
  <2>3. /\ mint' = [mint EXCEPT ![i] = c] /\ minted' = minted + 1
        /\ UNCHANGED <<ca, caTold, procCA>>
    BY <1>1 DEF SignCA
  <2> HIDE DEF c
  <2> QED BY <2>1, <2>2, <2>3
<1>2. ASSUME NEW i \in MintCall, PublishByForce(i) \/ PublishIfAbsent(i)
      PROVE  MintInv'
  <2>1. /\ mint[i].ca # 0 /\ mint[i].ca \in 0..MaxCA
        /\ ca' \in {mint[i].ca, ca}
        /\ ca' # 0 /\ minted' = minted /\ procCA' = procCA
    BY <1>2 DEF PublishByForce, PublishIfAbsent
  <2>2. caTold' \subseteq {ca'}
    BY <1>2 DEF PublishByForce, PublishIfAbsent
  <2>3. [pc |-> "idle", ca |-> 0] \in [pc : {"idle", "once", "force"}, ca : 0..MaxCA]
    BY ClaimingConstants
  <2>4. mint' = [mint EXCEPT ![i] = [pc |-> "idle", ca |-> 0]]
    BY <1>2 DEF PublishByForce, PublishIfAbsent
  <2> QED BY <2>1, <2>2, <2>3, <2>4
<1>3. CASE LoadCA \/ Recycle \/ UNCHANGED caVars
  BY <1>3 DEF LoadCA, Recycle, caVars
<1> QED BY <1>1, <1>2, <1>3 DEF MintNext

\* However many calls mint at once, all that were told a certificate since the
\* last by force were told the one published (StoreParameterIfAbsent).
THEOREM OneAuthorityTold == MintSpec => []OneCAToldSinceForce
<1>1. MintInit => MintInv
  BY ClaimingConstants DEF MintInit, MintInv, MintTypeOK
<1>2. MintInv => OneCAToldSinceForce
  BY DEF MintInv, OneCAToldSinceForce
<1> QED BY <1>1, <1>2, MintingStep, PTL DEF MintSpec

---------------------------------------------------------------------------
(* The registry: its invariant *)

\* Certificate c is one that node n can connect with.
Live(n, c) == <<n, c>> \in principals /\ certSt[c] = "active"
\* An update that takes away what it listed.
Dropping(i) == reg[i].pc \in {"drop", "kill"}
\* A registration that made its certificate and is not done with it.
MayUndo(i) == ~reg[i].update /\ reg[i].pc \notin {"idle", "row"} /\ "cert" \in reg[i].made

\* Calls that run at once have a new certificate each, of their own node.
OwnCerts ==
    /\ \A i, j \in RegCall : i # j /\ ~RegAt(i, "idle") /\ ~RegAt(j, "idle") =>
           reg[i].fresh /\ reg[j].fresh /\ reg[i].cert # reg[j].cert
    /\ \A i \in RegCall : ~RegAt(i, "idle") => CommonName(reg[i].cert) = reg[i].node
    /\ \A n \in FleetNode, c \in Certificate :
           <<n, c>> \in principals => CommonName(c) = n /\ certSt[c] # "none"
    /\ ~overlapped => \A i, j \in RegCall : ~RegAt(i, "idle") /\ ~RegAt(j, "idle") => i = j

\* What a call holds where it is; an update lists certificates of its node
\* that exist, not its own.
JobsInOrder ==
    \A i \in RegCall :
        /\ RegAt(i, "idle") => ~reg[i].update
        /\ RegAt(i, "cert") => reg[i].made = {}
        /\ reg[i].update => reg[i].pc \in {"cert", "attach", "policy", "drop", "kill"}
        /\ Dropping(i) => reg[i].update
        /\ reg[i].update => nodeRow[reg[i].node] # "none"
        /\ ~reg[i].update => reg[i].old = {}
        /\ \A o \in reg[i].old : CommonName(o) = reg[i].node /\ o # reg[i].cert
                                 /\ certSt[o] # "none"

\* Until it is attached a new certificate is nobody else's, and the first
\* registration of a node has it in place when it writes the row.
TakenBy(i) ==
    /\ RegAt(i, "cert") => certSt[reg[i].cert] \in
           (IF reg[i].fresh THEN {"none"} ELSE {"active", "deleted"})
    /\ reg[i].pc \in {"thing", "attach"} => certSt[reg[i].cert] = "active"
    /\ reg[i].fresh /\ reg[i].pc \in {"cert", "thing", "attach"} =>
          /\ <<reg[i].node, reg[i].cert>> \notin principals
          /\ \A j \in RegCall : reg[i].cert \notin reg[j].old
    /\ RegAt(i, "policy") /\ nodeRow[reg[i].node] = "none" =>
          Live(reg[i].node, reg[i].cert)
    /\ RegAt(i, "row") =>
          /\ "base" \in policies[reg[i].cert]
          /\ reg[i].bridge => "bridge" \in policies[reg[i].cert]
          /\ nodeRow[reg[i].node] = "none" => Live(reg[i].node, reg[i].cert)
CertTaken == \A i \in RegCall : TakenBy(i)

\* Of two updates one of which listed the other's certificate, that one came
\* later: it listed all that the other did and is in use, and not conversely.
Ordered ==
    \A j, k \in RegCall : reg[j].update /\ reg[j].cert \in reg[k].old =>
        /\ reg[k].cert \notin reg[j].old
        /\ \A c \in reg[j].old : Live(reg[j].node, c) => c \in reg[k].old

\* An update whose certificate can take the place of those it lists.
Replaces(j) ==
    /\ ~Dropping(j)
    /\ RegAt(j, "policy") => Live(reg[j].node, reg[j].cert)
    /\ \A k \in RegCall : Dropping(k) => reg[j].cert \notin reg[k].old
\* Certificate c keeps node n connected: whoever is to drop it replaces it.
Keeps(n, c) ==
    /\ Live(n, c)
    /\ "base" \in policies[c]
    /\ \A i \in RegCall : MayUndo(i) => reg[i].cert # c
    /\ \A j \in RegCall : c \in reg[j].old => Replaces(j)
Connects == \A n \in FleetNode : nodeRow[n] # "none" => \E c \in Certificate : Keeps(n, c)

\* The same for the policy of bridges, while calls run one at a time.
KeepsBridge(n, c) ==
    /\ Live(n, c)
    /\ "bridge" \in policies[c]
    /\ \A i \in RegCall : MayUndo(i) => reg[i].cert # c
    /\ \A j \in RegCall : c \in reg[j].old => ~Dropping(j) /\ "bridge" \in reg[j].carry
\* An update that runs alone listed all that its node can use but its own.
AloneUpdates ==
    ~overlapped =>
        /\ \A i \in RegCall : reg[i].update =>
              /\ \A c \in Certificate :
                    Live(reg[i].node, c) => c \in reg[i].old \union {reg[i].cert}
              /\ Dropping(i) \/ RegAt(i, "policy") => Live(reg[i].node, reg[i].cert)
              /\ Dropping(i) /\ reg[i].bridge => "bridge" \in policies[reg[i].cert]
        /\ \A n \in FleetNode : nodeRow[n] = "bridge" =>
              \E c \in Certificate : KeepsBridge(n, c)

\* The inductive invariant.
RegistryInv ==
    /\ RegistryTypeOK
    /\ OwnCerts
    /\ JobsInOrder
    /\ CertTaken
    /\ Ordered
    /\ Connects
    /\ AloneUpdates

---------------------------------------------------------------------------

\* There is a node, and a certificate names one.
LEMMA NodeOfCert ==
    /\ \A c \in Certificate : CommonName(c) \in FleetNode
    /\ Certificate # {} /\ FleetNode # {}
<1>1. PICK n \in FleetNode : TRUE
  BY RegistryConstants
<1>2. <<n, 1>> \in Certificate
  BY <1>1, RegistryConstants DEF Certificate
<1> QED BY <1>2 DEF Certificate, CommonName

\* An idle call has its type and holds nothing.
LEMMA IdleRegType ==
    /\ IdleRegJob \in RegJob
    /\ IdleRegJob.pc = "idle" /\ ~IdleRegJob.update /\ IdleRegJob.old = {} /\ IdleRegJob.made = {}
BY NodeOfCert DEF IdleRegJob, RegJob, RegPc

\* Only job i changes.
OnlyJob(i) ==
    /\ reg' \in [RegCall -> RegJob]
    /\ \A j \in RegCall : j # i => reg'[j] = reg[j]
\* It stays the same call.
SameCall(i) ==
    /\ reg'[i].update = reg[i].update /\ reg'[i].node = reg[i].node
    /\ reg'[i].cert = reg[i].cert /\ reg'[i].fresh = reg[i].fresh
    /\ reg'[i].bridge = reg[i].bridge
\* It holds what it held.
SameJob(i) ==
    SameCall(i) /\ reg'[i].made = reg[i].made /\ reg'[i].old = reg[i].old
                /\ reg'[i].carry = reg[i].carry

\* A call that goes on holds what it held.
LEMMA GotoFields ==
    ASSUME RegistryTypeOK, NEW i \in RegCall, NEW pc \in RegPc, RegGoto(i, pc)
    PROVE  OnlyJob(i) /\ SameJob(i) /\ reg'[i].pc = pc
BY DEF RegistryTypeOK, RegJob, RegGoto, OnlyJob, SameCall, SameJob

\* A call that ends holds nothing.
LEMMA DoneFields ==
    ASSUME RegistryTypeOK, NEW i \in RegCall, RegDone(i)
    PROVE  /\ OnlyJob(i) /\ reg'[i].pc = "idle" /\ ~reg'[i].update
           /\ reg'[i].old = {} /\ reg'[i].made = {}
BY IdleRegType DEF RegistryTypeOK, RegDone, OnlyJob

\* What a call holds has its type.
LEMMA JobTypes ==
    ASSUME RegistryTypeOK, NEW i \in RegCall
    PROVE  /\ reg[i].pc \in RegPc /\ reg[i].update \in BOOLEAN /\ reg[i].fresh \in BOOLEAN
           /\ reg[i].node \in FleetNode /\ reg[i].cert \in Certificate /\ reg[i].bridge \in BOOLEAN
           /\ reg[i].old \subseteq Certificate
BY DEF RegistryTypeOK, RegJob

\* The registry starts empty.
LEMMA RegistryStart == RegistryInit => RegistryInv
<1> SUFFICES ASSUME RegistryInit PROVE RegistryInv
  OBVIOUS
<1>1. RegistryTypeOK
  BY IdleRegType DEF RegistryInit, RegistryTypeOK, Policies
<1>2. OwnCerts /\ JobsInOrder /\ CertTaken /\ Ordered /\ Connects /\ AloneUpdates
  BY IdleRegType
     DEF RegistryInit, OwnCerts, JobsInOrder, CertTaken, TakenBy, Ordered, Connects,
         AloneUpdates, RegAt, Dropping
<1> QED BY <1>1, <1>2 DEF RegistryInv

\* A call that ends takes its threats with it.
LEMMA DoneKeeps ==
    ASSUME RegistryInv, NEW i \in RegCall, RegDone(i),
           UNCHANGED <<certSt, policies, principals, things, nodeRow, overlapped>>
    PROVE  RegistryInv'
<1>1. /\ OnlyJob(i) /\ reg'[i].pc = "idle" /\ ~reg'[i].update
      /\ reg'[i].old = {} /\ reg'[i].made = {}
  BY DoneFields DEF RegistryInv
<1>2. RegistryTypeOK'
  BY <1>1 DEF RegistryInv, RegistryTypeOK, OnlyJob
<1>3. OwnCerts'
  BY <1>1 DEF RegistryInv, OwnCerts, OnlyJob, RegAt
<1>4. JobsInOrder'
  BY <1>1 DEF RegistryInv, JobsInOrder, OnlyJob, RegAt, Dropping
<1>5. CertTaken'
  BY <1>1 DEF RegistryInv, CertTaken, TakenBy, OnlyJob, RegAt, Live
<1>6. Ordered'
  BY <1>1 DEF RegistryInv, Ordered, OnlyJob, Live
<1>7. ASSUME NEW n \in FleetNode, NEW c \in Certificate, Keeps(n, c)
      PROVE  Keeps(n, c)'
  BY <1>1, <1>7
     DEF RegistryInv, Keeps, Replaces, MayUndo, Dropping, OnlyJob, RegAt, Live
<1>8. Connects'
  BY <1>7 DEF RegistryInv, Connects
<1>9. ASSUME NEW n \in FleetNode, NEW c \in Certificate, KeepsBridge(n, c)
      PROVE  KeepsBridge(n, c)'
  BY <1>1, <1>9 DEF RegistryInv, KeepsBridge, MayUndo, Dropping, OnlyJob, RegAt, Live
<1>10. AloneUpdates'
  BY <1>1, <1>9 DEF RegistryInv, AloneUpdates, OnlyJob, Dropping, RegAt, Live
<1> QED BY <1>2, <1>3, <1>4, <1>5, <1>6, <1>8, <1>10 DEF RegistryInv

\* A new registration finds a certificate nobody works on.
LEMMA RegisterNodeKeeps ==
    ASSUME AnyCert = FALSE, RegistryInv, NEW i \in RegCall, NEW c \in Certificate,
           NEW b \in BOOLEAN, Submitted(CommonName(c), c), RegisterNode(i, c, b)
    PROVE  RegistryInv'
<1>1. /\ OnlyJob(i) /\ reg'[i].pc = "cert" /\ ~reg'[i].update
      /\ reg'[i].old = {} /\ reg'[i].made = {} /\ reg'[i].cert = c
      /\ reg'[i].node = CommonName(c) /\ reg'[i].fresh = (certSt[c] = "none")
  <2>1. PICK e : e = [IdleRegJob EXCEPT !.pc = "cert", !.node = CommonName(c), !.cert = c,
                        !.fresh = certSt[c] = "none", !.bridge = b]
    OBVIOUS
  <2>2. CommonName(c) \in FleetNode
    BY NodeOfCert
  <2>3. /\ e \in RegJob /\ e.pc = "cert" /\ ~e.update /\ e.old = {} /\ e.made = {}
        /\ e.cert = c /\ e.node = CommonName(c) /\ e.fresh = (certSt[c] = "none")
    BY <2>1, <2>2, IdleRegType DEF RegJob, RegPc
  <2>4. reg' = [reg EXCEPT ![i] = e]
    BY <2>1 DEF RegisterNode
  <2> QED BY <2>3, <2>4 DEF RegistryInv, RegistryTypeOK, OnlyJob
<1>0. /\ RegAt(i, "idle") /\ UNCHANGED <<certSt, policies, principals, things, nodeRow>>
      /\ overlapped' = (overlapped \/ Busy # {})
  BY DEF RegisterNode
<1>01. /\ \A j \in RegCall : ~RegAt(j, "idle") => reg[j].fresh /\ reg[j].cert # c /\ certSt[c] = "none"
       /\ certSt[c] \in {"none", "active", "deleted"}
  BY DEF Submitted, Busy
<1>02. overlapped' \in BOOLEAN /\ (~overlapped' => ~overlapped /\ \A j \in RegCall : RegAt(j, "idle"))
  BY <1>0 DEF Busy, RegistryInv, RegistryTypeOK
<1>2. RegistryTypeOK'
  BY <1>1, <1>0, <1>02 DEF RegistryInv, RegistryTypeOK, OnlyJob
<1>3. OwnCerts'
  BY <1>1, <1>0, <1>01, <1>02 DEF RegistryInv, OwnCerts, OnlyJob, RegAt
<1>4. JobsInOrder'
  BY <1>1, <1>0 DEF RegistryInv, JobsInOrder, OnlyJob, RegAt, Dropping
<1>5. CertTaken'
  <2>1. certSt[c] = "none" => /\ \A n \in FleetNode : <<n, c>> \notin principals
                              /\ \A j \in RegCall : c \notin reg[j].old
    BY DEF RegistryInv, OwnCerts, JobsInOrder
  <2>2. ASSUME NEW j \in RegCall, j # i
        PROVE  /\ reg'[j] = reg[j]
               /\ reg'[j].fresh /\ reg'[j].pc \in {"cert", "thing", "attach"} =>
                     \A k \in RegCall : reg'[j].cert \notin reg'[k].old
    BY <2>2, <1>1 DEF RegistryInv, CertTaken, TakenBy, OnlyJob
  <2>3. /\ reg'[i].fresh => certSt[c] = "none"
        /\ \A k \in RegCall : reg'[i].fresh => c \notin reg'[k].old
        /\ reg'[i].node \in FleetNode
    BY <1>1, <2>1, NodeOfCert DEF OnlyJob
  <2>4. TakenBy(i)'
    BY <1>1, <1>0, <1>01, <2>1, <2>3 DEF TakenBy, RegAt
  <2>5. ASSUME NEW j \in RegCall, j # i
        PROVE  TakenBy(j)'
    BY <1>0, <2>2, <2>5 DEF RegistryInv, CertTaken, TakenBy, RegAt, Live
  <2> QED BY <2>4, <2>5 DEF CertTaken
<1>6. Ordered'
  BY <1>1, <1>0 DEF RegistryInv, Ordered, OnlyJob, Live
<1>7. ASSUME NEW n \in FleetNode, NEW d \in Certificate, Keeps(n, d)
      PROVE  Keeps(n, d)'
  BY <1>1, <1>0, <1>7
     DEF RegistryInv, Keeps, Replaces, MayUndo, Dropping, OnlyJob, RegAt, Live
<1>8. Connects'
  BY <1>7, <1>0 DEF RegistryInv, Connects
<1>9. ASSUME NEW n \in FleetNode, NEW d \in Certificate, KeepsBridge(n, d)
      PROVE  KeepsBridge(n, d)'
  BY <1>1, <1>0, <1>9
     DEF RegistryInv, KeepsBridge, MayUndo, Dropping, OnlyJob, RegAt, Live
<1>10. AloneUpdates'
  BY <1>1, <1>0, <1>02, <1>9
     DEF RegistryInv, AloneUpdates, OnlyJob, Dropping, RegAt, Live
<1> QED BY <1>2, <1>3, <1>4, <1>5, <1>6, <1>8, <1>10 DEF RegistryInv

\* An update lists certificates that were attached before its own is, so it
\* comes after every call whose certificate it lists.
LEMMA UpdateNodeKeeps ==
    ASSUME AnyCert = FALSE, RegistryInv, NEW i \in RegCall, NEW n \in FleetNode,
           NEW c \in Certificate,
           NEW b \in BOOLEAN, Submitted(n, c), UpdateNode(i, n, c, b)
    PROVE  RegistryInv'
<1>1. /\ OnlyJob(i) /\ reg'[i].pc = "cert" /\ reg'[i].update
      /\ reg'[i].old = LiveCerts(n) \ {c} /\ reg'[i].made = {} /\ reg'[i].cert = c
      /\ reg'[i].carry = UNION {policies[o] : o \in LiveCerts(n) \ {c}}
      /\ reg'[i].node = n /\ reg'[i].fresh = (certSt[c] = "none")
  <2>1. LiveCerts(n) \ {c} \subseteq Certificate
    BY DEF LiveCerts
  <2>2. UNION {policies[o] : o \in LiveCerts(n) \ {c}} \subseteq Policies
    BY <2>1 DEF RegistryInv, RegistryTypeOK
  <2> QED BY <2>1, <2>2
     DEF RegistryInv, RegistryTypeOK, UpdateNode, OnlyJob, RegJob, RegPc
<1>0. /\ RegAt(i, "idle") /\ UNCHANGED <<certSt, policies, principals, things, nodeRow>>
      /\ overlapped' = (overlapped \/ Busy # {}) /\ nodeRow[n] # "none"
  BY DEF UpdateNode
<1>01. /\ \A j \in RegCall : ~RegAt(j, "idle") => reg[j].fresh /\ reg[j].cert # c /\ certSt[c] = "none"
       /\ certSt[c] \in {"none", "active", "deleted"}
       /\ CommonName(c) = n
  BY DEF Submitted, Busy
<1>02. overlapped' \in BOOLEAN /\ (~overlapped' => ~overlapped /\ \A j \in RegCall : RegAt(j, "idle"))
  BY <1>0 DEF Busy, RegistryInv, RegistryTypeOK
<1>03. /\ certSt[c] = "none" => /\ \A m \in FleetNode : <<m, c>> \notin principals
                                /\ \A j \in RegCall : c \notin reg[j].old
       /\ \A j \in RegCall : RegAt(j, "idle") => ~reg[j].update /\ reg[j].old = {}
  BY DEF RegistryInv, OwnCerts, JobsInOrder
<1>04. \A o \in reg'[i].old : /\ o \in Certificate /\ Live(n, o) /\ o # c /\ CommonName(o) = n
                              /\ certSt[o] # "none"
  BY <1>1 DEF RegistryInv, OwnCerts, LiveCerts, Live
<1>05. \A j \in RegCall : c \notin reg[j].old
  BY <1>01, <1>03
<1>2. RegistryTypeOK'
  BY <1>1, <1>0, <1>02 DEF RegistryInv, RegistryTypeOK, OnlyJob
<1>3. OwnCerts'
  BY <1>1, <1>0, <1>01, <1>02 DEF RegistryInv, OwnCerts, OnlyJob, RegAt
<1>4. JobsInOrder'
  BY <1>1, <1>0, <1>04 DEF RegistryInv, JobsInOrder, OnlyJob, RegAt, Dropping
<1>5. CertTaken'
  <2>1. ASSUME NEW j \in RegCall, j # i, reg[j].fresh, reg[j].pc \in {"cert", "thing", "attach"}
        PROVE  reg[j].cert \notin reg'[i].old
    <3>1. /\ <<reg[j].node, reg[j].cert>> \notin principals
          /\ CommonName(reg[j].cert) = reg[j].node
      BY <2>1 DEF RegistryInv, CertTaken, TakenBy, OwnCerts, RegAt
    <3> QED BY <3>1, <1>04 DEF Live
  <2>2. TakenBy(i)'
    BY <1>1, <1>0, <1>01, <1>03 DEF TakenBy, OnlyJob, RegAt
  <2>3. ASSUME NEW j \in RegCall, j # i
        PROVE  TakenBy(j)'
    <3>1. reg'[j] = reg[j] /\ TakenBy(j)
      BY <2>3, <1>1 DEF OnlyJob, RegistryInv, CertTaken
    <3>2. reg[j].fresh /\ reg[j].pc \in {"cert", "thing", "attach"} =>
             \A k \in RegCall : reg[j].cert \notin reg'[k].old
      BY <2>1, <2>3, <3>1, <1>1 DEF TakenBy, OnlyJob
    <3> QED BY <3>1, <3>2, <1>0 DEF TakenBy, RegAt, Live
  <2> QED BY <2>2, <2>3 DEF CertTaken
<1>6. Ordered'
  <2> SUFFICES ASSUME NEW j \in RegCall, NEW k \in RegCall,
                      reg'[j].update, reg'[j].cert \in reg'[k].old
               PROVE  /\ reg'[k].cert \notin reg'[j].old
                      /\ \A d \in reg'[j].old : 
                            <<reg'[j].node, d>> \in principals' /\ certSt'[d] = "active" => d \in reg'[k].old
    BY DEF Ordered, Live
  <2>1. CASE j = i
    BY <2>1, <1>1, <1>05, <1>04 DEF OnlyJob
  <2>2. CASE j # i /\ k # i
    BY <2>2, <1>1, <1>0 DEF RegistryInv, Ordered, OnlyJob, Live
  <2>3. CASE j # i /\ k = i
    <3>1. reg'[j] = reg[j] /\ reg[j].update /\ reg[j].cert \in reg'[i].old
      BY <2>3, <1>1 DEF OnlyJob
    <3>2. reg[j].node = n
      BY <3>1, <1>04, JobTypes, <1>03 DEF RegistryInv, OwnCerts
    <3>3. ASSUME NEW d \in reg[j].old, Live(n, d)
          PROVE  d \in reg'[i].old
      <4>1. d \in Certificate /\ d # c
        BY <1>05, JobTypes DEF RegistryInv
      <4> QED BY <4>1, <3>3, <1>1 DEF LiveCerts, Live
    <3> QED BY <2>3, <3>1, <3>2, <3>3, <1>0, <1>1, <1>05 DEF Live
  <2> QED BY <2>1, <2>2, <2>3
<1>7. ASSUME NEW m \in FleetNode, NEW d \in Certificate, Keeps(m, d)
      PROVE  Keeps(m, d)'
  <2>1. Replaces(i)'
    BY <1>1, <1>05, <1>0 DEF Replaces, Dropping, OnlyJob, RegAt
  <2>2. ASSUME NEW j \in RegCall, j # i, Replaces(j)
        PROVE  Replaces(j)'
    BY <1>1, <1>0, <2>2 DEF Replaces, Dropping, OnlyJob, RegAt, Live
  <2> QED BY <1>1, <1>0, <1>7, <2>1, <2>2 DEF Keeps, MayUndo, OnlyJob, Live
<1>8. Connects'
  BY <1>7, <1>0 DEF RegistryInv, Connects
<1>9. ASSUME NEW m \in FleetNode, NEW d \in Certificate, KeepsBridge(m, d)
      PROVE  KeepsBridge(m, d)'
  <2>1. d \in reg'[i].old => "bridge" \in reg'[i].carry
    BY <1>9, <1>1 DEF KeepsBridge
  <2> QED BY <1>1, <1>0, <1>9, <2>1 DEF KeepsBridge, MayUndo, Dropping, OnlyJob, Live
<1>10. AloneUpdates'
  <2>1. \A d \in Certificate : Live(n, d) => d \in reg'[i].old \union {c}
    BY <1>1 DEF LiveCerts, Live
  <2> QED BY <1>1, <1>0, <1>02, <1>9, <2>1
     DEF RegistryInv, AloneUpdates, OnlyJob, Dropping, RegAt, Live
<1> QED BY <1>2, <1>3, <1>4, <1>5, <1>6, <1>8, <1>10 DEF RegistryInv

\* The certificate a call works on is made active before it is attached.
LEMMA RegisterCertKeeps ==
    ASSUME RegistryInv, NEW i \in RegCall, RegisterCert(i)
    PROVE  RegistryInv'
<1>0. /\ RegAt(i, "cert") /\ UNCHANGED <<policies, principals, things, nodeRow, overlapped>>
      /\ reg[i].cert \in Certificate /\ reg[i].update \in BOOLEAN
      /\ reg[i].old \subseteq Certificate
  BY JobTypes DEF RegisterCert, RegistryInv
<1>1. /\ OnlyJob(i) /\ SameCall(i) /\ reg'[i].old = reg[i].old /\ reg'[i].carry = reg[i].carry
      /\ reg'[i].pc = IF reg[i].update THEN "attach" ELSE "thing"
      /\ "cert" \in reg'[i].made => certSt[reg[i].cert] # "active"
  BY SMTT(20)
     DEF RegistryInv, RegistryTypeOK, RegJob, RegPc, RegisterCert, RegGoto, OnlyJob,
         SameCall, JobsInOrder, RegAt
<1>2. /\ certSt[reg[i].cert] \in {"none", "active", "deleted"}
      /\ certSt' = [certSt EXCEPT ![reg[i].cert] = "active"]
  BY <1>0 DEF RegistryInv, RegistryTypeOK, CertTaken, TakenBy, RegisterCert, RegAt
<1>3. \A c \in Certificate : /\ c # reg[i].cert => certSt'[c] = certSt[c]
                             /\ c = reg[i].cert => certSt'[c] = "active"
  BY <1>2 DEF RegistryInv, RegistryTypeOK
<1>4. RegistryTypeOK'
  BY <1>0, <1>1, <1>2 DEF RegistryInv, RegistryTypeOK, OnlyJob
<1>5. OwnCerts'
  BY <1>0, <1>1, <1>3 DEF RegistryInv, OwnCerts, OnlyJob, SameCall, RegAt
<1>6. JobsInOrder'
  BY <1>0, <1>1, <1>3, JobTypes
     DEF RegistryInv, JobsInOrder, OnlyJob, SameCall, RegAt, Dropping
<1>7. CertTaken'
  <2>1. TakenBy(i)'
    BY <1>0, <1>1, <1>3 DEF RegistryInv, CertTaken, TakenBy, OnlyJob, SameCall, RegAt
  <2>2. ASSUME NEW j \in RegCall, j # i
        PROVE  TakenBy(j)'
    <3>1. /\ reg'[j] = reg[j] /\ TakenBy(j) /\ reg[j].cert \in Certificate
          /\ ~RegAt(j, "idle") => reg[j].cert # reg[i].cert
      BY <1>0, <1>1, <2>2, JobTypes DEF RegistryInv, CertTaken, OwnCerts, OnlyJob, RegAt
    <3>2. \A k \in RegCall : reg'[k].old = reg[k].old
      BY <1>1 DEF OnlyJob
    <3> QED BY <1>0, <1>3, <3>1, <3>2 DEF TakenBy, RegAt, Live
  <2> QED BY <2>1, <2>2 DEF CertTaken
<1>8. ASSUME NEW n \in FleetNode, NEW c \in Certificate, Live(n, c)
      PROVE  Live(n, c)'
  BY <1>0, <1>3, <1>8 DEF Live
<1>9. ASSUME NEW j \in RegCall, NEW c \in reg[j].old, Live(reg[j].node, c)', reg[j].update
      PROVE  Live(reg[j].node, c)
  <2>1. c \in Certificate /\ c # reg[j].cert
    BY <1>9, JobTypes DEF RegistryInv, JobsInOrder
  <2>2. ASSUME c = reg[i].cert, j # i
        PROVE  FALSE
    <3>1. ~RegAt(i, "idle") /\ ~RegAt(j, "idle")
      BY <1>0, <1>9 DEF RegistryInv, JobsInOrder, RegAt
    <3>2. reg[i].fresh
      BY <2>2, <3>1 DEF RegistryInv, OwnCerts
    <3>3. TakenBy(i)
      BY DEF RegistryInv, CertTaken
    <3> QED BY <1>0, <2>2, <3>2, <3>3 DEF TakenBy, RegAt
  <2> QED BY <2>1, <2>2, <1>0, <1>1, <1>3, <1>9 DEF Live, OnlyJob, SameCall
<1>10. Ordered'
  BY <1>1, <1>9 DEF RegistryInv, Ordered, OnlyJob, SameCall, Live
<1>11. ASSUME NEW j \in RegCall, Replaces(j)
       PROVE  Replaces(j)'
  BY <1>0, <1>1, <1>8, <1>11, JobTypes
     DEF RegistryInv, Replaces, Dropping, OnlyJob, SameCall, RegAt
<1>12. ASSUME NEW n \in FleetNode, NEW c \in Certificate, Keeps(n, c)
       PROVE  Keeps(n, c)'
  BY <1>0, <1>1, <1>8, <1>11, <1>12 DEF Keeps, MayUndo, OnlyJob, SameCall, RegAt, Live
<1>13. Connects'
  BY <1>0, <1>12 DEF RegistryInv, Connects
<1>14. ASSUME NEW n \in FleetNode, NEW c \in Certificate, KeepsBridge(n, c)
       PROVE  KeepsBridge(n, c)'
  BY <1>0, <1>1, <1>8, <1>14
     DEF KeepsBridge, MayUndo, Dropping, OnlyJob, SameCall, RegAt, Live
<1>15. AloneUpdates'
  <2>1. ASSUME ~overlapped, NEW j \in RegCall, reg'[j].update
        PROVE  /\ \A c \in Certificate :
                     Live(reg[j].node, c)' => c \in reg'[j].old \union {reg'[j].cert}
               /\ j = i
    <3>1. ~RegAt(i, "idle") /\ ~RegAt(j, "idle")
      BY <1>0, <1>1, <2>1 DEF RegistryInv, JobsInOrder, OnlyJob, SameCall, RegAt
    <3>2. j = i
      BY <2>1, <3>1 DEF RegistryInv, OwnCerts
    <3>3. \A c \in Certificate : Live(reg[i].node, c) => c \in reg[i].old \union {reg[i].cert}
      BY <1>1, <2>1, <3>2 DEF RegistryInv, AloneUpdates, OnlyJob, SameCall
    <3> QED BY <1>0, <1>1, <1>3, <3>2, <3>3 DEF OnlyJob, SameCall, Live
  <2>2. ASSUME ~overlapped, reg'[i].update
        PROVE  /\ reg'[i].pc \in {"attach", "policy"} /\ ~Dropping(i)'
               /\ RegAt(i, "policy")' => Live(reg[i].node, reg[i].cert)'
               /\ reg'[i].node = reg[i].node /\ reg'[i].cert = reg[i].cert
    BY <1>0, <1>1, <1>3, <2>2 DEF OnlyJob, SameCall, RegAt, Dropping
  <2>3. ASSUME ~overlapped, NEW n \in FleetNode, nodeRow[n] = "bridge"
        PROVE  \E c \in Certificate : KeepsBridge(n, c)'
    BY <1>14, <2>3 DEF RegistryInv, AloneUpdates
  <2> QED BY <1>0, <2>1, <2>2, <2>3 DEF AloneUpdates, Live
<1> QED BY <1>4, <1>5, <1>6, <1>7, <1>10, <1>13, <1>15 DEF RegistryInv

\* The thing is there before the certificate is attached to it.
LEMMA CreateThingKeeps ==
    ASSUME RegistryInv, NEW i \in RegCall, CreateFleetThing(i)
    PROVE  RegistryInv'
<1>0. RegAt(i, "thing") /\ UNCHANGED <<certSt, policies, principals, nodeRow, overlapped>>
      /\ reg[i].cert \in Certificate /\ reg[i].node \in FleetNode
  BY JobTypes DEF CreateFleetThing, RegistryInv
<1>1. /\ OnlyJob(i) /\ SameCall(i) /\ reg'[i].old = reg[i].old /\ reg'[i].carry = reg[i].carry
      /\ reg'[i].pc = "attach" /\ ("cert" \in reg'[i].made <=> "cert" \in reg[i].made)
      /\ things' = things \union {reg[i].node}
  <2>1. PICK made \in SUBSET {"cert", "thing"} :
           /\ reg' = [reg EXCEPT ![i].pc = "attach", ![i].made = made]
           /\ "cert" \in made <=> "cert" \in reg[i].made
    <3>1. reg[i].made \in SUBSET {"cert", "thing"}
      BY DEF RegistryInv, RegistryTypeOK, RegJob
    <3>2. CASE reg[i].node \in things
      BY <3>1, <3>2 DEF CreateFleetThing
    <3>3. CASE reg[i].node \notin things
      <4>1. reg[i].made \union {"thing"} \in SUBSET {"cert", "thing"}
        BY <3>1
      <4> QED BY <4>1, <3>3 DEF CreateFleetThing
    <3> QED BY <3>2, <3>3
  <2>2. things' = things \union {reg[i].node}
    BY DEF CreateFleetThing
  <2>3. reg \in [RegCall -> RegJob] /\ reg[i] \in RegJob
    BY DEF RegistryInv, RegistryTypeOK
  <2>4. [reg[i] EXCEPT !.pc = "attach", !.made = made] \in RegJob
    BY <2>3 DEF RegJob, RegPc
  <2>5. reg' = [reg EXCEPT ![i] = [reg[i] EXCEPT !.pc = "attach", !.made = made]]
    BY <2>1
  <2>6. OnlyJob(i) /\ reg'[i] = [reg[i] EXCEPT !.pc = "attach", !.made = made]
    BY <2>3, <2>4, <2>5 DEF OnlyJob
  <2> QED BY <2>1, <2>2, <2>3, <2>6 DEF RegJob, SameCall
<1>2. RegistryTypeOK'
  BY <1>0, <1>1 DEF RegistryInv, RegistryTypeOK, OnlyJob
<1>3. OwnCerts'
  BY <1>0, <1>1 DEF RegistryInv, OwnCerts, OnlyJob, SameCall, RegAt
<1>4. JobsInOrder'
  BY <1>0, <1>1 DEF RegistryInv, JobsInOrder, OnlyJob, SameCall, RegAt, Dropping
<1>5. CertTaken'
  BY <1>0, <1>1 DEF RegistryInv, CertTaken, TakenBy, OnlyJob, SameCall, RegAt, Live
<1>6. Ordered'
  BY <1>0, <1>1 DEF RegistryInv, Ordered, OnlyJob, SameCall, Live
<1>7. ASSUME NEW n \in FleetNode, NEW c \in Certificate, Keeps(n, c)
      PROVE  Keeps(n, c)'
  BY <1>0, <1>1, <1>7
     DEF RegistryInv, Keeps, Replaces, MayUndo, Dropping, OnlyJob, SameCall, RegAt, Live
<1>8. Connects'
  BY <1>7, <1>0 DEF RegistryInv, Connects
<1>9. ASSUME NEW n \in FleetNode, NEW c \in Certificate, KeepsBridge(n, c)
      PROVE  KeepsBridge(n, c)'
  BY <1>0, <1>1, <1>9
     DEF RegistryInv, KeepsBridge, MayUndo, Dropping, OnlyJob, SameCall, RegAt, Live
<1>10. AloneUpdates'
  BY <1>0, <1>1, <1>9
     DEF RegistryInv, AloneUpdates, OnlyJob, SameCall, Dropping, RegAt, Live
<1> QED BY <1>2, <1>3, <1>4, <1>5, <1>6, <1>8, <1>10 DEF RegistryInv

\* Attaching makes the call's own certificate usable, and that of no other.
LEMMA AttachKeeps ==
    ASSUME RegistryInv, NEW i \in RegCall, AttachCertificateToThing(i)
    PROVE  RegistryInv'
<1>0. RegAt(i, "attach") /\ UNCHANGED <<certSt, policies, things, nodeRow, overlapped>>
      /\ reg[i].cert \in Certificate /\ reg[i].node \in FleetNode
      /\ principals' = principals \union {<<reg[i].node, reg[i].cert>>}
      /\ reg[i].old \subseteq Certificate
  BY JobTypes DEF AttachCertificateToThing, RegistryInv
<1>1. OnlyJob(i) /\ SameJob(i) /\ reg'[i].pc = "policy"
  BY GotoFields DEF RegistryInv, AttachCertificateToThing, RegPc
<1>2. /\ certSt[reg[i].cert] = "active" /\ CommonName(reg[i].cert) = reg[i].node
      /\ Live(reg[i].node, reg[i].cert)'
  <2>1. certSt[reg[i].cert] = "active" /\ CommonName(reg[i].cert) = reg[i].node
    BY <1>0 DEF RegistryInv, CertTaken, TakenBy, OwnCerts, RegAt
  <2> QED BY <2>1, <1>0, <1>1 DEF Live, SameJob, SameCall
<1>4. RegistryTypeOK'
  BY <1>0, <1>1 DEF RegistryInv, RegistryTypeOK, OnlyJob
<1>5. OwnCerts'
  BY <1>0, <1>1, <1>2 DEF RegistryInv, OwnCerts, OnlyJob, SameJob, SameCall, RegAt
<1>6. JobsInOrder'
  BY <1>0, <1>1
     DEF RegistryInv, JobsInOrder, OnlyJob, SameJob, SameCall, RegAt, Dropping
<1>7. CertTaken'
  <2>1. TakenBy(i)'
    BY <1>0, <1>1, <1>2 DEF TakenBy, OnlyJob, SameJob, SameCall, RegAt
  <2>2. ASSUME NEW j \in RegCall, j # i
        PROVE  TakenBy(j)'
    <3>1. /\ reg'[j] = reg[j] /\ TakenBy(j) /\ reg[j].cert \in Certificate
          /\ ~RegAt(j, "idle") => reg[j].cert # reg[i].cert
      BY <1>0, <1>1, <2>2, JobTypes DEF RegistryInv, CertTaken, OwnCerts, OnlyJob, RegAt
    <3>2. \A k \in RegCall : reg'[k].old = reg[k].old
      BY <1>1 DEF OnlyJob, SameJob
    <3> QED BY <1>0, <3>1, <3>2 DEF TakenBy, RegAt, Live
  <2> QED BY <2>1, <2>2 DEF CertTaken
<1>8. ASSUME NEW n \in FleetNode, NEW c \in Certificate, Live(n, c)
      PROVE  Live(n, c)'
  BY <1>0, <1>8 DEF Live
<1>9. ASSUME NEW j \in RegCall, NEW c \in reg[j].old, Live(reg[j].node, c)', reg[j].update
      PROVE  Live(reg[j].node, c)
  <2>1. c \in Certificate /\ c # reg[j].cert
    BY <1>9, JobTypes DEF RegistryInv, JobsInOrder
  <2>2. ASSUME c = reg[i].cert, j # i
        PROVE  FALSE
    <3>1. ~RegAt(i, "idle") /\ ~RegAt(j, "idle")
      BY <1>0, <1>9 DEF RegistryInv, JobsInOrder, RegAt
    <3>2. reg[i].fresh
      BY <2>2, <3>1 DEF RegistryInv, OwnCerts
    <3>3. TakenBy(i)
      BY DEF RegistryInv, CertTaken
    <3> QED BY <1>0, <2>2, <3>2, <3>3 DEF TakenBy, RegAt
  <2> QED BY <2>1, <2>2, <1>0, <1>1, <1>9 DEF Live, OnlyJob, SameJob, SameCall
<1>10. Ordered'
  BY <1>1, <1>9 DEF RegistryInv, Ordered, OnlyJob, SameJob, SameCall, Live
<1>11. ASSUME NEW j \in RegCall, Replaces(j)
       PROVE  Replaces(j)'
  BY <1>0, <1>1, <1>2, <1>8, <1>11, JobTypes
     DEF RegistryInv, Replaces, Dropping, OnlyJob, SameJob, SameCall, RegAt
<1>12. ASSUME NEW n \in FleetNode, NEW c \in Certificate, Keeps(n, c)
       PROVE  Keeps(n, c)'
  BY <1>0, <1>1, <1>8, <1>11, <1>12
     DEF Keeps, MayUndo, OnlyJob, SameJob, SameCall, RegAt, Live
<1>13. Connects'
  BY <1>0, <1>12 DEF RegistryInv, Connects
<1>14. ASSUME NEW n \in FleetNode, NEW c \in Certificate, KeepsBridge(n, c)
       PROVE  KeepsBridge(n, c)'
  BY <1>0, <1>1, <1>8, <1>14
     DEF KeepsBridge, MayUndo, Dropping, OnlyJob, SameJob, SameCall, RegAt, Live
<1>15. AloneUpdates'
  <2>1. ASSUME ~overlapped, NEW j \in RegCall, reg'[j].update
        PROVE  /\ \A c \in Certificate :
                     Live(reg[j].node, c)' => c \in reg'[j].old \union {reg'[j].cert}
               /\ j = i
    <3>1. ~RegAt(i, "idle") /\ ~RegAt(j, "idle")
      BY <1>0, <1>1, <2>1
         DEF RegistryInv, JobsInOrder, OnlyJob, SameJob, SameCall, RegAt
    <3>2. j = i
      BY <2>1, <3>1 DEF RegistryInv, OwnCerts
    <3>3. \A c \in Certificate : Live(reg[i].node, c) => c \in reg[i].old \union {reg[i].cert}
      BY <1>1, <2>1, <3>2 DEF RegistryInv, AloneUpdates, OnlyJob, SameJob, SameCall
    <3> QED BY <1>0, <1>1, <1>2, <3>2, <3>3 DEF OnlyJob, SameJob, SameCall, Live
  <2>2. ASSUME ~overlapped, reg'[i].update
        PROVE  /\ reg'[i].pc \in {"attach", "policy"} /\ ~Dropping(i)'
               /\ RegAt(i, "policy")' => Live(reg[i].node, reg[i].cert)'
               /\ reg'[i].node = reg[i].node /\ reg'[i].cert = reg[i].cert
    BY <1>0, <1>1, <1>2, <2>2 DEF OnlyJob, SameJob, SameCall, RegAt, Dropping
  <2>3. ASSUME ~overlapped, NEW n \in FleetNode, nodeRow[n] = "bridge"
        PROVE  \E c \in Certificate : KeepsBridge(n, c)'
    BY <1>14, <2>3 DEF RegistryInv, AloneUpdates
  <2> QED BY <1>0, <2>1, <2>2, <2>3 DEF AloneUpdates, Live
<1> QED BY <1>4, <1>5, <1>6, <1>7, <1>10, <1>13, <1>15 DEF RegistryInv

\* The certificate of an update takes the place of those it drops: it came
\* after them, and a call that lists it lists them.
LEMMA AttachPoliciesKeeps ==
    ASSUME RegistryInv, NEW i \in RegCall, AttachPolicies(i)
    PROVE  RegistryInv'
<1>0. RegAt(i, "policy") /\ UNCHANGED <<certSt, principals, things, nodeRow, overlapped>>
      /\ reg[i].cert \in Certificate /\ reg[i].node \in FleetNode
      /\ reg[i].update \in BOOLEAN /\ reg[i].carry \subseteq Policies
      /\ reg[i].old \subseteq Certificate
  BY JobTypes DEF AttachPolicies, RegistryInv, RegistryTypeOK, RegJob
<1>1. /\ OnlyJob(i) /\ SameJob(i)
      /\ reg'[i].pc = IF reg[i].update THEN "drop" ELSE "row"
  BY <1>0, GotoFields DEF RegistryInv, AttachPolicies, RegPc
<1>2. /\ policies' \in [Certificate -> SUBSET Policies]
      /\ \A c \in Certificate : policies[c] \subseteq policies'[c]
      /\ "base" \in policies'[reg[i].cert]
      /\ reg[i].carry \subseteq policies'[reg[i].cert]
      /\ reg[i].bridge => "bridge" \in policies'[reg[i].cert]
  BY <1>0 DEF RegistryInv, RegistryTypeOK, AttachPolicies, Policies
<1>own. PICK own \in Certificate : own = reg[i].cert
  BY <1>0
<1>home. PICK home \in FleetNode : home = reg[i].node
  BY <1>0
<1>3. RegistryTypeOK'
  BY <1>0, <1>1, <1>2 DEF RegistryInv, RegistryTypeOK, OnlyJob
<1>4. OwnCerts'
  BY <1>0, <1>1 DEF RegistryInv, OwnCerts, OnlyJob, SameJob, SameCall, RegAt
<1>5. JobsInOrder'
  BY <1>0, <1>1
     DEF RegistryInv, JobsInOrder, OnlyJob, SameJob, SameCall, RegAt, Dropping
<1>6. CertTaken'
  <2>1. TakenBy(i)'
    BY <1>0, <1>1, <1>2
       DEF RegistryInv, CertTaken, TakenBy, OnlyJob, SameJob, SameCall, RegAt, Live
  <2>2. ASSUME NEW j \in RegCall, j # i
        PROVE  TakenBy(j)'
    <3>1. reg'[j] = reg[j] /\ TakenBy(j) /\ reg[j].cert \in Certificate
      BY <1>0, <1>1, <2>2, JobTypes DEF RegistryInv, CertTaken, OnlyJob
    <3>2. \A k \in RegCall : reg'[k].old = reg[k].old
      BY <1>1 DEF OnlyJob, SameJob
    <3> QED BY <1>0, <1>2, <3>1, <3>2 DEF TakenBy, RegAt, Live
  <2> QED BY <2>1, <2>2 DEF CertTaken
<1>7. Ordered'
  BY <1>0, <1>1 DEF RegistryInv, Ordered, OnlyJob, SameJob, SameCall, Live
<1>8. ASSUME NEW n \in FleetNode, NEW c \in Certificate, Keeps(n, c),
             ~reg[i].update \/ c \notin reg[i].old
      PROVE  Keeps(n, c)'
  <2>1. ASSUME NEW j \in RegCall, c \in reg[j].old, reg[i].update
        PROVE  reg[j].cert \notin reg[i].old
    <3>1. reg[j].update
      BY <2>1 DEF RegistryInv, JobsInOrder
    <3>2. reg[j].node = CommonName(c) /\ CommonName(c) = n
      BY <2>1, <1>8 DEF RegistryInv, JobsInOrder, OwnCerts, Keeps, Live
    <3> QED BY <1>8, <2>1, <3>1, <3>2 DEF RegistryInv, Ordered, Keeps, Live
  <2>2. ASSUME NEW j \in RegCall, c \in reg[j].old
        PROVE  Replaces(j)'
    <3>1. Replaces(j) /\ j # i
      BY <1>8, <2>2 DEF RegistryInv, JobsInOrder, Keeps
    <3> QED BY <1>0, <1>1, <2>1, <2>2, <3>1
       DEF Replaces, Dropping, OnlyJob, SameJob, SameCall, RegAt, Live
  <2> QED BY <1>0, <1>1, <1>2, <1>8, <2>2
     DEF Keeps, MayUndo, OnlyJob, SameJob, SameCall, RegAt, Live
<1>9. ASSUME NEW n \in FleetNode, NEW c \in Certificate, Keeps(n, c),
             reg[i].update, c \in reg[i].old
      PROVE  Keeps(n, own)'
  <2>1. n = reg[i].node
    BY <1>9 DEF RegistryInv, JobsInOrder, OwnCerts, Keeps, Live
  <2>2. Replaces(i)
    BY <1>9 DEF Keeps
  <2>3. Live(n, own)'
    BY <1>0, <1>own, <2>1, <2>2 DEF Replaces, Live, RegAt
  <2>4. ASSUME NEW j \in RegCall, MayUndo(j)'
        PROVE  reg'[j].cert # own
    <3>1. j # i /\ reg'[j] = reg[j] /\ ~RegAt(j, "idle") /\ ~RegAt(i, "idle")
      BY <1>0, <1>1, <1>9, <2>4 DEF MayUndo, OnlyJob, SameJob, SameCall, RegAt
    <3> QED BY <1>own, <3>1 DEF RegistryInv, OwnCerts
  <2>5. ASSUME NEW j \in RegCall, own \in reg'[j].old
        PROVE  Replaces(j)'
    <3>1. j # i /\ reg'[j] = reg[j] /\ reg[i].cert \in reg[j].old
      BY <2>5, <1>1, <1>own DEF RegistryInv, JobsInOrder, OnlyJob, SameJob
    <3>2. c \in reg[j].old
      BY <1>9, <2>1, <3>1 DEF RegistryInv, Ordered, Keeps, Live
    <3>3. Replaces(j) /\ reg[j].update
      BY <1>9, <3>1, <3>2 DEF RegistryInv, JobsInOrder, Keeps
    <3>4. reg[j].cert \notin reg[i].old
      BY <3>1, <3>3, <1>9 DEF RegistryInv, Ordered
    <3> QED BY <1>0, <1>1, <3>1, <3>3, <3>4
       DEF Replaces, Dropping, OnlyJob, SameJob, SameCall, RegAt, Live
  <2> QED BY <1>2, <1>own, <2>3, <2>4, <2>5 DEF Keeps
<1>10. Connects'
  <2> SUFFICES ASSUME NEW n \in FleetNode, nodeRow[n] # "none"
               PROVE  \E c \in Certificate : Keeps(n, c)'
    BY <1>0 DEF Connects
  <2>1. PICK c \in Certificate : Keeps(n, c)
    BY DEF RegistryInv, Connects
  <2> QED BY <1>0, <1>8, <1>9, <2>1
<1>11. ASSUME NEW n \in FleetNode, NEW c \in Certificate, KeepsBridge(n, c),
             ~reg[i].update \/ c \notin reg[i].old
      PROVE  KeepsBridge(n, c)'
  BY <1>0, <1>1, <1>2, <1>11
     DEF KeepsBridge, Dropping, MayUndo, OnlyJob, SameJob, SameCall, RegAt, Live
<1>12. ASSUME NEW j \in RegCall, ~overlapped, j # i
       PROVE  RegAt(j, "idle") /\ ~reg'[j].update /\ reg'[j].old = {} /\ ~Dropping(j)'
  <2>1. RegAt(j, "idle")
    BY <1>0, <1>12 DEF RegistryInv, OwnCerts, RegAt
  <2> QED BY <1>1, <1>12, <2>1 DEF RegistryInv, JobsInOrder, OnlyJob, RegAt, Dropping
<1>13. ASSUME NEW n \in FleetNode, NEW c \in Certificate, KeepsBridge(n, c), ~overlapped,
              reg[i].update, c \in reg[i].old
       PROVE  KeepsBridge(n, own)'
  <2>1. n = reg[i].node
    BY <1>13 DEF RegistryInv, JobsInOrder, OwnCerts, KeepsBridge, Live
  <2>2. Live(n, own)'
    BY <1>0, <1>own, <1>13, <2>1 DEF RegistryInv, AloneUpdates, Live
  <2>3. "bridge" \in policies'[reg[i].cert]
    BY <1>13, <1>2 DEF KeepsBridge
  <2>4. ASSUME NEW j \in RegCall
        PROVE  ~MayUndo(j)' /\ own \notin reg'[j].old
    <3>1. CASE j = i
      <4>1. reg'[i].update /\ reg'[i].old = reg[i].old
        BY <1>1, <1>13 DEF SameJob, SameCall
      <4>2. own \notin reg[i].old
        BY <1>own, <1>13 DEF RegistryInv, JobsInOrder
      <4> QED BY <3>1, <4>1, <4>2 DEF MayUndo
    <3>2. CASE j # i
      <4>1. RegAt(j, "idle") /\ reg'[j] = reg[j] /\ reg'[j].old = {}
        BY <1>1, <1>12, <1>13, <3>2 DEF OnlyJob
      <4> QED BY <4>1 DEF MayUndo, RegAt
    <3> QED BY <3>1, <3>2
  <2> QED BY <1>own, <2>2, <2>3, <2>4 DEF KeepsBridge
<1>14. AloneUpdates'
  <2> SUFFICES ASSUME ~overlapped PROVE AloneUpdates'
    BY <1>0 DEF AloneUpdates
  <2>1. ASSUME NEW n \in FleetNode, nodeRow[n] = "bridge"
        PROVE  \E c \in Certificate : KeepsBridge(n, c)'
    <3>1. PICK c \in Certificate : KeepsBridge(n, c)
      BY <2>1 DEF RegistryInv, AloneUpdates
    <3> QED BY <1>0, <1>11, <1>13, <3>1
  <2>2. ASSUME NEW j \in RegCall, reg'[j].update
        PROVE  /\ \A c \in Certificate :
                     Live(home, c)' => c \in reg'[i].old \union {reg'[i].cert}
               /\ Live(home, own)'
               /\ j = i
    <3>1. j = i /\ reg[i].update
      BY <1>1, <1>12, <2>2 DEF SameJob, SameCall
    <3> QED BY <1>0, <1>1, <1>own, <1>home, <3>1
            DEF RegistryInv, AloneUpdates, SameJob, SameCall, Live
  <2> QED BY <1>0, <1>1, <1>2, <1>own, <1>home, <2>1, <2>2
     DEF AloneUpdates, SameJob, SameCall, Live
<1> QED BY <1>3, <1>4, <1>5, <1>6, <1>7, <1>10, <1>14 DEF RegistryInv

\* A call that is undone, or ends before it was done, touches its own
\* certificate alone, and only when it made it.
LEMMA UndoKeeps ==
    ASSUME RegistryInv, NEW i \in RegCall, ~RegAt(i, "idle"),
           UNCHANGED <<nodeRow, overlapped>>,
           OnlyJob(i), ~reg'[i].update, reg'[i].old = {},
           reg'[i].pc \in {"idle", "undoThing", "undoDetach", "undoCert"},
           reg'[i].pc = "idle" => reg'[i].made = {},
           reg'[i].pc # "idle" => SameJob(i) /\ reg[i].pc # "row",
           things' \subseteq FleetNode,
           policies' \in [Certificate -> SUBSET Policies],
           \A c \in Certificate : policies[c] \subseteq policies'[c],
           certSt' \in [Certificate -> {"none", "active", "inactive", "deleted"}],
           \A c \in Certificate : c # reg[i].cert => certSt'[c] = certSt[c],
           \A st \in {"none", "active"} :
              certSt'[reg[i].cert] = st => certSt[reg[i].cert] = st,
           principals' \subseteq principals,
           \A p \in principals : p # <<reg[i].node, reg[i].cert>> => p \in principals',
           MayUndo(i) \/ UNCHANGED <<certSt, principals>>
    PROVE  RegistryInv'
<1>1. RegistryTypeOK'
  BY DEF RegistryInv, RegistryTypeOK, OnlyJob
<1>2. OwnCerts'
  <2>1. ASSUME NEW j \in RegCall, reg'[j].pc # "idle"
        PROVE  /\ reg[j].pc # "idle" /\ reg'[j].fresh = reg[j].fresh
               /\ reg'[j].cert = reg[j].cert /\ reg'[j].node = reg[j].node
    BY <2>1 DEF OnlyJob, SameJob, SameCall, RegAt
  <2>2. ASSUME NEW n \in FleetNode, NEW c \in Certificate, <<n, c>> \in principals'
        PROVE  CommonName(c) = n /\ certSt'[c] # "none"
    BY <2>2 DEF RegistryInv, OwnCerts
  <2>3. ~overlapped => \A j, k \in RegCall : reg'[j].pc # "idle" /\ reg'[k].pc # "idle" => j = k
    BY <2>1 DEF RegistryInv, OwnCerts, RegAt
  <2>4. ASSUME NEW j \in RegCall, NEW k \in RegCall, j # k, reg'[j].pc # "idle", reg'[k].pc # "idle"
        PROVE  reg'[j].fresh /\ reg'[k].fresh /\ reg'[j].cert # reg'[k].cert
    BY <2>1, <2>4 DEF RegistryInv, OwnCerts, RegAt
  <2>5. ASSUME NEW j \in RegCall, reg'[j].pc # "idle"
        PROVE  CommonName(reg'[j].cert) = reg'[j].node
    BY <2>1, <2>5 DEF RegistryInv, OwnCerts, RegAt
  <2> QED BY <2>2, <2>3, <2>4, <2>5 DEF OwnCerts, RegAt
<1>3. JobsInOrder'
  <2>1. ASSUME NEW j \in RegCall, NEW o \in reg[j].old
        PROVE  certSt'[o] # "none" /\ CommonName(o) = reg[j].node /\ o # reg[j].cert
    BY JobTypes DEF RegistryInv, JobsInOrder
  <2> QED BY <2>1 DEF RegistryInv, JobsInOrder, OnlyJob, RegAt, Dropping
<1>4. ASSUME NEW j \in RegCall, j # i, ~RegAt(j, "idle")
      PROVE  /\ reg'[j] = reg[j] /\ reg[j].cert # reg[i].cert
             /\ reg[j].cert \in Certificate
             /\ certSt'[reg[j].cert] = certSt[reg[j].cert]
             /\ Live(reg[j].node, reg[j].cert) => Live(reg[j].node, reg[j].cert)'
  <2>1. reg'[j] = reg[j] /\ reg[j].cert # reg[i].cert /\ reg[j].cert \in Certificate
    BY <1>4, JobTypes DEF RegistryInv, OwnCerts, OnlyJob
  <2> QED BY <2>1 DEF Live
<1>5. CertTaken'
  <2>1. TakenBy(i)'
    BY DEF TakenBy, RegAt
  <2>2. ASSUME NEW j \in RegCall, j # i, ~RegAt(j, "idle")
        PROVE  TakenBy(j)'
    <3>1. TakenBy(j) /\ reg'[j] = reg[j]
      BY <1>4, <2>2 DEF RegistryInv, CertTaken
    <3>2. \A k \in RegCall : reg'[k].old \subseteq reg[k].old
      BY DEF OnlyJob
    <3> QED BY <1>4, <2>2, <3>1, <3>2 DEF TakenBy, RegAt, Live
  <2>3. ASSUME NEW j \in RegCall, j # i, RegAt(j, "idle")
        PROVE  TakenBy(j)'
    BY <2>3 DEF TakenBy, RegAt, OnlyJob
  <2> QED BY <2>1, <2>2, <2>3 DEF CertTaken
<1>6. ASSUME NEW n \in FleetNode, NEW c \in Certificate, Live(n, c)'
      PROVE  Live(n, c)
  BY <1>6 DEF Live
<1>7. ASSUME NEW n \in FleetNode, NEW c \in Certificate, Live(n, c), MayUndo(i) => c # reg[i].cert
      PROVE  Live(n, c)'
  BY <1>7 DEF Live
<1>8. Ordered'
  <2> SUFFICES ASSUME NEW j \in RegCall, NEW k \in RegCall,
                      reg'[j].update, reg'[j].cert \in reg'[k].old
               PROVE  /\ reg'[k].cert \notin reg'[j].old
                      /\ \A d \in reg'[j].old :
                            <<reg'[j].node, d>> \in principals' /\ certSt'[d] = "active" => d \in reg'[k].old
    BY DEF Ordered, Live
  <2>1. j # i /\ k # i /\ reg'[j] = reg[j] /\ reg'[k] = reg[k]
    BY DEF OnlyJob
  <2>2. \A d \in reg[j].old : d \in Certificate /\ reg[j].node \in FleetNode
    BY JobTypes DEF RegistryInv
  <2> QED BY <1>6, <2>1, <2>2 DEF RegistryInv, Ordered, Live
<1>9. ASSUME NEW j \in RegCall, MayUndo(j)'
      PROVE  MayUndo(j) /\ reg'[j].cert = reg[j].cert
  BY <1>9 DEF MayUndo, OnlyJob, SameJob, SameCall, RegAt
<1>10. ASSUME NEW j \in RegCall, reg[j].update, Replaces(j), j # i
       PROVE  Replaces(j)'
  <2>1. ~RegAt(j, "idle")
    BY <1>10 DEF RegistryInv, JobsInOrder
  <2>2. \A k \in RegCall : Dropping(k)' => Dropping(k) /\ reg'[k].old = reg[k].old
    BY DEF Dropping, OnlyJob
  <2> QED BY <1>4, <1>10, <2>1, <2>2 DEF Replaces, Dropping, RegAt, Live
<1>11. ASSUME NEW n \in FleetNode, NEW c \in Certificate, Keeps(n, c)
       PROVE  Keeps(n, c)'
  <2>1. Live(n, c)'
    BY <1>7, <1>11 DEF Keeps
  <2>2. ASSUME NEW j \in RegCall, c \in reg'[j].old
        PROVE  Replaces(j)'
    <3>1. j # i /\ c \in reg[j].old
      BY <2>2 DEF OnlyJob
    <3>2. reg[j].update /\ Replaces(j)
      BY <1>11, <3>1 DEF RegistryInv, JobsInOrder, Keeps
    <3> QED BY <1>10, <3>1, <3>2
  <2> QED BY <1>9, <1>11, <2>1, <2>2 DEF Keeps
<1>12. Connects'
  BY <1>11 DEF RegistryInv, Connects
<1>13. ASSUME NEW n \in FleetNode, NEW c \in Certificate, KeepsBridge(n, c)
       PROVE  KeepsBridge(n, c)'
  <2>1. Live(n, c)'
    BY <1>7, <1>13 DEF KeepsBridge
  <2>2. ASSUME NEW j \in RegCall, c \in reg'[j].old
        PROVE  ~Dropping(j)' /\ "bridge" \in reg'[j].carry
    BY <1>13, <2>2 DEF OnlyJob, KeepsBridge, Dropping
  <2> QED BY <1>9, <1>13, <2>1, <2>2 DEF KeepsBridge
<1>14. AloneUpdates'
  <2> SUFFICES ASSUME ~overlapped PROVE AloneUpdates'
    BY DEF AloneUpdates
  <2>1. ASSUME NEW j \in RegCall
        PROVE  ~reg'[j].update /\ ~Dropping(j)'
    <3>1. j # i => RegAt(j, "idle") /\ reg'[j] = reg[j]
      BY DEF RegistryInv, OwnCerts, OnlyJob
    <3> QED BY <3>1 DEF RegistryInv, JobsInOrder, Dropping, RegAt
  <2> QED BY <1>13, <2>1 DEF RegistryInv, AloneUpdates
<1> QED BY <1>1, <1>2, <1>3, <1>5, <1>8, <1>12, <1>14 DEF RegistryInv

\* A rollback, and a call that fails or dies, are such ends.
LEMMA RollbackKeeps ==
    ASSUME RegistryInv, NEW i \in RegCall,
           \/ DeleteThing(i) \/ DetachThingPrincipal(i) \/ DeleteCertificate(i)
           \/ RegCallFails(i) \/ RegCallDies(i)
    PROVE  RegistryInv'
<1>0. RegistryTypeOK /\ JobsInOrder
  BY DEF RegistryInv
<1>1. /\ reg[i].cert \in Certificate /\ reg[i].node \in FleetNode
      /\ \A c \in Certificate : policies[c] \subseteq policies[c]
      /\ policies \in [Certificate -> SUBSET Policies]
      /\ certSt \in [Certificate -> {"none", "active", "inactive", "deleted"}]
      /\ things \subseteq FleetNode
  BY <1>0, JobTypes DEF RegistryTypeOK
<1>2. CASE DeleteThing(i)
  <2>1. /\ RegAt(i, "undoThing") /\ UNCHANGED <<certSt, policies, principals, nodeRow, overlapped>>
        /\ things' \subseteq things
    BY <1>2 DEF DeleteThing
  <2>2. OnlyJob(i) /\ SameJob(i) /\ reg'[i].pc = "undoDetach"
    BY <1>0, <1>2, GotoFields DEF DeleteThing, RegPc
  <2>3. ~reg[i].update /\ reg[i].old = {}
    BY <1>0, <2>1 DEF JobsInOrder, RegAt
  <2> QED BY <1>1, <2>1, <2>2, <2>3, UndoKeeps DEF SameJob, SameCall, RegAt
<1>3. CASE DetachThingPrincipal(i)
  <2>1. /\ RegAt(i, "undoDetach") /\ UNCHANGED <<certSt, policies, things, nodeRow, overlapped>>
        /\ principals' \subseteq principals
        /\ \A p \in principals : p # <<reg[i].node, reg[i].cert>> => p \in principals'
        /\ "cert" \in reg[i].made \/ UNCHANGED principals
    BY <1>3 DEF DetachThingPrincipal
  <2>2. OnlyJob(i) /\ SameJob(i) /\ reg'[i].pc = "undoCert"
    BY <1>0, <1>3, GotoFields DEF DetachThingPrincipal, RegPc
  <2>3. ~reg[i].update /\ reg[i].old = {}
    BY <1>0, <2>1 DEF JobsInOrder, RegAt
  <2>4. MayUndo(i) \/ UNCHANGED <<certSt, principals>>
    BY <2>1, <2>3 DEF MayUndo, RegAt
  <2> QED BY <1>1, <2>1, <2>2, <2>3, <2>4, UndoKeeps DEF SameJob, SameCall, RegAt
<1>4. CASE DeleteCertificate(i)
  <2>1. /\ RegAt(i, "undoCert") /\ UNCHANGED <<policies, principals, things, nodeRow, overlapped>>
        /\ "cert" \in reg[i].made \/ UNCHANGED certSt
    BY <1>4 DEF DeleteCertificate
  <2>2. /\ OnlyJob(i) /\ reg'[i].pc = "idle" /\ ~reg'[i].update
        /\ reg'[i].old = {} /\ reg'[i].made = {}
    BY <1>0, <1>4, DoneFields DEF DeleteCertificate
  <2>3. ~reg[i].update
    BY <1>0, <2>1 DEF JobsInOrder, RegAt
  <2>4. MayUndo(i) \/ UNCHANGED <<certSt, principals>>
    BY <2>1, <2>3 DEF MayUndo, RegAt
  <2>5. \/ UNCHANGED certSt
        \/ \E st \in {"inactive", "deleted"} : certSt' = [certSt EXCEPT ![reg[i].cert] = st]
    BY <1>4 DEF DeleteCertificate
  <2>6. /\ certSt' \in [Certificate -> {"none", "active", "inactive", "deleted"}]
        /\ \A c \in Certificate : c # reg[i].cert => certSt'[c] = certSt[c]
        /\ \A st \in {"none", "active"} : certSt'[reg[i].cert] = st => certSt[reg[i].cert] = st
    BY <1>1, <2>5
  <2> QED BY <1>1, <2>1, <2>2, <2>4, <2>6, UndoKeeps DEF RegAt
<1>5. CASE RegCallFails(i)
  <2>1. /\ reg[i].pc \in {"cert", "thing", "attach", "policy"}
        /\ UNCHANGED <<certSt, principals, things, nodeRow, overlapped>>
    BY <1>5 DEF RegCallFails
  <2>2. /\ policies' \in [Certificate -> SUBSET Policies]
        /\ \A c \in Certificate : policies[c] \subseteq policies'[c]
    BY <1>1, <1>5 DEF RegCallFails, Policies
  <2>3. CASE reg[i].update
    <3>1. /\ OnlyJob(i) /\ reg'[i].pc = "idle" /\ ~reg'[i].update
          /\ reg'[i].old = {} /\ reg'[i].made = {}
      BY <1>0, <1>5, <2>3, DoneFields DEF RegCallFails
    <3> QED BY <1>1, <2>1, <2>2, <3>1, UndoKeeps DEF RegAt
  <2>4. CASE ~reg[i].update
    <3>1. OnlyJob(i) /\ SameJob(i) /\ reg'[i].pc = "undoThing"
      BY <1>0, <1>5, <2>4, GotoFields DEF RegCallFails, RegPc
    <3>2. reg[i].old = {}
      BY <1>0, <2>4 DEF JobsInOrder
    <3> QED BY <1>1, <2>1, <2>2, <2>4, <3>1, <3>2, UndoKeeps
       DEF SameJob, SameCall, RegAt
  <2> QED BY <2>3, <2>4
<1>6. CASE RegCallDies(i)
  BY <1>6, DoneKeeps DEF RegCallDies
<1> QED BY <1>2, <1>3, <1>4, <1>5, <1>6

\* The row of a node is written when its certificate is attached for good.
LEMMA AddRowKeeps ==
    ASSUME RegistryInv, NEW i \in RegCall, AddNodeRow(i)
    PROVE  RegistryInv'
<1>0. /\ RegAt(i, "row") /\ UNCHANGED <<certSt, policies, principals, things, overlapped>>
      /\ reg[i].cert \in Certificate /\ reg[i].node \in FleetNode /\ ~reg[i].update
      /\ reg[i].bridge \in BOOLEAN
  BY JobTypes DEF AddNodeRow, RegistryInv, JobsInOrder, RegAt
<1>1. /\ OnlyJob(i) /\ reg'[i].pc = "idle" /\ ~reg'[i].update
      /\ reg'[i].old = {} /\ reg'[i].made = {}
  BY DoneFields DEF AddNodeRow, RegistryInv
<1>2. /\ nodeRow' \in [FleetNode -> {"none", "plain", "bridge"}]
      /\ \A n \in FleetNode : nodeRow[n] # "none" \/ n # reg[i].node => nodeRow'[n] = nodeRow[n]
      /\ nodeRow'[reg[i].node] = "bridge" =>
            nodeRow[reg[i].node] = "bridge" \/ reg[i].bridge
  BY <1>0 DEF RegistryInv, RegistryTypeOK, AddNodeRow
<1>own. PICK own \in Certificate : own = reg[i].cert
  BY <1>0
<1>home. PICK home \in FleetNode : home = reg[i].node
  BY <1>0
<1>3. RegistryTypeOK'
  BY <1>0, <1>1, <1>2 DEF RegistryInv, RegistryTypeOK, OnlyJob
<1>4. OwnCerts'
  BY <1>0, <1>1 DEF RegistryInv, OwnCerts, OnlyJob, RegAt
<1>5. JobsInOrder'
  BY <1>0, <1>1, <1>2, JobTypes DEF RegistryInv, JobsInOrder, OnlyJob, RegAt, Dropping
<1>6. CertTaken'
  BY <1>0, <1>1, <1>2, JobTypes
     DEF RegistryInv, CertTaken, TakenBy, OnlyJob, RegAt, Live
<1>7. Ordered'
  BY <1>0, <1>1 DEF RegistryInv, Ordered, OnlyJob, Live
<1>8. ASSUME NEW n \in FleetNode, NEW c \in Certificate, Keeps(n, c)
      PROVE  Keeps(n, c)'
  BY <1>0, <1>1, <1>8 DEF Keeps, Replaces, MayUndo, Dropping, OnlyJob, RegAt, Live
<1>9. ASSUME nodeRow[home] = "none"
      PROVE  /\ Live(home, own)' /\ "base" \in policies'[own]
             /\ \A j \in RegCall : ~MayUndo(j)' \/ reg'[j].cert # own
             /\ \A j \in RegCall : own \notin reg'[j].old
             /\ reg[i].bridge => "bridge" \in policies'[own]
  <2>1. TakenBy(i) /\ CommonName(own) = home
    BY <1>0, <1>own, <1>home DEF RegistryInv, CertTaken, OwnCerts, RegAt
  <2>2. /\ Live(home, own)' /\ "base" \in policies'[own]
        /\ reg[i].bridge => "bridge" \in policies'[own]
    BY <1>0, <1>9, <1>own, <1>home, <2>1 DEF TakenBy, Live
  <2>3. ASSUME NEW j \in RegCall, MayUndo(j)'
        PROVE  reg'[j].cert # own
    <3>1. j # i /\ reg'[j] = reg[j] /\ ~RegAt(j, "idle") /\ ~RegAt(i, "idle")
      BY <1>0, <1>1, <2>3 DEF MayUndo, OnlyJob, RegAt
    <3> QED BY <1>own, <3>1 DEF RegistryInv, OwnCerts
  <2>4. ASSUME NEW j \in RegCall, own \in reg'[j].old
        PROVE  FALSE
    <3>1. j # i /\ own \in reg[j].old
      BY <1>1, <2>4 DEF OnlyJob
    <3>2. reg[j].update /\ reg[j].node = home
      BY <2>1, <3>1 DEF RegistryInv, JobsInOrder
    <3> QED BY <1>9, <3>2 DEF RegistryInv, JobsInOrder
  <2> QED BY <2>2, <2>3, <2>4
<1>10. Connects'
  <2>1. nodeRow[home] = "none" => Keeps(home, own)'
    BY <1>9 DEF Keeps
  <2>2. ASSUME NEW n \in FleetNode, nodeRow'[n] # "none"
        PROVE  \E c \in Certificate : Keeps(n, c)'
    BY <1>2, <1>8, <1>home, <2>1, <2>2 DEF RegistryInv, Connects
  <2> QED BY <2>2 DEF Connects
<1>11. ASSUME NEW n \in FleetNode, NEW c \in Certificate, KeepsBridge(n, c)
       PROVE  KeepsBridge(n, c)'
  BY <1>0, <1>1, <1>11 DEF KeepsBridge, MayUndo, Dropping, OnlyJob, RegAt, Live
<1>12. AloneUpdates'
  <2> SUFFICES ASSUME ~overlapped PROVE AloneUpdates'
    BY <1>0 DEF AloneUpdates
  <2>1. nodeRow[home] = "none" /\ reg[i].bridge => KeepsBridge(home, own)'
    BY <1>9 DEF KeepsBridge
  <2>2. ASSUME NEW n \in FleetNode, nodeRow'[n] = "bridge"
        PROVE  \E c \in Certificate : KeepsBridge(n, c)'
    BY <1>2, <1>11, <1>home, <2>1, <2>2 DEF RegistryInv, AloneUpdates
  <2>3. ASSUME NEW j \in RegCall
        PROVE  ~reg'[j].update
    <3>1. j # i => RegAt(j, "idle") /\ reg'[j] = reg[j]
      BY <1>0, <1>1 DEF RegistryInv, OwnCerts, OnlyJob, RegAt
    <3> QED BY <1>1, <3>1 DEF RegistryInv, JobsInOrder
  <2> QED BY <2>2, <2>3 DEF AloneUpdates
<1> QED BY <1>3, <1>4, <1>5, <1>6, <1>7, <1>10, <1>12 DEF RegistryInv

\* An update takes away what it listed, never what keeps a node connected.
LEMMA DetachOldKeeps ==
    ASSUME RegistryInv, NEW i \in RegCall, DetachOld(i)
    PROVE  RegistryInv'
<1>0. /\ RegAt(i, "drop") /\ UNCHANGED <<certSt, policies, things, nodeRow, overlapped>>
      /\ reg[i].update /\ reg[i].node \in FleetNode /\ reg[i].cert \in Certificate
  BY JobTypes DEF DetachOld, RegistryInv, JobsInOrder, RegAt, Dropping
<1>1. PICK o \in reg[i].old :
         /\ principals' = principals \ {<<reg[i].node, o>>}
         /\ reg' = [reg EXCEPT ![i].pc = "kill", ![i].carry = {}]
  BY DEF DetachOld
<1>2. /\ OnlyJob(i) /\ SameCall(i) /\ reg'[i].pc = "kill"
      /\ reg'[i].made = reg[i].made /\ reg'[i].old = reg[i].old
  <2>1. PICK e : e = [reg[i] EXCEPT !.pc = "kill", !.carry = {}]
    OBVIOUS
  <2>2. reg[i] \in RegJob /\ {} \in SUBSET Policies /\ "kill" \in RegPc
    BY DEF RegistryInv, RegistryTypeOK, RegPc
  <2>3. /\ e \in RegJob /\ e.pc = "kill" /\ e.made = reg[i].made /\ e.old = reg[i].old
        /\ e.update = reg[i].update /\ e.node = reg[i].node /\ e.cert = reg[i].cert
        /\ e.fresh = reg[i].fresh /\ e.bridge = reg[i].bridge
    BY <2>1, <2>2 DEF RegJob
  <2>4. reg' = [reg EXCEPT ![i] = e]
    BY <1>1, <2>1
  <2> QED BY <2>3, <2>4 DEF RegistryInv, RegistryTypeOK, OnlyJob, SameCall
<1>3. /\ CommonName(o) = reg[i].node /\ o # reg[i].cert /\ nodeRow[reg[i].node] # "none"
      /\ o \in Certificate
  BY <1>0, JobTypes DEF RegistryInv, JobsInOrder
<1>pair. \A n, c : <<n, c>> \in principals' <=>
                      <<n, c>> \in principals /\ ~(n = reg[i].node /\ c = o)
  BY <1>1
<1>4. RegistryTypeOK'
  BY <1>0, <1>1, <1>2 DEF RegistryInv, RegistryTypeOK, OnlyJob
<1>5. OwnCerts'
  BY <1>0, <1>1, <1>2 DEF RegistryInv, OwnCerts, OnlyJob, SameCall, RegAt
<1>6. JobsInOrder'
  <2>1. ASSUME NEW j \in RegCall
        PROVE  /\ reg'[j].update = reg[j].update /\ reg'[j].node = reg[j].node
               /\ reg'[j].cert = reg[j].cert /\ reg'[j].old = reg[j].old
               /\ reg'[j].made = reg[j].made
               /\ reg'[j].pc = IF j = i THEN "kill" ELSE reg[j].pc
    BY <1>2 DEF OnlyJob, SameCall
  <2> QED BY <1>0, <2>1 DEF RegistryInv, JobsInOrder, RegAt, Dropping
<1>7. CertTaken'
  <2>1. TakenBy(i)'
    BY <1>2 DEF TakenBy, RegAt
  <2>2. ASSUME NEW j \in RegCall, j # i
        PROVE  TakenBy(j)'
    <3>1. /\ reg'[j] = reg[j] /\ TakenBy(j)
          /\ ~RegAt(j, "idle") => CommonName(reg[j].cert) = reg[j].node
      BY <1>2, <2>2 DEF RegistryInv, CertTaken, OwnCerts, OnlyJob
    <3>2. \A k \in RegCall : reg'[k].old = reg[k].old
      BY <1>2 DEF OnlyJob
    <3> QED BY <1>0, <1>pair, <1>3, <3>1, <3>2 DEF TakenBy, RegAt, Live
  <2> QED BY <2>1, <2>2 DEF CertTaken
<1>8. Ordered'
  BY <1>0, <1>1, <1>2 DEF RegistryInv, Ordered, OnlyJob, SameCall, Live
<1>9. ASSUME NEW n \in FleetNode, NEW c \in Certificate, Live(n, c), c # o
      PROVE  Live(n, c)'
  BY <1>0, <1>1, <1>9 DEF Live
<1>10. ASSUME NEW n \in FleetNode, NEW c \in Certificate, Keeps(n, c)
       PROVE  Keeps(n, c)'
  <2>1. c # o
    BY <1>0, <1>10 DEF Keeps, Replaces, Dropping, RegAt
  <2>2. ASSUME NEW j \in RegCall, c \in reg'[j].old
        PROVE  Replaces(j)'
    <3>1. Replaces(j) /\ j # i /\ reg'[j] = reg[j]
      BY <1>0, <1>2, <1>10, <2>2 DEF Keeps, Replaces, Dropping, OnlyJob, RegAt
    <3>2. reg[j].cert # o /\ reg[j].cert \in Certificate /\ reg[j].node \in FleetNode
      BY <1>0, <3>1, JobTypes DEF RegistryInv, Replaces, Dropping, RegAt
    <3>3. \A k \in RegCall : Dropping(k)' => Dropping(k) /\ reg'[k].old = reg[k].old
      BY <1>0, <1>2 DEF OnlyJob, Dropping, RegAt
    <3> QED BY <1>0, <1>pair, <3>1, <3>2, <3>3 DEF Replaces, Dropping, RegAt, Live
  <2> QED BY <1>0, <1>2, <1>9, <1>10, <2>1, <2>2 DEF Keeps, MayUndo, OnlyJob, SameCall
<1>11. Connects'
  BY <1>0, <1>10 DEF RegistryInv, Connects
<1>12. ASSUME NEW n \in FleetNode, NEW c \in Certificate, KeepsBridge(n, c)
       PROVE  KeepsBridge(n, c)'
  <2>1. c \notin reg[i].old
    BY <1>0, <1>12 DEF KeepsBridge, Dropping, RegAt
  <2> QED BY <1>0, <1>2, <1>9, <1>12, <2>1
     DEF KeepsBridge, MayUndo, Dropping, OnlyJob, SameCall
<1>13. AloneUpdates'
  <2> SUFFICES ASSUME ~overlapped PROVE AloneUpdates'
    BY <1>0 DEF AloneUpdates
  <2>1. ASSUME NEW n \in FleetNode, nodeRow[n] = "bridge"
        PROVE  \E c \in Certificate : KeepsBridge(n, c)'
    BY <1>12, <2>1 DEF RegistryInv, AloneUpdates
  <2>2. ASSUME NEW j \in RegCall, reg'[j].update
        PROVE  j = i
    <3>1. ~RegAt(i, "idle") /\ ~RegAt(j, "idle")
      BY <1>0, <1>2, <2>2 DEF RegistryInv, JobsInOrder, OnlyJob, SameCall, RegAt
    <3> QED BY <3>1 DEF RegistryInv, OwnCerts
  <2>3. /\ \A c \in Certificate :
              <<reg[i].node, c>> \in principals' /\ certSt[c] = "active" =>
                 c \in reg[i].old \union {reg[i].cert}
        /\ <<reg[i].node, reg[i].cert>> \in principals' /\ certSt[reg[i].cert] = "active"
        /\ reg[i].bridge => "bridge" \in policies[reg[i].cert]
    BY <1>0, <1>1, <1>3 DEF RegistryInv, AloneUpdates, Dropping, RegAt, Live
  <2> QED BY <1>0, <1>2, <2>1, <2>2, <2>3 DEF AloneUpdates, SameCall, Live
<1> QED BY <1>4, <1>5, <1>6, <1>7, <1>8, <1>11, <1>13 DEF RegistryInv

\* What it took away is made inactive, then forgotten: it cannot come back.
LEMMA DeactivateOldKeeps ==
    ASSUME RegistryInv, NEW i \in RegCall, DeactivateOld(i)
    PROVE  RegistryInv'
<1>0. /\ RegAt(i, "kill") /\ UNCHANGED <<policies, principals, things, nodeRow, overlapped>>
      /\ reg[i].update /\ reg[i].node \in FleetNode /\ reg[i].cert \in Certificate
  BY JobTypes DEF DeactivateOld, RegistryInv, JobsInOrder, RegAt, Dropping
<1>1. PICK o \in reg[i].old :
         /\ <<reg[i].node, o>> \notin principals
         /\ certSt' = [certSt EXCEPT ![o] = IF @ = "deleted" THEN @ ELSE "inactive"]
         /\ reg' = [reg EXCEPT ![i].old = @ \ {o}, ![i].pc = "drop"]
  BY DEF DeactivateOld
<1>2. /\ OnlyJob(i) /\ SameCall(i) /\ reg'[i].pc = "drop"
      /\ reg'[i].made = reg[i].made /\ reg'[i].old = reg[i].old \ {o}
      /\ reg'[i].carry = reg[i].carry
  <2>1. PICK e : e = [reg[i] EXCEPT !.old = @ \ {o}, !.pc = "drop"]
    OBVIOUS
  <2>2. /\ reg[i] \in RegJob /\ "drop" \in RegPc
        /\ reg[i].old \ {o} \in SUBSET Certificate
    BY JobTypes DEF RegistryInv, RegistryTypeOK, RegPc
  <2>3. /\ e \in RegJob /\ e.pc = "drop" /\ e.made = reg[i].made /\ e.old = reg[i].old \ {o}
        /\ e.update = reg[i].update /\ e.node = reg[i].node /\ e.cert = reg[i].cert
        /\ e.fresh = reg[i].fresh /\ e.bridge = reg[i].bridge /\ e.carry = reg[i].carry
    BY <2>1, <2>2 DEF RegJob
  <2>4. reg' = [reg EXCEPT ![i] = e]
    BY <1>1, <2>1
  <2> QED BY <2>3, <2>4 DEF RegistryInv, RegistryTypeOK, OnlyJob, SameCall
<1>3. /\ CommonName(o) = reg[i].node /\ o # reg[i].cert /\ nodeRow[reg[i].node] # "none"
      /\ o \in Certificate /\ certSt[o] # "none"
  BY <1>0, JobTypes DEF RegistryInv, JobsInOrder
<1>4. /\ certSt' \in [Certificate -> {"none", "active", "inactive", "deleted"}]
      /\ \A c \in Certificate : c # o => certSt'[c] = certSt[c]
      /\ certSt'[o] \in {"inactive", "deleted"}
  BY <1>1, <1>3 DEF RegistryInv, RegistryTypeOK
<1>5. ASSUME NEW j \in RegCall
      PROVE  /\ reg'[j].update = reg[j].update /\ reg'[j].node = reg[j].node
             /\ reg'[j].cert = reg[j].cert /\ reg'[j].made = reg[j].made
             /\ reg'[j].fresh = reg[j].fresh /\ reg'[j].bridge = reg[j].bridge
             /\ reg'[j].carry = reg[j].carry
             /\ reg'[j].old \subseteq reg[j].old
             /\ reg'[j].pc = (IF j = i THEN "drop" ELSE reg[j].pc)
             /\ reg[j].cert \in Certificate /\ reg[j].node \in FleetNode
             /\ reg[j].old \subseteq Certificate
  BY <1>2, JobTypes DEF RegistryInv, OnlyJob, SameCall
<1>6. RegistryTypeOK'
  BY <1>0, <1>2, <1>4 DEF RegistryInv, RegistryTypeOK, OnlyJob
<1>7. OwnCerts'
  <2>1. \A j \in RegCall : RegAt(j, "idle")' <=> RegAt(j, "idle")
    BY <1>0, <1>5 DEF RegAt
  <2>2. \A c \in Certificate : certSt[c] # "none" => certSt'[c] # "none"
    BY <1>4
  <2> QED BY <1>0, <1>5, <2>1, <2>2 DEF RegistryInv, OwnCerts
<1>8. JobsInOrder'
  BY <1>0, <1>4, <1>5 DEF RegistryInv, JobsInOrder, RegAt, Dropping
<1>9. ASSUME NEW n \in FleetNode, NEW c \in Certificate
      PROVE  Live(n, c)' <=> Live(n, c) /\ c # o
  BY <1>0, <1>4 DEF Live
<1>10. ASSUME NEW n \in FleetNode, NEW c \in Certificate, Live(n, c), n # reg[i].node
       PROVE  Live(n, c)'
  BY <1>3, <1>9, <1>10 DEF RegistryInv, OwnCerts, Live
<1>11. CertTaken'
  <2>1. TakenBy(i)'
    BY <1>2 DEF TakenBy, RegAt
  <2>2. ASSUME NEW j \in RegCall, j # i
        PROVE  TakenBy(j)'
    <3>1. TakenBy(j) /\ RegAt(j, "cert")' = RegAt(j, "cert") /\ RegAt(j, "row")' = RegAt(j, "row")
          /\ RegAt(j, "policy")' = RegAt(j, "policy") /\ reg'[j].pc = reg[j].pc
      BY <1>5, <2>2 DEF RegistryInv, CertTaken, RegAt
    <3>2. ASSUME reg[j].pc \in {"cert", "thing", "attach"}
          PROVE  reg[j].cert # o
      <4>1. reg[j].fresh
        BY <1>0, <2>2, <3>2 DEF RegistryInv, OwnCerts, RegAt
      <4> QED BY <3>1, <3>2, <4>1 DEF TakenBy
    <3>3. /\ RegAt(j, "cert")' => certSt'[reg'[j].cert] \in
               (IF reg'[j].fresh THEN {"none"} ELSE {"active", "deleted"})
          /\ reg'[j].pc \in {"thing", "attach"} => certSt'[reg'[j].cert] = "active"
      BY <1>4, <1>5, <3>1, <3>2 DEF TakenBy, RegAt
    <3>4. reg'[j].fresh /\ reg'[j].pc \in {"cert", "thing", "attach"} =>
             /\ <<reg'[j].node, reg'[j].cert>> \notin principals'
             /\ \A k \in RegCall : reg'[j].cert \notin reg'[k].old
      BY <1>0, <1>5, <3>1 DEF TakenBy
    <3>5. ASSUME nodeRow[reg[j].node] = "none", Live(reg[j].node, reg[j].cert)
          PROVE  Live(reg[j].node, reg[j].cert)'
      <4>1. PICK home \in FleetNode, own \in Certificate : home = reg[j].node /\ own = reg[j].cert
        BY <1>5
      <4>2. Live(home, own)'
        BY <1>3, <1>10, <3>5, <4>1
      <4> QED BY <1>5, <4>1, <4>2 DEF Live
    <3>6. /\ RegAt(j, "policy")' /\ nodeRow'[reg'[j].node] = "none" =>
                Live(reg[j].node, reg[j].cert)'
          /\ RegAt(j, "row")' =>
                /\ "base" \in policies'[reg'[j].cert]
                /\ reg'[j].bridge => "bridge" \in policies'[reg'[j].cert]
                /\ nodeRow'[reg'[j].node] = "none" => Live(reg[j].node, reg[j].cert)'
      BY <1>0, <1>5, <3>1, <3>5 DEF TakenBy
    <3> QED BY <3>3, <3>4, <3>6 DEF TakenBy
  <2> QED BY <2>1, <2>2 DEF CertTaken
<1>12. Ordered'
  <2> SUFFICES ASSUME NEW j \in RegCall, NEW k \in RegCall,
                      reg'[j].update, reg'[j].cert \in reg'[k].old
               PROVE  /\ reg'[k].cert \notin reg'[j].old
                      /\ \A d \in reg'[j].old :
                            <<reg'[j].node, d>> \in principals' /\ certSt'[d] = "active" => d \in reg'[k].old
    BY DEF Ordered, Live
  <2>1. reg[j].update /\ reg[j].cert \in reg[k].old
    BY <1>5
  <2>2. ASSUME NEW d \in reg'[j].old, <<reg'[j].node, d>> \in principals', certSt'[d] = "active"
        PROVE  d \in reg'[k].old
    <3>1. d \in reg[j].old /\ d \in Certificate /\ d # o
      BY <1>4, <1>5, <2>2
    <3>2. Live(reg[j].node, d)
      BY <1>0, <1>4, <1>5, <2>2, <3>1 DEF Live
    <3>3. d \in reg[k].old
      BY <2>1, <3>1, <3>2 DEF RegistryInv, Ordered
    <3> QED BY <1>2, <3>1, <3>3 DEF OnlyJob
  <2> QED BY <1>5, <2>1, <2>2 DEF RegistryInv, Ordered
<1>13. ASSUME NEW n \in FleetNode, NEW c \in Certificate, Keeps(n, c)
       PROVE  Keeps(n, c)'
  <2>1. c \notin reg[i].old
    BY <1>0, <1>13 DEF Keeps, Replaces, Dropping, RegAt
  <2>2. ASSUME NEW j \in RegCall, c \in reg'[j].old
        PROVE  Replaces(j)'
    <3>1. Replaces(j) /\ j # i /\ reg'[j] = reg[j]
      BY <1>2, <1>5, <1>13, <2>1, <2>2 DEF Keeps, OnlyJob
    <3>2. PICK home \in FleetNode, own \in Certificate : home = reg[j].node /\ own = reg[j].cert
      BY <1>5
    <3>3. own # o
      BY <1>0, <3>1, <3>2 DEF Replaces, Dropping, RegAt
    <3>4. Live(home, own) => Live(home, own)'
      BY <1>9, <3>3
    <3>5. \A k \in RegCall : Dropping(k)' => Dropping(k)
      BY <1>0, <1>5 DEF Dropping, RegAt
    <3> QED BY <1>5, <3>1, <3>2, <3>4, <3>5 DEF Replaces, Dropping, RegAt, Live
  <2>3. Live(n, c)'
    BY <1>9, <1>13, <2>1 DEF Keeps
  <2>4. \A j \in RegCall : MayUndo(j)' => MayUndo(j)
    BY <1>0, <1>5 DEF MayUndo, RegAt
  <2> QED BY <1>0, <1>5, <1>13, <2>2, <2>3, <2>4 DEF Keeps
<1>14. Connects'
  BY <1>0, <1>13 DEF RegistryInv, Connects
<1>15. ASSUME NEW n \in FleetNode, NEW c \in Certificate, KeepsBridge(n, c)
       PROVE  KeepsBridge(n, c)'
  <2>1. c \notin reg[i].old
    BY <1>0, <1>15 DEF KeepsBridge, Dropping, RegAt
  <2>2. Live(n, c)'
    BY <1>9, <1>15, <2>1 DEF KeepsBridge
  <2>3. \A j \in RegCall : /\ MayUndo(j)' => MayUndo(j)
                           /\ Dropping(j)' => Dropping(j)
    BY <1>0, <1>5 DEF MayUndo, Dropping, RegAt
  <2> QED BY <1>0, <1>5, <1>15, <2>1, <2>2, <2>3 DEF KeepsBridge
<1>16. AloneUpdates'
  <2> SUFFICES ASSUME ~overlapped PROVE AloneUpdates'
    BY <1>0 DEF AloneUpdates
  <2>1. ASSUME NEW n \in FleetNode, nodeRow[n] = "bridge"
        PROVE  \E c \in Certificate : KeepsBridge(n, c)'
    BY <1>15, <2>1 DEF RegistryInv, AloneUpdates
  <2>2. ASSUME NEW j \in RegCall, reg'[j].update
        PROVE  j = i
    <3>1. ~RegAt(i, "idle") /\ ~RegAt(j, "idle")
      BY <1>0, <1>5, <2>2 DEF RegistryInv, JobsInOrder, RegAt
    <3> QED BY <3>1 DEF RegistryInv, OwnCerts
  <2>3. PICK home \in FleetNode, own \in Certificate : home = reg[i].node /\ own = reg[i].cert
    BY <1>0
  <2>4. /\ \A c \in Certificate : Live(home, c)' => c \in reg'[i].old \union {own}
        /\ Live(home, own)'
        /\ reg[i].bridge => "bridge" \in policies[own]
    BY <1>0, <1>2, <1>3, <1>9, <2>3 DEF RegistryInv, AloneUpdates, Dropping, RegAt
  <2> QED BY <1>0, <1>5, <2>1, <2>2, <2>3, <2>4 DEF AloneUpdates, Live
<1> QED BY <1>6, <1>7, <1>8, <1>11, <1>12, <1>14, <1>16 DEF RegistryInv

\* An update that is over may make its node a bridge.
LEMMA SetNodeTypeKeeps ==
    ASSUME RegistryInv, NEW i \in RegCall, SetNodeType(i)
    PROVE  RegistryInv'
<1>0. /\ RegAt(i, "drop") /\ UNCHANGED <<certSt, policies, principals, things, overlapped>>
      /\ reg[i].update /\ reg[i].node \in FleetNode /\ reg[i].cert \in Certificate
  BY JobTypes DEF SetNodeType, RegistryInv, JobsInOrder, RegAt, Dropping
<1>1. /\ OnlyJob(i) /\ reg'[i].pc = "idle" /\ ~reg'[i].update
      /\ reg'[i].old = {} /\ reg'[i].made = {}
  BY DoneFields DEF SetNodeType, RegistryInv
<1>2. /\ nodeRow' \in [FleetNode -> {"none", "plain", "bridge"}]
      /\ nodeRow[reg[i].node] # "none"
      /\ \A n \in FleetNode : nodeRow'[n] = "none" <=> nodeRow[n] = "none"
      /\ \A n \in FleetNode : nodeRow'[n] = "bridge" =>
            nodeRow[n] = "bridge" \/ (n = reg[i].node /\ reg[i].bridge)
  BY <1>0 DEF RegistryInv, RegistryTypeOK, JobsInOrder, SetNodeType
<1>3. RegistryTypeOK'
  BY <1>0, <1>1, <1>2 DEF RegistryInv, RegistryTypeOK, OnlyJob
<1>4. OwnCerts'
  BY <1>0, <1>1 DEF RegistryInv, OwnCerts, OnlyJob, RegAt
<1>5. JobsInOrder'
  BY <1>0, <1>1, <1>2, JobTypes DEF RegistryInv, JobsInOrder, OnlyJob, RegAt, Dropping
<1>6. CertTaken'
  BY <1>0, <1>1, <1>2, JobTypes
     DEF RegistryInv, CertTaken, TakenBy, OnlyJob, RegAt, Live
<1>7. Ordered'
  BY <1>0, <1>1 DEF RegistryInv, Ordered, OnlyJob, Live
<1>8. ASSUME NEW n \in FleetNode, NEW c \in Certificate, Keeps(n, c)
      PROVE  Keeps(n, c)'
  BY <1>0, <1>1, <1>8 DEF Keeps, Replaces, MayUndo, Dropping, OnlyJob, RegAt, Live
<1>9. Connects'
  BY <1>2, <1>8 DEF RegistryInv, Connects
<1>10. ASSUME NEW n \in FleetNode, NEW c \in Certificate, KeepsBridge(n, c)
       PROVE  KeepsBridge(n, c)'
  BY <1>0, <1>1, <1>10 DEF KeepsBridge, MayUndo, Dropping, OnlyJob, RegAt, Live
<1>11. AloneUpdates'
  <2> SUFFICES ASSUME ~overlapped PROVE AloneUpdates'
    BY <1>0 DEF AloneUpdates
  <2>1. ASSUME NEW j \in RegCall
        PROVE  ~reg'[j].update /\ reg'[j].old = {} /\ ~MayUndo(j)'
    <3>1. j # i => RegAt(j, "idle") /\ reg'[j] = reg[j]
      BY <1>0, <1>1 DEF RegistryInv, OwnCerts, OnlyJob, RegAt
    <3> QED BY <1>1, <3>1 DEF RegistryInv, JobsInOrder, MayUndo, RegAt
  <2>2. PICK home \in FleetNode, own \in Certificate : home = reg[i].node /\ own = reg[i].cert
    BY <1>0
  <2>3. reg[i].bridge => KeepsBridge(home, own)'
    BY <1>0, <2>1, <2>2
       DEF RegistryInv, AloneUpdates, KeepsBridge, Dropping, RegAt, Live
  <2>4. ASSUME NEW n \in FleetNode, nodeRow'[n] = "bridge"
        PROVE  \E c \in Certificate : KeepsBridge(n, c)'
    BY <1>2, <1>10, <2>2, <2>3, <2>4 DEF RegistryInv, AloneUpdates
  <2> QED BY <2>1, <2>4 DEF AloneUpdates
<1> QED BY <1>3, <1>4, <1>5, <1>6, <1>7, <1>9, <1>11 DEF RegistryInv

---------------------------------------------------------------------------

\* Every step keeps the invariant.
LEMMA RegistryStepKeeps ==
    ASSUME AnyCert = FALSE, RegistryInv, [RegistryNext]_registryVars
    PROVE  RegistryInv'
<1>1. CASE UNCHANGED registryVars
  <2>1. UNCHANGED <<certSt, policies, principals, things, nodeRow, reg, overlapped>>
    BY <1>1 DEF registryVars
  <2>2. RegistryTypeOK' /\ OwnCerts' /\ JobsInOrder'
    BY <2>1 DEF RegistryInv, RegistryTypeOK, OwnCerts, JobsInOrder, Dropping, RegAt
  <2>3. CertTaken' /\ Ordered'
    BY <2>1 DEF RegistryInv, CertTaken, TakenBy, Ordered, Live, RegAt
  <2>4. Connects'
    <3>1. ASSUME NEW n \in FleetNode, NEW c \in Certificate, Keeps(n, c)
          PROVE  Keeps(n, c)'
      BY <2>1, <3>1 DEF Keeps, Replaces, MayUndo, Dropping, Live, RegAt
    <3>2. nodeRow' = nodeRow
      BY <2>1
    <3> QED BY <3>1, <3>2 DEF RegistryInv, Connects
  <2>5. AloneUpdates'
    BY <2>1 DEF RegistryInv, AloneUpdates, KeepsBridge, MayUndo, Dropping, Live, RegAt
  <2> QED BY <2>2, <2>3, <2>4, <2>5 DEF RegistryInv
<1>2. ASSUME NEW i \in RegCall, RegistryStep(i)
      PROVE  RegistryInv'
  <2>1. CASE RegisterCert(i) \/ CreateFleetThing(i) \/ AttachCertificateToThing(i)
    BY <2>1, RegisterCertKeeps, CreateThingKeeps, AttachKeeps
  <2>2. CASE AttachPolicies(i) \/ AddNodeRow(i)
    BY <2>2, AttachPoliciesKeeps, AddRowKeeps
  <2>3. CASE DetachOld(i) \/ DeactivateOld(i) \/ SetNodeType(i)
    BY <2>3, DetachOldKeeps, DeactivateOldKeeps, SetNodeTypeKeeps
  <2>4. CASE DeleteThing(i) \/ DetachThingPrincipal(i) \/ DeleteCertificate(i)
             \/ RegCallFails(i) \/ RegCallDies(i)
    BY <2>4, RollbackKeeps
  <2> QED BY <1>2, <2>1, <2>2, <2>3, <2>4 DEF RegistryStep
<1>3. ASSUME NEW i \in RegCall, NEW c \in Certificate, NEW b \in BOOLEAN,
             Submitted(CommonName(c), c), RegisterNode(i, c, b)
      PROVE  RegistryInv'
  BY <1>3, RegisterNodeKeeps
<1>4. ASSUME NEW i \in RegCall, NEW n \in FleetNode, NEW c \in Certificate, NEW b \in BOOLEAN,
             Submitted(n, c), UpdateNode(i, n, c, b)
      PROVE  RegistryInv'
  BY <1>4, UpdateNodeKeeps
<1> QED BY <1>1, <1>2, <1>3, <1>4 DEF RegistryNext

\* The invariant holds of every reachable state.
LEMMA RegistryInvariance ==
    ASSUME AnyCert = FALSE
    PROVE  RegistrySpec => []RegistryInv
<1>1. RegistryInit => RegistryInv
  BY RegistryStart
<1>2. RegistryInv /\ [RegistryNext]_registryVars => RegistryInv'
  BY RegistryStepKeeps
<1> QED BY <1>1, <1>2, PTL DEF RegistrySpec

\* A registered node can connect, whatever registrations and updates of it run
\* at once, fail, die or are undone; a bridge may also speak for its children
\* as long as calls did not overlap.  Callers submit certificates of the node
\* they name, each new one once.
THEOREM RegisteredNodesConnect ==
    ASSUME AnyCert = FALSE
    PROVE  RegistrySpec => []RegisteredCanConnect
<1>1. RegistryInv => RegisteredCanConnect
  <2> SUFFICES ASSUME RegistryInv, NEW n \in FleetNode
               PROVE  /\ nodeRow[n] # "none" => \E c \in LiveCerts(n) : "base" \in policies[c]
                      /\ nodeRow[n] = "bridge" /\ ~overlapped =>
                            \E c \in LiveCerts(n) : "bridge" \in policies[c]
    BY DEF RegisteredCanConnect
  <2>1. \A c \in Certificate : Live(n, c) => c \in LiveCerts(n)
    BY DEF Live, LiveCerts
  <2> QED BY <2>1 DEF RegistryInv, Connects, Keeps, AloneUpdates, KeepsBridge
<1> QED BY <1>1, RegistryInvariance, PTL

\* An update that ran alone and ends well leaves its certificate as the only one
\* its node can use, whatever failed before it (replaceNodeCert).
THEOREM UpdatesLeaveOne ==
    ASSUME AnyCert = FALSE
    PROVE  RegistrySpec => UpdateLeavesOne
<1>1. RegistryInv /\ [RegistryNext]_registryVars =>
         [\A i \in RegCall :
             UpdateEnds(i) /\ SetNodeType(i) /\ ~overlapped =>
                LiveCerts(reg[i].node) = {reg[i].cert}]_registryVars
  <2> SUFFICES ASSUME RegistryInv, NEW i \in RegCall, UpdateEnds(i), ~overlapped
               PROVE  LiveCerts(reg[i].node) = {reg[i].cert}
    OBVIOUS
  <2> QED BY JobTypes
     DEF RegistryInv, AloneUpdates, UpdateEnds, Dropping, RegAt, LiveCerts, Live
<1> QED BY <1>1, RegistryInvariance, PTL DEF UpdateLeavesOne, RegistrySpec

---------------------------------------------------------------------------
(* The registry: types, whatever callers submit *)

\* A call begins with a job of its type.
LEMMA CallsBegin ==
    ASSUME RegistryTypeOK, NEW i \in RegCall, NEW c \in Certificate, NEW b \in BOOLEAN,
           RegisterNode(i, c, b) \/ \E n \in FleetNode : UpdateNode(i, n, c, b)
    PROVE  RegistryTypeOK'
<1>0. UNCHANGED <<certSt, policies, principals, things, nodeRow>>
      /\ overlapped' = (overlapped \/ Busy # {})
  BY DEF RegisterNode, UpdateNode
<1>1. CASE RegisterNode(i, c, b)
  <2>1. PICK e : e = [IdleRegJob EXCEPT !.pc = "cert", !.node = CommonName(c), !.cert = c,
                        !.fresh = certSt[c] = "none", !.bridge = b]
    OBVIOUS
  <2>2. e \in RegJob
    BY <2>1, NodeOfCert, IdleRegType DEF RegJob, RegPc
  <2>3. reg' = [reg EXCEPT ![i] = e]
    BY <1>1, <2>1 DEF RegisterNode
  <2> QED BY <1>0, <2>2, <2>3 DEF RegistryTypeOK
<1>2. ASSUME NEW n \in FleetNode, UpdateNode(i, n, c, b)
      PROVE  RegistryTypeOK'
  <2> DEFINE others == LiveCerts(n) \ {c}
             carry == UNION {policies[o] : o \in others}
  <2>1. PICK e : e = [pc |-> "cert", update |-> TRUE, node |-> n, cert |-> c,
                      fresh |-> certSt[c] = "none", bridge |-> b, made |-> {}, old |-> others,
                      carry |-> carry]
    OBVIOUS
  <2>2. others \subseteq Certificate /\ carry \subseteq Policies
    BY DEF LiveCerts, RegistryTypeOK
  <2>3. reg' = [reg EXCEPT ![i] = e]
    BY <1>2, <2>1 DEF UpdateNode
  <2> HIDE DEF others, carry
  <2>4. e \in RegJob
    BY <2>1, <2>2 DEF RegJob, RegPc
  <2> QED BY <1>0, <2>3, <2>4 DEF RegistryTypeOK
<1> QED BY <1>1, <1>2

\* A call that changes its job alone keeps it of its type.
LEMMA CallsGoOn ==
    ASSUME RegistryTypeOK, NEW i \in RegCall
    PROVE  /\ \A pc \in RegPc : RegGoto(i, pc) => reg' \in [RegCall -> RegJob]
           /\ RegDone(i) => reg' \in [RegCall -> RegJob]
           /\ \A e \in RegJob : reg' = [reg EXCEPT ![i] = e] => reg' \in [RegCall -> RegJob]
           /\ reg[i] \in RegJob
<1>1. ASSUME NEW e \in RegJob, reg' = [reg EXCEPT ![i] = e]
      PROVE  reg' \in [RegCall -> RegJob]
  BY <1>1 DEF RegistryTypeOK
<1>2. reg[i] \in RegJob
  BY DEF RegistryTypeOK
<1> QED BY <1>1, <1>2, GotoFields, DoneFields DEF OnlyJob

\* A step of a call keeps the types.
LEMMA CallsStep ==
    ASSUME RegistryTypeOK, NEW i \in RegCall, RegistryStep(i)
    PROVE  RegistryTypeOK'
<1> DEFINE j == reg[i]
<1>0. j \in RegJob
  BY CallsGoOn
<1>1. CASE RegisterCert(i) \/ CreateFleetThing(i)
  <2>1. /\ j.made \in SUBSET {"cert", "thing"} /\ j.cert \in Certificate
        /\ j.node \in FleetNode
    BY <1>0 DEF RegJob
  <2>2. CASE RegisterCert(i)
    <3> DEFINE to == IF j.update THEN "attach" ELSE "thing"
               made == j.made \union {"cert"}
    <3>1. PICK e : e = [j EXCEPT !.made = made, !.pc = to]
      OBVIOUS
    <3>2. to \in RegPc /\ made \in SUBSET {"cert", "thing"}
      BY <2>1 DEF RegPc
    <3>3. \/ RegGoto(i, to) /\ certSt' = certSt
          \/ /\ reg' = [reg EXCEPT ![i] = e]
             /\ certSt' = [certSt EXCEPT ![j.cert] = "active"]
      BY <2>2, <3>1 DEF RegisterCert
    <3> HIDE DEF to, made
    <3>4. e \in RegJob
      BY <1>0, <3>1, <3>2 DEF RegJob
    <3>5. reg' \in [RegCall -> RegJob]
      BY <3>2, <3>3, <3>4, CallsGoOn
    <3> QED BY <2>1, <2>2, <3>3, <3>5 DEF RegisterCert, RegistryTypeOK
  <2>3. CASE CreateFleetThing(i)
    <3> DEFINE made == IF j.node \in things THEN j.made ELSE j.made \union {"thing"}
    <3>1. PICK e : e = [j EXCEPT !.pc = "attach", !.made = made]
      OBVIOUS
    <3>2. made \in SUBSET {"cert", "thing"}
      BY <2>1
    <3>3. reg' = [reg EXCEPT ![i] = e]
      BY <2>3, <3>1 DEF CreateFleetThing
    <3> HIDE DEF made
    <3>4. e \in RegJob
      BY <1>0, <3>1, <3>2 DEF RegJob, RegPc
    <3>5. reg' \in [RegCall -> RegJob]
      BY <3>3, <3>4, CallsGoOn
    <3> QED BY <2>1, <2>3, <3>5 DEF CreateFleetThing, RegistryTypeOK
  <2> QED BY <1>1, <2>2, <2>3
<1>2. CASE AttachCertificateToThing(i)
  BY <1>0, <1>2, CallsGoOn DEF AttachCertificateToThing, RegistryTypeOK, RegPc, RegJob
<1>3. CASE AttachPolicies(i)
  <2>1. j.carry \subseteq Policies /\ j.cert \in Certificate
    BY <1>0 DEF RegJob
  <2>2. policies' \in [Certificate -> SUBSET Policies]
    BY <1>3, <2>1 DEF AttachPolicies, RegistryTypeOK, Policies
  <2>3. reg' \in [RegCall -> RegJob]
    BY <1>3, CallsGoOn DEF AttachPolicies, RegPc
  <2> QED BY <1>3, <2>2, <2>3 DEF AttachPolicies, RegistryTypeOK
<1>4. CASE AddNodeRow(i) \/ SetNodeType(i)
  <2>1. nodeRow' \in [FleetNode -> {"none", "plain", "bridge"}]
    BY <1>4 DEF AddNodeRow, SetNodeType, RegistryTypeOK
  <2>2. reg' \in [RegCall -> RegJob]
    BY <1>4, CallsGoOn DEF AddNodeRow, SetNodeType
  <2> QED BY <1>4, <2>1, <2>2 DEF AddNodeRow, SetNodeType, RegistryTypeOK
<1>5. CASE DeleteThing(i) \/ DetachThingPrincipal(i)
  BY <1>5, CallsGoOn DEF DeleteThing, DetachThingPrincipal, RegistryTypeOK, RegPc
<1>6. CASE DeleteCertificate(i)
  <2>1. certSt' \in [Certificate -> {"none", "active", "inactive", "deleted"}]
    BY <1>6 DEF DeleteCertificate, RegistryTypeOK
  <2> QED BY <1>6, <2>1, CallsGoOn DEF DeleteCertificate, RegistryTypeOK
<1>7. CASE RegCallFails(i) \/ RegCallDies(i)
  <2>1. reg' \in [RegCall -> RegJob]
    BY <1>7, CallsGoOn DEF RegCallFails, RegCallDies, RegPc
  <2>2. policies' \in [Certificate -> SUBSET Policies]
    BY <1>7 DEF RegCallFails, RegCallDies, RegistryTypeOK, Policies
  <2> QED BY <1>7, <2>1, <2>2 DEF RegCallFails, RegCallDies, RegistryTypeOK
<1>8. CASE DetachOld(i)
  <2>1. PICK e : e = [j EXCEPT !.pc = "kill", !.carry = {}]
    OBVIOUS
  <2>2. e \in RegJob
    BY <1>0, <2>1 DEF RegJob, RegPc
  <2>3. reg' = [reg EXCEPT ![i] = e]
    BY <1>8, <2>1 DEF DetachOld
  <2>4. principals' \subseteq principals
    BY <1>8 DEF DetachOld
  <2>5. reg' \in [RegCall -> RegJob]
    BY <2>2, <2>3, CallsGoOn
  <2> QED BY <1>8, <2>4, <2>5 DEF DetachOld, RegistryTypeOK
<1>9. CASE DeactivateOld(i)
  <2>1. PICK o \in j.old :
          /\ certSt' = [certSt EXCEPT ![o] = IF @ = "deleted" THEN @ ELSE "inactive"]
          /\ reg' = [reg EXCEPT ![i].old = @ \ {o}, ![i].pc = "drop"]
    BY <1>9 DEF DeactivateOld
  <2>2. j.old \ {o} \in SUBSET Certificate
    BY <1>0 DEF RegJob
  <2>3. reg' \in [RegCall -> RegJob]
    <3>1. PICK e : e = [j EXCEPT !.old = @ \ {o}, !.pc = "drop"]
      OBVIOUS
    <3>2. e \in RegJob
      BY <1>0, <2>2, <3>1 DEF RegJob, RegPc
    <3>3. reg' = [reg EXCEPT ![i] = e]
      BY <2>1, <3>1
    <3> QED BY <3>2, <3>3, CallsGoOn
  <2> QED BY <1>9, <2>1, <2>3 DEF DeactivateOld, RegistryTypeOK
<1> QED BY <1>1, <1>2, <1>3, <1>4, <1>5, <1>6, <1>7, <1>8, <1>9 DEF RegistryStep

\* Every step keeps the types.
LEMMA RegistryTyped ==
    ASSUME RegistryTypeOK, [RegistryNext]_registryVars
    PROVE  RegistryTypeOK'
<1>1. CASE UNCHANGED registryVars
  BY <1>1 DEF registryVars, RegistryTypeOK
<1> QED BY <1>1, CallsBegin, CallsStep DEF RegistryNext

---------------------------------------------------------------------------
(* NodeAssociation *)

\* Node n may be put in group g on request q.
AddProven(n, g, q) ==
    IF n \in ANode THEN <<n, q>> \in answers
    ELSE n = NodeIdOf(q) /\ g \in MatterGroup

\* What a row of request q says of its node; a row made anew names no group.
RowProven(e, q) ==
    \/ e.node = NoANode
    \/ e.group = NoAGroup /\ Attested(e.node, q)
    \/ AddProven(e.node, e.group, q)

\* What the invocations and the rows hold was proved.
ProofInv ==
    /\ \A q \in AReq : RowProven(areq[q], q) /\ RowProven(staleAreq[q], q)
    /\ \A i \in AInvocation :
          assoc[i].pc \in {"mint", "status", "delete", "add"} =>
              AddProven(assoc[i].node, assoc[i].row.group, assoc[i].req)

\* Whatever names a group for a request names the one it was initiated with.
GroupInv ==
    /\ \A q \in AReq :
          /\ staleAreq[q].group \in AGroup =>
                 areq[q].group \in {staleAreq[q].group, NoAGroup}
          /\ q \notin spent /\ areq[q].group = NoAGroup =>
                 /\ staleAreq[q].group = NoAGroup
                 /\ \A i \in AInvocation : ~AssocAt(i, "idle") => assoc[i].req # q
    /\ \A i \in AInvocation : ~AssocAt(i, "idle") =>
          /\ assoc[i].row.group \in AGroup
          /\ areq[assoc[i].req].group \in {assoc[i].row.group, NoAGroup}

AssocInv == AssocTypeOK /\ ProofInv /\ GroupInv /\ AddedWithProof

---------------------------------------------------------------------------
(* The types *)

\* A new row, an upserted one and what an invocation starts with are typed.
LEMMA EntryTypes ==
    /\ NoEntry \in AssocRequestEntry
    /\ \A u \in AUser, g \in AGroup :
          [status |-> "pending", user |-> u, group |-> g, node |-> NoANode,
           fresh |-> TRUE] \in AssocRequestEntry
    /\ \A e \in AssocRequestEntry, n \in NodeIds :
          [e EXCEPT !.status = "verified", !.node = n, !.fresh = TRUE]
              \in AssocRequestEntry
    /\ \A e \in AssocRequestEntry : [e EXCEPT !.fresh = FALSE] \in AssocRequestEntry
BY DEF NoEntry, AssocRequestEntry, NodeIds

\* A put keeps the types of the rows and what a lagging read returns.
LEMMA PutTypes ==
    ASSUME AssocTypeOK, NEW q \in AReq, NEW e \in AssocRequestEntry, PutAssoc(q, e)
    PROVE  /\ areq' \in [AReq -> AssocRequestEntry]
           /\ staleAreq' \in [AReq -> AssocRequestEntry]
           /\ areq'[q] = e
           /\ staleAreq'[q] \in {e, staleAreq[q]}
           /\ \A p \in AReq \ {q} : areq'[p] = areq[p] /\ staleAreq'[p] = staleAreq[p]
BY DEF AssocTypeOK, PutAssoc

\* The idle invocation is typed.
LEMMA NoJobType == NoAssocJob \in AssocJob
BY EntryTypes, AssociationConstants DEF NoAssocJob, AssocJob, NodeIds

\* The initial state has its types.
LEMMA AssocInitType == ASSUME AssocInit PROVE AssocTypeOK
BY EntryTypes, NoJobType DEF AssocInit, AssocTypeOK

---------------------------------------------------------------------------
(* One lemma per kind of step *)

\* What a step that touches neither the rows nor the invocations must keep.
AssocSame == areq' = areq /\ staleAreq' = staleAreq /\ assoc' = assoc

\* An invocation starts with a row a read may return: it holds a proved node,
\* or burns, and the group of its request.
LEMMA StartStep ==
    ASSUME AssocInv, NEW i \in AInvocation, AssocAt(i, "idle"),
           NEW u \in AUser, NEW g \in AGroup, NEW q \in AReq,
           NEW e \in GetAssocRequestByID(q), NEW n \in NodeIds,
           NEW pc \in {"burn", "mint", "delete"}, AssocStart(i, u, q, e, n, pc),
           e.group = g, pc # "burn" => AddProven(n, g, q),
           UNCHANGED <<areq, staleAreq, editor, answers, noc, added, spent>>
    PROVE  AssocInv'
<1>1. AssocTypeOK /\ e \in AssocRequestEntry
  BY DEF AssocInv, AssocTypeOK, GetAssocRequestByID
<1>2. /\ assoc' \in [AInvocation -> AssocJob]
      /\ assoc'[i] = [pc |-> pc, user |-> u, req |-> q, row |-> e, node |-> n]
      /\ \A j \in AInvocation \ {i} : assoc'[j] = assoc[j]
  <2>1. [pc |-> pc, user |-> u, req |-> q, row |-> e, node |-> n] \in AssocJob
    BY <1>1 DEF AssocJob
  <2> QED BY <1>1, <2>1 DEF AssocTypeOK, AssocStart
<1>3. AssocTypeOK'
  BY <1>2 DEF AssocInv, AssocTypeOK
<1>4. ProofInv'
  BY <1>2 DEF AssocInv, ProofInv, AddProven, RowProven, Attested
<1>5. areq[q].group \in {g, NoAGroup}
  BY DEF AssocInv, GroupInv, GetAssocRequestByID
<1>6. areq[q].group = NoAGroup => q \in spent
  BY AssociationConstants DEF AssocInv, GroupInv, GetAssocRequestByID
<1>7. GroupInv'
  BY <1>2, <1>5, <1>6 DEF AssocInv, GroupInv, AssocAt
<1>8. AddedWithProof'
  BY DEF AssocInv, AddedWithProof
<1> QED BY <1>3, <1>4, <1>7, <1>8 DEF AssocInv

\* An invocation that ends holds nothing to prove.
LEMMA EndStep ==
    ASSUME AssocInv, NEW i \in AInvocation, AssocDone(i),
           UNCHANGED <<areq, staleAreq, editor, answers, noc, added, spent>>
    PROVE  AssocInv'
<1>1. /\ assoc' \in [AInvocation -> AssocJob]
      /\ assoc'[i].pc = "idle"
      /\ \A j \in AInvocation \ {i} : assoc'[j] = assoc[j]
  BY NoJobType DEF AssocInv, AssocTypeOK, AssocDone, NoAssocJob
<1>2. AssocTypeOK' /\ AddedWithProof'
  BY <1>1 DEF AssocInv, AssocTypeOK, AddedWithProof
<1>3. ProofInv'
  BY <1>1 DEF AssocInv, ProofInv, AddProven, RowProven, Attested
<1>4. GroupInv'
  BY <1>1 DEF AssocInv, GroupInv, AssocAt
<1> QED BY <1>2, <1>3, <1>4 DEF AssocInv

\* A row is deleted: its request is spent, and what the invocation holds stays.
LEMMA DeleteStep ==
    ASSUME AssocInv, NEW i \in AInvocation, assoc[i].pc \in {"burn", "delete"},
           PutAssoc(assoc[i].req, NoEntry), spent' = spent \union {assoc[i].req},
           IF AssocAt(i, "burn") THEN AssocDone(i) ELSE AssocGoto(i, "add"),
           UNCHANGED <<editor, answers, noc, added>>
    PROVE  AssocInv'
<1> DEFINE q == assoc[i].req
<1>1. AssocTypeOK /\ q \in AReq /\ NoEntry \in AssocRequestEntry
  BY EntryTypes DEF AssocInv, AssocTypeOK, AssocJob
<1>2. /\ areq' \in [AReq -> AssocRequestEntry]
      /\ staleAreq' \in [AReq -> AssocRequestEntry]
      /\ areq'[q] = NoEntry
      /\ staleAreq'[q] \in {NoEntry, staleAreq[q]}
      /\ \A p \in AReq \ {q} : areq'[p] = areq[p] /\ staleAreq'[p] = staleAreq[p]
  BY <1>1, PutTypes
<1>3. /\ assoc' \in [AInvocation -> AssocJob]
      /\ \A j \in AInvocation \ {i} : assoc'[j] = assoc[j]
      /\ assoc'[i].pc \in {"idle", "add"}
      /\ assoc'[i].pc = "add" => /\ assoc[i].pc = "delete"
                                 /\ assoc'[i].node = assoc[i].node
                                 /\ assoc'[i].row = assoc[i].row
                                 /\ assoc'[i].req = q
  <2>1. CASE AssocAt(i, "burn")
    <3>1. NoAssocJob.pc = "idle"
      BY DEF NoAssocJob
    <3> QED BY <2>1, <3>1, <1>1, NoJobType DEF AssocTypeOK, AssocDone
  <2>2. CASE ~AssocAt(i, "burn")
    BY <2>2, <1>1 DEF AssocTypeOK, AssocGoto, AssocAt, AssocJob
  <2> QED BY <2>1, <2>2
<1>4. /\ NoEntry.node = NoANode /\ NoEntry.group = NoAGroup
      /\ NoAGroup \notin AGroup
  BY AssociationConstants DEF NoEntry
<1> HIDE DEF q
<1>5. AssocTypeOK'
  BY <1>1, <1>2, <1>3 DEF AssocInv, AssocTypeOK, q
<1>6. ProofInv'
  <2>1. ASSUME NEW p \in AReq
        PROVE  RowProven(areq[p], p)' /\ RowProven(staleAreq[p], p)'
    BY <1>1, <1>2, <1>4 DEF AssocInv, ProofInv, AddProven, RowProven, Attested
  <2>2. ASSUME NEW j \in AInvocation,
               assoc'[j].pc \in {"mint", "status", "delete", "add"}
        PROVE  AddProven(assoc[j].node, assoc[j].row.group, assoc[j].req)'
    BY <2>2, <1>3 DEF AssocInv, ProofInv, AddProven, q
  <2> QED BY <2>1, <2>2 DEF ProofInv
<1>7. GroupInv'
  <2>1. ASSUME NEW p \in AReq
        PROVE  /\ staleAreq'[p].group \in AGroup =>
                     areq'[p].group \in {staleAreq'[p].group, NoAGroup}
               /\ p \notin spent' /\ areq'[p].group = NoAGroup =>
                     /\ staleAreq'[p].group = NoAGroup
                     /\ \A j \in AInvocation : assoc'[j].pc # "idle" =>
                                                   assoc'[j].req # p
    <3>1. CASE p = q
      BY <3>1, <1>2, <1>4 DEF q
    <3>2. CASE p # q
      BY <3>2, <1>2, <1>3 DEF AssocInv, GroupInv, AssocAt
    <3> QED BY <3>1, <3>2
  <2>2. ASSUME NEW j \in AInvocation, assoc'[j].pc # "idle"
        PROVE  /\ assoc'[j].row.group \in AGroup
               /\ areq'[assoc'[j].req].group \in {assoc'[j].row.group, NoAGroup}
    <3>1. /\ assoc'[j].row = assoc[j].row /\ assoc'[j].req = assoc[j].req
          /\ assoc[j].pc # "idle" /\ assoc[j].req \in AReq
      BY <2>2, <1>1, <1>3 DEF AssocTypeOK, AssocJob, q
    <3> QED BY <3>1, <1>2, <1>4 DEF AssocInv, GroupInv, AssocAt
  <2> QED BY <2>1, <2>2 DEF GroupInv, AssocAt
<1>8. AddedWithProof'
  BY DEF AssocInv, AddedWithProof
<1> QED BY <1>5, <1>6, <1>7, <1>8 DEF AssocInv

\* The certificate is issued to what was proved.
LEMMA MintStep ==
    ASSUME AssocInv, NEW i \in AInvocation, GenerateDeviceNOC(i)
    PROVE  AssocInv'
<1> USE DEF GenerateDeviceNOC, AssocGoto, AssocAt
<1>1. /\ assoc' \in [AInvocation -> AssocJob]
      /\ assoc'[i] = [assoc[i] EXCEPT !.pc = "status"]
      /\ \A j \in AInvocation \ {i} : assoc'[j] = assoc[j]
      /\ assoc[i].req \in AReq
  BY DEF AssocInv, AssocTypeOK, AssocJob
<1>2. /\ assoc'[i].pc = "status" /\ assoc'[i].node = assoc[i].node
      /\ assoc'[i].row = assoc[i].row /\ assoc'[i].req = assoc[i].req
  BY <1>1 DEF AssocInv, AssocTypeOK, AssocJob
<1>3. AssocTypeOK' /\ AddedWithProof'
  BY <1>1 DEF AssocInv, AssocTypeOK, AddedWithProof
<1>4. ProofInv'
  BY <1>1, <1>2 DEF AssocInv, ProofInv, AddProven, RowProven, Attested
<1>5. GroupInv'
  BY <1>1, <1>2 DEF AssocInv, GroupInv
<1> QED BY <1>3, <1>4, <1>5 DEF AssocInv

\* The status is written over whatever the row is by now: the group it names,
\* if it still names one, is the one the node was proved for.
LEMMA StatusStep ==
    ASSUME AssocInv, NEW i \in AInvocation, UpdateAssocRequestStatus(i)
    PROVE  AssocInv'
<1> DEFINE q == assoc[i].req
           e == [areq[q] EXCEPT !.status = "verified", !.node = assoc[i].node,
                                !.fresh = TRUE]
<1> USE DEF UpdateAssocRequestStatus
<1>1. AssocTypeOK /\ q \in AReq /\ areq[q] \in AssocRequestEntry
  BY DEF AssocInv, AssocTypeOK, AssocJob
<1>2. assoc[i].node \in NodeIds /\ assoc[i].pc = "status"
  BY <1>1 DEF AssocTypeOK, AssocJob, AssocAt
<1>3. e \in AssocRequestEntry /\ e.node = assoc[i].node /\ e.group = areq[q].group
  BY <1>1, <1>2 DEF AssocRequestEntry
<1>4. PutAssoc(q, e)
  OBVIOUS
<1> HIDE DEF e
<1>5. /\ areq' \in [AReq -> AssocRequestEntry]
      /\ staleAreq' \in [AReq -> AssocRequestEntry]
      /\ areq'[q] = e
      /\ staleAreq'[q] \in {e, staleAreq[q]}
      /\ \A p \in AReq \ {q} : areq'[p] = areq[p] /\ staleAreq'[p] = staleAreq[p]
  BY <1>1, <1>3, <1>4, PutTypes
<1>6. /\ assoc' \in [AInvocation -> AssocJob]
      /\ assoc'[i].pc = "idle"
      /\ \A j \in AInvocation \ {i} : assoc'[j] = assoc[j]
  <2>1. NoAssocJob.pc = "idle"
    BY DEF NoAssocJob
  <2> QED BY <2>1, <1>1, NoJobType DEF AssocTypeOK, AssocDone
<1>7. RowProven(e, q)
  <2>1. AddProven(assoc[i].node, assoc[i].row.group, q)
    BY <1>2 DEF AssocInv, ProofInv
  <2>2. areq[q].group \in {assoc[i].row.group, NoAGroup}
    BY <1>2 DEF AssocInv, GroupInv, AssocAt
  <2> QED BY <1>3, <2>1, <2>2 DEF RowProven, AddProven, Attested
<1> HIDE DEF q
<1>8. AssocTypeOK' /\ AddedWithProof'
  BY <1>5, <1>6 DEF AssocInv, AssocTypeOK, AddedWithProof
<1>9. ProofInv'
  <2>1. ASSUME NEW p \in AReq
        PROVE  RowProven(areq[p], p)' /\ RowProven(staleAreq[p], p)'
    <3>1. RowProven(areq[p], p) /\ RowProven(staleAreq[p], p)
      BY DEF AssocInv, ProofInv
    <3>2. RowProven(areq'[p], p) /\ RowProven(staleAreq'[p], p)
      BY <1>1, <1>5, <1>7, <3>1
    <3> QED BY <3>2 DEF RowProven, AddProven, Attested
  <2>2. ASSUME NEW j \in AInvocation,
               assoc'[j].pc \in {"mint", "status", "delete", "add"}
        PROVE  AddProven(assoc[j].node, assoc[j].row.group, assoc[j].req)'
    BY <2>2, <1>6 DEF AssocInv, ProofInv, AddProven
  <2> QED BY <2>1, <2>2 DEF ProofInv
<1>10. \A p \in AReq : /\ areq'[p].group = areq[p].group
                       /\ staleAreq'[p].group \in {staleAreq[p].group, areq[p].group}
  BY <1>3, <1>5
<1>11. GroupInv'
  <2>1. spent' = spent
    OBVIOUS
  <2>2. \A j \in AInvocation : assoc'[j].pc # "idle" =>
                               /\ assoc'[j] = assoc[j] /\ assoc[j].pc # "idle"
                               /\ assoc[j].req \in AReq
    BY <1>6, <1>1 DEF AssocTypeOK, AssocJob
  <2> QED BY <2>1, <2>2, <1>10 DEF AssocInv, GroupInv, AssocAt
<1> QED BY <1>8, <1>9, <1>11 DEF AssocInv

\* The node is added on what the invocation holds.
LEMMA AddStep ==
    ASSUME AssocInv, NEW i \in AInvocation, ConfirmAdds(i)
    PROVE  AssocInv'
<1> USE DEF ConfirmAdds, AssocGoto, AssocAt
<1>1. /\ assoc' \in [AInvocation -> AssocJob]
      /\ assoc'[i].pc = "capability" /\ assoc'[i].node = assoc[i].node
      /\ assoc'[i].row = assoc[i].row /\ assoc'[i].req = assoc[i].req
      /\ \A j \in AInvocation \ {i} : assoc'[j] = assoc[j]
  BY DEF AssocInv, AssocTypeOK, AssocJob
<1>2. /\ AddProven(assoc[i].node, assoc[i].row.group, assoc[i].req)
      /\ assoc[i].row.group \in AGroup
  BY DEF AssocInv, ProofInv, GroupInv
<1>3. <<assoc[i].user, assoc[i].node, assoc[i].row.group, assoc[i].req>>
          \in AUser \X NodeIds \X AGroup \X AReq
  BY <1>2 DEF AssocInv, AssocTypeOK, AssocJob
<1>4. AssocTypeOK'
  BY <1>1, <1>3 DEF AssocInv, AssocTypeOK
<1>5. AddedWithProof'
  <2> SUFFICES ASSUME NEW a \in added'
               PROVE  IF a[2] \in ANode THEN <<a[2], a[4]>> \in answers
                      ELSE a[2] = NodeIdOf(a[4]) /\ a[3] \in MatterGroup
    BY DEF AddedWithProof
  <2>1. CASE a \in added
    BY <2>1 DEF AssocInv, AddedWithProof
  <2>2. CASE a = <<assoc[i].user, assoc[i].node, assoc[i].row.group, assoc[i].req>>
    BY <2>2, <1>2 DEF AddProven
  <2> QED BY <2>1, <2>2
<1>6. ProofInv'
  BY <1>1 DEF AssocInv, ProofInv, AddProven, RowProven, Attested
<1>7. GroupInv'
  BY <1>1 DEF AssocInv, GroupInv
<1> QED BY <1>4, <1>5, <1>6, <1>7 DEF AssocInv

\* A request is initiated where none was: nothing names another group for it.
LEMMA StoreStep ==
    ASSUME AssocInv, NEW u \in AUser, NEW g \in AGroup, NEW q \in AReq,
           StoreAssocRequest(u, g, q)
    PROVE  AssocInv'
<1> DEFINE e == [status |-> "pending", user |-> u, group |-> g,
                 node |-> NoANode, fresh |-> TRUE]
<1>1. AssocTypeOK /\ e \in AssocRequestEntry /\ e.node = NoANode /\ e.group = g
  BY EntryTypes DEF AssocInv
<1>2. PutAssoc(q, e) /\ UNCHANGED <<editor, answers, noc, added, spent, assoc>>
  BY DEF StoreAssocRequest
<1> HIDE DEF e
<1>3. /\ areq' \in [AReq -> AssocRequestEntry]
      /\ staleAreq' \in [AReq -> AssocRequestEntry]
      /\ areq'[q] = e
      /\ staleAreq'[q] \in {e, staleAreq[q]}
      /\ \A p \in AReq \ {q} : areq'[p] = areq[p] /\ staleAreq'[p] = staleAreq[p]
  BY <1>1, <1>2, PutTypes
<1>4. q \notin spent /\ areq[q].group = NoAGroup /\ NoAGroup \notin AGroup
  BY AssociationConstants DEF StoreAssocRequest, NoEntry
<1>5. /\ staleAreq[q].group = NoAGroup
      /\ \A j \in AInvocation : assoc[j].pc # "idle" => assoc[j].req # q
  BY <1>4 DEF AssocInv, GroupInv, AssocAt
<1>6. AssocTypeOK' /\ AddedWithProof'
  BY <1>2, <1>3 DEF AssocInv, AssocTypeOK, AddedWithProof
<1>7. ProofInv'
  BY <1>1, <1>2, <1>3 DEF AssocInv, ProofInv, AddProven, RowProven, Attested
<1>8. GroupInv'
  BY <1>1, <1>2, <1>3, <1>4, <1>5
     DEF AssocInv, GroupInv, AssocAt, AssocTypeOK, AssocJob
<1> QED BY <1>6, <1>7, <1>8 DEF AssocInv

\* A lagging read catches up with the row.
LEMMA CatchUpStep ==
    ASSUME AssocInv, NEW q \in AReq, AssocCatchUp(q)
    PROVE  AssocInv'
<1> USE DEF AssocCatchUp
<1>1. AssocTypeOK' /\ AddedWithProof'
  BY DEF AssocInv, AssocTypeOK, AddedWithProof
<1>2. /\ staleAreq'[q] = areq[q]
      /\ \A p \in AReq \ {q} : staleAreq'[p] = staleAreq[p]
  BY DEF AssocInv, AssocTypeOK
<1>3. ProofInv'
  <2>1. ASSUME NEW p \in AReq
        PROVE  RowProven(areq[p], p)' /\ RowProven(staleAreq[p], p)'
    <3>1. RowProven(areq[p], p) /\ RowProven(staleAreq[p], p) /\ RowProven(areq[q], q)
      BY DEF AssocInv, ProofInv
    <3>2. /\ areq' = areq /\ answers' = answers
          /\ staleAreq'[p] = staleAreq[p] \/ (p = q /\ staleAreq'[p] = areq[q])
      BY <1>2
    <3> QED BY <3>1, <3>2 DEF RowProven, AddProven, Attested
  <2>2. ASSUME NEW j \in AInvocation,
               assoc[j].pc \in {"mint", "status", "delete", "add"}
        PROVE  AddProven(assoc[j].node, assoc[j].row.group, assoc[j].req)'
    BY <2>2 DEF AssocInv, ProofInv, AddProven
  <2> QED BY <2>1, <2>2 DEF ProofInv
<1>4. GroupInv'
  BY <1>2 DEF AssocInv, GroupInv, AssocAt
<1> QED BY <1>1, <1>3, <1>4 DEF AssocInv

\* A request that expires keeps what it names.
LEMMA ExpiryStep ==
    ASSUME AssocInv, NEW q \in AReq, AssocExpires(q)
    PROVE  AssocInv'
<1> USE DEF AssocExpires
<1>1. /\ areq \in [AReq -> AssocRequestEntry]
      /\ staleAreq \in [AReq -> AssocRequestEntry]
  BY DEF AssocInv, AssocTypeOK
<1>2. /\ [areq[q] EXCEPT !.fresh = FALSE] \in AssocRequestEntry
      /\ [staleAreq[q] EXCEPT !.fresh = FALSE] \in AssocRequestEntry
  BY <1>1 DEF AssocRequestEntry
<1>3. AssocTypeOK' /\ AddedWithProof'
  BY <1>1, <1>2 DEF AssocInv, AssocTypeOK, AddedWithProof
<1>4. \A p \in AReq : /\ areq'[p].group = areq[p].group
                      /\ areq'[p].node = areq[p].node
                      /\ staleAreq'[p].group = staleAreq[p].group
                      /\ staleAreq'[p].node = staleAreq[p].node
  BY <1>1 DEF AssocRequestEntry
<1>5. ProofInv'
  BY <1>4 DEF AssocInv, ProofInv, AddProven, RowProven, Attested
<1>6. GroupInv'
  BY <1>4 DEF AssocInv, GroupInv, AssocAt, AssocTypeOK, AssocJob
<1> QED BY <1>3, <1>5, <1>6 DEF AssocInv

\* Signatures are only ever added, and rights and certificates prove nothing.
LEMMA RestStep ==
    ASSUME AssocInv, AssocSame, added' = added, spent' = spent,
           editor' \subseteq editor, noc' = noc,
           answers \subseteq answers', answers' \subseteq ANode \X AReq
    PROVE  AssocInv'
<1> USE DEF AssocSame
<1>1. AssocTypeOK' /\ AddedWithProof'
  BY DEF AssocInv, AssocTypeOK, AddedWithProof
<1>2. ProofInv'
  <2>1. ASSUME NEW p \in AReq
        PROVE  RowProven(areq[p], p)' /\ RowProven(staleAreq[p], p)'
    BY DEF AssocInv, ProofInv, AddProven, RowProven, Attested
  <2>2. ASSUME NEW j \in AInvocation,
               assoc[j].pc \in {"mint", "status", "delete", "add"}
        PROVE  AddProven(assoc[j].node, assoc[j].row.group, assoc[j].req)'
    BY <2>2 DEF AssocInv, ProofInv, AddProven
  <2> QED BY <2>1, <2>2 DEF ProofInv
<1>3. GroupInv'
  BY DEF AssocInv, GroupInv, AssocAt
<1> QED BY <1>1, <1>2, <1>3 DEF AssocInv

\* The requests of a user that start an invocation.
LEMMA CallStep ==
    ASSUME AssocInv, NEW i \in AInvocation, NEW u \in AUser, NEW g \in AGroup,
           NEW q \in AReq,
           \/ HandleConfirm(i, u, g, q)
           \/ \E n \in ANode : VerifyChallengeResponse(i, u, g, q, n)
           \/ \E n \in ANode \union {NodeIdOf(q)} : VerifyNOCSR(i, u, g, q, n)
    PROVE  AssocInv'
<1>1. CASE HandleConfirm(i, u, g, q)
  <2>1. PICK e \in GetAssocRequestByID(q) :
            /\ e.group = g /\ e.node # NoANode
            /\ AssocStart(i, u, q, e, e.node, "delete")
    BY <1>1 DEF HandleConfirm, Admitted
  <2>2. e.node \in NodeIds
    BY DEF AssocInv, AssocTypeOK, GetAssocRequestByID, AssocRequestEntry
  <2>3. AddProven(e.node, g, q)
    BY <2>1, AssociationConstants
       DEF AssocInv, ProofInv, RowProven, GetAssocRequestByID
  <2> QED BY <1>1, <2>1, <2>2, <2>3, StartStep DEF HandleConfirm
<1>2. ASSUME NEW n \in ANode, VerifyChallengeResponse(i, u, g, q, n)
      PROVE  AssocInv'
  <2>1. PICK e \in GetAssocRequestByID(q) :
            /\ e.group = g
            /\ AssocStart(i, u, q, e, n,
                   IF <<n, q>> \in answers THEN "delete" ELSE "burn")
    BY <1>2 DEF VerifyChallengeResponse, Admitted
  <2>2. n \in NodeIds
    BY DEF NodeIds
  <2>3. CASE <<n, q>> \in answers
    <3>1. AddProven(n, g, q)
      BY <2>3 DEF AddProven
    <3> QED BY <1>2, <2>1, <2>2, <2>3, <3>1, StartStep DEF VerifyChallengeResponse
  <2>4. CASE <<n, q>> \notin answers
    BY <1>2, <2>1, <2>2, <2>4, StartStep DEF VerifyChallengeResponse
  <2> QED BY <2>3, <2>4
<1>3. ASSUME NEW n \in ANode \union {NodeIdOf(q)}, VerifyNOCSR(i, u, g, q, n)
      PROVE  AssocInv'
  <2>1. PICK e \in GetAssocRequestByID(q) :
            e.group = g /\ AssocStart(i, u, q, e, n, "mint")
    BY <1>3 DEF VerifyNOCSR, Admitted
  <2>2. n \in NodeIds /\ AddProven(n, g, q)
    BY <1>3 DEF NodeIds, NodeIdOf, AddProven, VerifyNOCSR, Attested
  <2> QED BY <1>3, <2>1, <2>2, StartStep DEF VerifyNOCSR
<1> QED BY <1>1, <1>2, <1>3

---------------------------------------------------------------------------
(* The theorems *)

\* Nothing is held, and nothing was added, at the start.
LEMMA AssocInitial == ASSUME AssocInit PROVE AssocInv
<1>1. AssocTypeOK
  BY AssocInitType
<1>2. ProofInv
  BY DEF AssocInit, ProofInv, RowProven, NoEntry, NoAssocJob
<1>3. GroupInv
  BY AssociationConstants DEF AssocInit, GroupInv, AssocAt, NoEntry, NoAssocJob
<1>4. AddedWithProof
  BY DEF AssocInit, AddedWithProof
<1> QED BY <1>1, <1>2, <1>3, <1>4 DEF AssocInv

\* Every step keeps AssocInv.
LEMMA AssocStep == ASSUME AssocInv, [AssocNext]_assocVars PROVE AssocInv'
<1>1. ASSUME NEW i \in AInvocation,
             \/ GenerateDeviceNOC(i) \/ UpdateAssocRequestStatus(i)
             \/ BurnAssocRequest(i) \/ ConfirmDeletes(i) \/ ConfirmAdds(i)
             \/ InvokeCapabilityLambda(i) \/ AssocFails(i)
      PROVE  AssocInv'
  <2>1. CASE BurnAssocRequest(i)
    BY <2>1, DeleteStep DEF BurnAssocRequest, AssocAt
  <2>2. CASE ConfirmDeletes(i)
    BY <2>2, DeleteStep DEF ConfirmDeletes, AssocAt
  <2>3. CASE InvokeCapabilityLambda(i)
    BY <2>3, EndStep DEF InvokeCapabilityLambda
  <2>4. CASE AssocFails(i)
    BY <2>4, EndStep DEF AssocFails
  <2> QED BY <1>1, <2>1, <2>2, <2>3, <2>4, MintStep, StatusStep, AddStep
<1>2. ASSUME NEW u \in AUser, NEW g \in AGroup, LoseEditRight(u, g)
      PROVE  AssocInv'
  <2>1. answers \subseteq ANode \X AReq
    BY DEF AssocInv, AssocTypeOK
  <2> QED BY <1>2, <2>1, RestStep DEF LoseEditRight, AssocSame
<1>3. ASSUME NEW q \in AReq, NEW n \in ANode, SignChallenge(n, q)
      PROVE  AssocInv'
  <2>1. answers' \subseteq ANode \X AReq
    BY <1>3 DEF AssocInv, AssocTypeOK, SignChallenge
  <2> QED BY <1>3, <2>1, RestStep DEF SignChallenge, AssocSame
<1>4. CASE UNCHANGED assocVars
  <2>1. answers \subseteq ANode \X AReq
    BY DEF AssocInv, AssocTypeOK
  <2> QED BY <1>4, <2>1, RestStep DEF assocVars, AssocSame
<1> QED BY <1>1, <1>2, <1>3, <1>4, CallStep, StoreStep, CatchUpStep, ExpiryStep
           DEF AssocNext

\* AssocInv holds of every reachable state.
LEMMA AssocInvariance == AssocSpec => []AssocInv
BY AssocInitial, AssocStep, PTL DEF AssocSpec

\* Every row and every invocation of NodeAssociation keeps its type.
THEOREM AssociationTypes == AssocSpec => []AssocTypeOK
<1>1. AssocInv => AssocTypeOK
  BY DEF AssocInv
<1> QED BY <1>1, AssocInvariance, PTL

\* A node is put in a group only on its own signature, or under the id made up
\* for the request and in a fabric (handleVerify, handleConfirm), however the
\* invocations on a request interleave and whatever the reads of its row lag.
THEOREM NodesAddedWithProof == AssocSpec => []AddedWithProof
<1>1. AssocInv => AddedWithProof
  BY DEF AssocInv
<1> QED BY <1>1, AssocInvariance, PTL

---------------------------------------------------------------------------
(* A request is spent once *)

\* Without lag the row of a spent request is gone, or names no user.
SpentInv ==
    /\ AssocTypeOK
    /\ staleAreq = areq
    /\ \A q \in spent : areq[q].user = NoUser

\* No step of any invocation gives a spent request its user back.
LEMMA SpentStep ==
    ASSUME ~AReadsMayLag, SpentInv, AssocInv', [AssocNext]_assocVars
    PROVE  SpentInv'
<1> USE DEF SpentInv
<1>1. AssocTypeOK'
  BY DEF AssocInv
<1>2. ASSUME NEW q \in AReq, NEW e \in AssocRequestEntry, PutAssoc(q, e),
             \/ e.user = NoUser /\ spent' \subseteq spent \union {q}
             \/ e.user = areq[q].user /\ spent' = spent
             \/ q \notin spent /\ spent' = spent
      PROVE  SpentInv'
  <2>1. /\ areq'[q] = e
        /\ \A p \in AReq \ {q} : areq'[p] = areq[p]
        /\ spent \subseteq AReq
    BY <1>2 DEF PutAssoc, AssocTypeOK
  <2>2. staleAreq' = areq'
    BY <1>2 DEF PutAssoc
  <2> QED BY <1>1, <1>2, <2>1, <2>2
<1>3. ASSUME NEW i \in AInvocation, UpdateAssocRequestStatus(i)
      PROVE  SpentInv'
  <2> DEFINE q == assoc[i].req
             e == [areq[q] EXCEPT !.status = "verified", !.node = assoc[i].node,
                                  !.fresh = TRUE]
  <2>1. q \in AReq /\ assoc[i].node \in NodeIds /\ areq[q] \in AssocRequestEntry
    BY DEF AssocTypeOK, AssocJob
  <2>2. e \in AssocRequestEntry /\ e.user = areq[q].user
    BY <2>1 DEF AssocRequestEntry
  <2>3. PutAssoc(q, e) /\ spent' = spent
    BY <1>3 DEF UpdateAssocRequestStatus
  <2> HIDE DEF e
  <2> QED BY <1>2, <2>1, <2>2, <2>3
<1>4. ASSUME NEW i \in AInvocation, BurnAssocRequest(i) \/ ConfirmDeletes(i)
      PROVE  SpentInv'
  <2>1. assoc[i].req \in AReq /\ NoEntry \in AssocRequestEntry /\ NoEntry.user = NoUser
    BY EntryTypes DEF AssocTypeOK, AssocJob, NoEntry
  <2> QED BY <1>2, <1>4, <2>1 DEF BurnAssocRequest, ConfirmDeletes
<1>5. ASSUME NEW u \in AUser, NEW g \in AGroup, NEW q \in AReq,
             StoreAssocRequest(u, g, q)
      PROVE  SpentInv'
  BY <1>2, <1>5, EntryTypes DEF StoreAssocRequest
<1>6. ASSUME NEW q \in AReq, AssocExpires(q)
      PROVE  SpentInv'
  <2>1. \A p \in AReq : areq'[p].user = areq[p].user
    BY <1>6 DEF AssocExpires, AssocTypeOK, AssocRequestEntry
  <2>2. staleAreq' = areq' /\ spent' = spent
    BY <1>6 DEF AssocExpires
  <2> QED BY <1>1, <2>1, <2>2 DEF AssocTypeOK
<1>7. ASSUME areq' = areq, staleAreq' = staleAreq, spent' = spent
      PROVE  SpentInv'
  BY <1>1, <1>7
<1>8. ASSUME NEW i \in AInvocation,
             GenerateDeviceNOC(i) \/ ConfirmAdds(i) \/ InvokeCapabilityLambda(i)
                 \/ AssocFails(i)
      PROVE  SpentInv'
  BY <1>7, <1>8
     DEF GenerateDeviceNOC, ConfirmAdds, InvokeCapabilityLambda, AssocFails
<1>9. ASSUME NEW i \in AInvocation, NEW u \in AUser, NEW g \in AGroup, NEW q \in AReq,
             \/ HandleConfirm(i, u, g, q)
             \/ \E n \in ANode : VerifyChallengeResponse(i, u, g, q, n)
             \/ \E n \in ANode \union {NodeIdOf(q)} : VerifyNOCSR(i, u, g, q, n)
      PROVE  SpentInv'
  BY <1>7, <1>9 DEF HandleConfirm, VerifyChallengeResponse, VerifyNOCSR
<1>10. ASSUME NEW q \in AReq, AssocCatchUp(q) \/ \E n \in ANode : SignChallenge(n, q)
       PROVE  SpentInv'
  BY <1>7, <1>10 DEF AssocCatchUp, SignChallenge
<1>11. ASSUME NEW u \in AUser, NEW g \in AGroup, LoseEditRight(u, g)
       PROVE  SpentInv'
  BY <1>7, <1>11 DEF LoseEditRight
<1>12. CASE UNCHANGED assocVars
  BY <1>7, <1>12 DEF assocVars
<1> QED BY <1>3, <1>4, <1>5, <1>6, <1>8, <1>9, <1>10, <1>11, <1>12 DEF AssocNext

\* An invocation starts only on a row that names its caller.
LEMMA SpentStarts ==
    ASSUME SpentInv, [AssocNext]_assocVars, NEW i \in AInvocation,
           AssocAt(i, "idle"), assoc'[i].pc # "idle"
    PROVE  assoc'[i].req \notin spent
<1> USE DEF AssocAt
<1>1. ASSUME NEW u \in AUser, NEW q \in AReq, NEW e \in GetAssocRequestByID(q),
             NEW j \in AInvocation, NEW n, NEW pc, AssocStart(j, u, q, e, n, pc),
             e.user = u
      PROVE  assoc'[i].req \notin spent
  <2>1. q \notin spent
    BY <1>1, AssociationConstants DEF SpentInv, GetAssocRequestByID
  <2>2. i = j
    BY <1>1 DEF AssocStart, SpentInv, AssocTypeOK
  <2>3. assoc'[i].req = q
    BY <1>1, <2>2 DEF AssocStart, SpentInv, AssocTypeOK
  <2> QED BY <2>1, <2>3
<1>2. ASSUME NEW j \in AInvocation, NEW u \in AUser, NEW g \in AGroup, NEW q \in AReq,
             HandleConfirm(j, u, g, q)
      PROVE  assoc'[i].req \notin spent
  BY <1>1, <1>2 DEF HandleConfirm, Admitted
<1>3. ASSUME NEW j \in AInvocation, NEW u \in AUser, NEW g \in AGroup, NEW q \in AReq,
             NEW n, VerifyChallengeResponse(j, u, g, q, n)
      PROVE  assoc'[i].req \notin spent
  BY <1>1, <1>3 DEF VerifyChallengeResponse, Admitted
<1>4. ASSUME NEW j \in AInvocation, NEW u \in AUser, NEW g \in AGroup, NEW q \in AReq,
             NEW n, VerifyNOCSR(j, u, g, q, n)
      PROVE  assoc'[i].req \notin spent
  BY <1>1, <1>4 DEF VerifyNOCSR, Admitted
<1>5. ASSUME assoc' = assoc
      PROVE  FALSE
  BY <1>5
<1>6. ASSUME NEW j \in AInvocation,
             \/ AssocDone(j)
             \/ /\ ~AssocAt(j, "idle")
                /\ \/ AssocGoto(j, "status") \/ AssocGoto(j, "add")
                   \/ AssocGoto(j, "capability")
      PROVE  FALSE
  <2>1. NoAssocJob.pc = "idle"
    BY DEF NoAssocJob
  <2>2. assoc[i].pc = "idle" /\ i \in DOMAIN assoc
    BY DEF SpentInv, AssocTypeOK
  <2>3. CASE AssocDone(j)
    <3>1. assoc'[i] = assoc[i] \/ assoc'[i] = NoAssocJob
      BY <2>2, <2>3 DEF AssocDone
    <3> QED BY <2>1, <2>2, <3>1
  <2>4. CASE ~AssocDone(j)
    <3>1. i # j
      BY <1>6, <2>4
    <3>2. assoc'[i] = assoc[i]
      BY <1>6, <2>2, <2>4, <3>1 DEF AssocGoto
    <3> QED BY <2>2, <3>2
  <2> QED BY <2>3, <2>4
<1>7. ASSUME NEW j \in AInvocation,
             \/ GenerateDeviceNOC(j) \/ UpdateAssocRequestStatus(j)
             \/ BurnAssocRequest(j) \/ ConfirmDeletes(j) \/ ConfirmAdds(j)
             \/ InvokeCapabilityLambda(j) \/ AssocFails(j)
      PROVE  FALSE
  BY <1>6, <1>7
     DEF GenerateDeviceNOC, UpdateAssocRequestStatus, BurnAssocRequest,
         ConfirmDeletes, ConfirmAdds, InvokeCapabilityLambda, AssocFails
<1>8. ASSUME NEW q \in AReq, \/ AssocCatchUp(q) \/ AssocExpires(q)
                             \/ \E n \in ANode : SignChallenge(n, q)
                             \/ \E u \in AUser, g \in AGroup : StoreAssocRequest(u, g, q)
      PROVE  FALSE
  BY <1>5, <1>8 DEF AssocCatchUp, AssocExpires, SignChallenge, StoreAssocRequest
<1>9. ASSUME \E u \in AUser, g \in AGroup : LoseEditRight(u, g)
      PROVE  FALSE
  BY <1>5, <1>9 DEF LoseEditRight
<1>10. CASE UNCHANGED assocVars
  BY <1>5, <1>10 DEF assocVars
<1> QED BY <1>2, <1>3, <1>4, <1>7, <1>8, <1>9, <1>10 DEF AssocNext

\* Where reads return the latest write, a request that was confirmed or burnt
\* starts no other invocation (assoc_request_db, deleteAssocRequest).
THEOREM SpentForGood == ~AReadsMayLag => (AssocSpec => SpentStaysSpent)
<1> SUFFICES ASSUME ~AReadsMayLag PROVE AssocSpec => SpentStaysSpent
  OBVIOUS
<1>1. AssocInit => SpentInv
  BY AssocInitType DEF AssocInit, SpentInv
<1>2. AssocInv' /\ SpentInv /\ [AssocNext]_assocVars => SpentInv'
  BY SpentStep
<1>3. SpentInv /\ [AssocNext]_assocVars =>
        [\A i \in AInvocation :
            AssocAt(i, "idle") /\ assoc'[i].pc # "idle" =>
                assoc'[i].req \notin spent]_assocVars
  BY SpentStarts
<1> QED BY <1>1, <1>2, <1>3, AssocInvariance, PTL DEF AssocSpec, SpentStaysSpent
=============================================================================
