------------------------------ MODULE Claiming ------------------------------
(***************************************************************************)
(* Assisted claiming (claim/): a caller reserves a node id for a device's  *)
(* MAC address, then has a certificate for that id signed by the claiming  *)
(* CA and bound to the node (NodeRegistry has the parts of binding).  An   *)
(* administrator mints the CA once, or again by force.                     *)
(*                                                                         *)
(* Calls of one claimant run at once, and so do calls that mint.           *)
(***************************************************************************)
EXTENDS Integers, FiniteSets

CONSTANTS
    Caller, Mac,
    IdPool,             \* what GenerateNodeID draws from: never twice the same
    NoId,
    MaxNodesPerClaimant,
    ClaimCall, MintCall,
    MaxCA,              \* bound: certificates minted for the CA
    ClaimsMayFail

ASSUME ClaimingConstants ==
    /\ Caller # {} /\ Mac # {}
    /\ NoId \notin IdPool
    /\ MaxNodesPerClaimant \in Nat \ {0}
    /\ MaxCA \in Nat

VARIABLES
    reservation,        \* [key -> node id]: rmng-node-id-reservations
    claim,              \* [ClaimCall -> what it holds]
    drawn,              \* node ids drawn
    claimTold,          \* history: <<key, node id>> answered
    ca,                 \* the published CA certificate, by number; 0 is none
    mint,               \* [MintCall -> what it holds]
    minted,             \* CA certificates made
    caTold,             \* history: those answered since the last by force
    procCA              \* what the verifying process has loaded

reserveVars == <<reservation, claim, drawn, claimTold>>
caVars == <<ca, mint, minted, caTold, procCA>>

\* Mutant: the key has no caller, as that of devices which prove possession.
KeyOfDevice(mac, caller) == <<mac, CHOOSE c \in Caller : TRUE>>

\* user_authenticated, the one variant implemented, keys on MAC and caller.
ClaimKey == Mac \X Caller
KeyOf(mac, caller) == <<mac, caller>>

NoClaim == [pc |-> "idle", key |-> CHOOSE k \in ClaimKey : TRUE,
            caller |-> CHOOSE c \in Caller : TRUE]

ReserveInit ==
    /\ reservation = [k \in ClaimKey |-> NoId]
    /\ claim = [i \in ClaimCall |-> NoClaim]
    /\ drawn = {} /\ claimTold = {}

MintInit ==
    /\ ca = 0 /\ minted = 0 /\ caTold = {}
    /\ mint = [i \in MintCall |-> [pc |-> "idle", ca |-> 0]]
    /\ procCA = "unloaded"

\* An answer names a node id to a caller for a MAC address.
Answer(i, id) ==
    claimTold' = claimTold \union {<<claim[i].key[1], claim[i].caller, id>>}
EndClaim(i) == claim' = [claim EXCEPT ![i] = NoClaim]

---------------------------------------------------------------------------
(* initiate: reserveNodeID *)

Initiate(i, mac, caller) ==
    /\ claim[i].pc = "idle"
    /\ claim' = [claim EXCEPT ![i] = [pc |-> "get", key |-> KeyOf(mac, caller),
                                      caller |-> caller]]
    /\ UNCHANGED <<reservation, drawn, claimTold>>

GetReservation(i) ==
    /\ claim[i].pc = "get"
    /\ LET id == reservation[claim[i].key] IN
       IF id = NoId
       THEN claim' = [claim EXCEPT ![i].pc = "count"] /\ UNCHANGED claimTold
       ELSE Answer(i, id) /\ EndClaim(i)
    /\ UNCHANGED <<reservation, drawn>>

Held(key) == {k \in ClaimKey : k[2] = key[2] /\ reservation[k] # NoId}

\* A consistent count of the claimant's partition.
CountReservations(i) ==
    /\ claim[i].pc = "count"
    /\ IF Cardinality(Held(claim[i].key)) >= MaxNodesPerClaimant
       THEN EndClaim(i) ELSE claim' = [claim EXCEPT ![i].pc = "create"]
    /\ UNCHANGED <<reservation, drawn, claimTold>>

\* A conditional create; the loser of two answers with what the winner wrote.
CreateReservation(i) ==
    /\ claim[i].pc = "create"
    /\ \E id \in IdPool \ drawn :
          LET held == reservation[claim[i].key] IN
          /\ drawn' = drawn \union {id}
          /\ reservation' = [reservation EXCEPT ![claim[i].key] = IF held = NoId THEN id ELSE held]
          /\ Answer(i, IF held = NoId THEN id ELSE held)
          /\ EndClaim(i)

---------------------------------------------------------------------------
(* verify *)

\* The node id of the certificate is the reservation's, nothing the caller sends.
Verify(mac, caller) ==
    /\ LET key == KeyOf(mac, caller) IN
       /\ reservation[key] # NoId
       /\ claimTold' = claimTold \union {<<mac, caller, reservation[key]>>}
    /\ UNCHANGED <<reservation, claim, drawn>>

ClaimFails(i) ==
    /\ ClaimsMayFail
    /\ claim[i].pc # "idle"
    /\ EndClaim(i)
    /\ UNCHANGED <<reservation, drawn, claimTold>>

---------------------------------------------------------------------------
(* BootstrapCA: a part of its own, verify needs no more than some CA *)

SignCA(i, force) ==
    /\ mint[i].pc = "idle"
    /\ minted < MaxCA
    /\ minted' = minted + 1
    /\ mint' = [mint EXCEPT ![i] = [pc |-> IF force THEN "force" ELSE "once",
                                    ca |-> minted + 1]]
    /\ UNCHANGED <<ca, caTold, procCA>>

PublishByForce(i) ==
    /\ mint[i].pc = "force"
    /\ ca' = mint[i].ca
    /\ caTold' = {ca'}
    /\ mint' = [mint EXCEPT ![i] = [pc |-> "idle", ca |-> 0]]
    /\ UNCHANGED <<minted, procCA>>

\* Mutant: whether a CA is there was read earlier.
PublishLate(i) ==
    /\ mint[i].pc = "once"
    /\ ca' = mint[i].ca
    /\ caTold' = caTold \union {ca'}
    /\ mint' = [mint EXCEPT ![i] = [pc |-> "idle", ca |-> 0]]
    /\ UNCHANGED <<minted, procCA>>

\* StoreParameterIfAbsent, one atomic write: what is there is answered.
PublishIfAbsent(i) ==
    /\ mint[i].pc = "once"
    /\ ca' = IF ca = 0 THEN mint[i].ca ELSE ca
    /\ caTold' = caTold \union {ca'}
    /\ mint' = [mint EXCEPT ![i] = [pc |-> "idle", ca |-> 0]]
    /\ UNCHANGED <<minted, procCA>>

\* The verifying process reads the CA once and keeps what it got, the failure too.
LoadCA ==
    /\ procCA = "unloaded"
    /\ procCA' = IF ca = 0 THEN "failed" ELSE "loaded"
    /\ UNCHANGED <<ca, mint, minted, caTold>>

\* A new process takes its place.
Recycle ==
    /\ procCA' = "unloaded"
    /\ UNCHANGED <<ca, mint, minted, caTold>>

ReserveNext ==
    \/ \E i \in ClaimCall :
          \/ \E mac \in Mac, caller \in Caller : Initiate(i, mac, caller)
          \/ GetReservation(i) \/ CountReservations(i) \/ CreateReservation(i)
          \/ ClaimFails(i)
    \/ \E mac \in Mac, caller \in Caller : Verify(mac, caller)

MintNext ==
    \/ LoadCA \/ Recycle
    \/ \E i \in MintCall :
          \/ \E force \in BOOLEAN : SignCA(i, force)
          \/ PublishByForce(i) \/ PublishIfAbsent(i)

ReserveSpec == ReserveInit /\ [][ReserveNext]_reserveVars
MintSpec == MintInit /\ [][MintNext]_caVars

---------------------------------------------------------------------------
(* Properties *)

\* Every variable has its type.
ReserveTypeOK ==
    /\ reservation \in [ClaimKey -> IdPool \union {NoId}]
    /\ claim \in [ClaimCall -> [pc : {"idle", "get", "count", "create"},
                                key : ClaimKey, caller : Caller]]
    /\ drawn \subseteq IdPool
    /\ claimTold \subseteq Mac \X Caller \X IdPool

MintTypeOK ==
    /\ ca \in 0..MaxCA /\ minted \in 0..MaxCA /\ caTold \subseteq 0..MaxCA
    /\ mint \in [MintCall -> [pc : {"idle", "once", "force"}, ca : 0..MaxCA]]
    /\ procCA \in {"unloaded", "failed", "loaded"}

ClaimTypeOK == ReserveTypeOK /\ MintTypeOK

\* A caller gets one node id for a MAC address however its requests overlap, and
\* never the id of another caller's device, whose certificate it would replace.
OneIdPerClaim ==
    \A s, t \in claimTold : (s[1] = t[1] /\ s[2] = t[2]) <=> s[3] = t[3]

\* However many ask for the CA to be minted, all are told the one published,
\* which stays until it is replaced by force.
OneCAToldSinceForce == caTold \subseteq {ca}
=============================================================================
