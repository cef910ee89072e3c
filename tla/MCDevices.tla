------------------------------ MODULE MCDevices ------------------------------
(***************************************************************************)
(* Nodes and the people who own them, for TLC: where nodes are, how they   *)
(* are claimed, registered and associated, the fabric of their group and   *)
(* the accounts of their users.  The components share no state: a          *)
(* behaviour is one of one component, and part says which, while the       *)
(* others stay in one of their initial states.                             *)
(***************************************************************************)
EXTENDS NodePlacement, NodeAssociation, GroupFabric, NodeRegistry, Claiming,
        BulkJobs, Federation

VARIABLE part

devicesVars == <<part, placementVars, assocVars, fabricVars, registryVars,
                 reserveVars, caVars, bulkVars, federationVars>>

\* Where a component has several initial states, one stands for them while it
\* is not the part explored.
DevicesInit ==
    /\ part \in {"placement", "association", "fabric", "registry", "ids",
                 "authority", "bulk", "federation"}
    /\ PlacementInit /\ AssocInit /\ RegistryInit /\ ReserveInit
    /\ MintInit /\ (part # "authority" => procCA = "unloaded")
    /\ FabricInit
    /\ part # "fabric" =>
          fabric = NoFabric /\ seat[CHOOSE u \in FabricUser : TRUE] = "primary"
    /\ BulkInit
    /\ part # "bulk" =>
          /\ \A r \in CsvRow : csv[r] = [label |-> NoName, cn |-> NoName]
          /\ jobType = "register" /\ known = {}
    /\ FederationInit
    /\ part # "federation" => users = <<>> /\ ~idMapped /\
          accounts = [a \in Account |->
              [at |-> PasswordProvider, mail |-> NoContact, mailVerified |-> FALSE,
               phone |-> NoContact]]

DevicesNext ==
    \/ /\ part = "placement" /\ PlacementNext
       /\ UNCHANGED <<part, assocVars, fabricVars, registryVars, reserveVars,
                      caVars, bulkVars, federationVars>>
    \/ /\ part = "association" /\ AssocNext
       /\ UNCHANGED <<part, placementVars, fabricVars, registryVars,
                      reserveVars, caVars, bulkVars, federationVars>>
    \/ /\ part = "fabric" /\ FabricNext
       /\ UNCHANGED <<part, placementVars, assocVars, registryVars,
                      reserveVars, caVars, bulkVars, federationVars>>
    \/ /\ part = "registry" /\ RegistryNext
       /\ UNCHANGED <<part, placementVars, assocVars, fabricVars, reserveVars,
                      caVars, bulkVars, federationVars>>
    \/ /\ part = "ids" /\ ReserveNext
       /\ UNCHANGED <<part, placementVars, assocVars, fabricVars, registryVars,
                      caVars, bulkVars, federationVars>>
    \/ /\ part = "authority" /\ MintNext
       /\ UNCHANGED <<part, placementVars, assocVars, fabricVars, registryVars,
                      reserveVars, bulkVars, federationVars>>
    \/ /\ part = "bulk" /\ BulkNext
       /\ UNCHANGED <<part, placementVars, assocVars, fabricVars, registryVars,
                      reserveVars, caVars, federationVars>>
    \/ /\ part = "federation" /\ FederationNext
       /\ UNCHANGED <<part, placementVars, assocVars, fabricVars, registryVars,
                      reserveVars, caVars, bulkVars>>

DevicesSpec == DevicesInit /\ [][DevicesNext]_devicesVars

\* Invocations are alike.  The components' own share the same model values
\* (a behaviour has those of one component only), so there is one symmetry.
Alike == Permutations(AInvocation)

\* One contact had an account before providers were linked.
MCOldContacts == {[mail |-> "m1", phone |-> "-"]}

DevicesTypeOK ==
    /\ PlacementTypeOK /\ AssocTypeOK /\ FabricTypeOK /\ RegistryTypeOK
    /\ ClaimTypeOK /\ BulkTypeOK /\ FederationTypeOK
=============================================================================
