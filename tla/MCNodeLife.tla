----------------------------- MODULE MCNodeLife ------------------------------
(***************************************************************************)
(* What must eventually happen to a node, for TLC: data of an owner is     *)
(* cleaned up, the children of a bridge follow it, presence settles and a  *)
(* device catches up with its schedules.  As in MCDevices, a behaviour is  *)
(* one of one component; its fairness is asked of that component alone.    *)
(***************************************************************************)
EXTENDS NodePlacement, BridgeChildren, NodePresence, NodeServices

VARIABLE part

lifeVars == <<part, placementVars, bridgeVars, presenceVars, servicesVars>>

LifeInit ==
    /\ part \in {"placement", "bridge", "presence", "services"}
    /\ PlacementInit /\ BridgeInit /\ PresenceInit /\ ServicesInit

LifeNext ==
    \/ /\ part = "placement" /\ PlacementNext
       /\ UNCHANGED <<part, bridgeVars, presenceVars, servicesVars>>
    \/ /\ part = "bridge" /\ BridgeNext
       /\ UNCHANGED <<part, placementVars, presenceVars, servicesVars>>
    \/ /\ part = "presence" /\ PresenceNext
       /\ UNCHANGED <<part, placementVars, bridgeVars, servicesVars>>
    \/ /\ part = "services" /\ ServicesNext
       /\ UNCHANGED <<part, placementVars, bridgeVars, presenceVars>>

\* PlacementFairness, BridgeFairness, PresenceFairness and ServicesFairness.
LifeFairness ==
    /\ \A i \in Invocation : WF_placementVars(part = "placement" /\ PlacementStep(i))
    /\ \A g \in Group : WF_placementVars(part = "placement" /\ HandleNodeDataReset(g))
    /\ \A i \in BridgeCall : WF_bridgeVars(part = "bridge" /\ CallStep(i))
    /\ \A g \in Home : WF_bridgeVars(part = "bridge" /\ StartCascade(g))
    /\ \A g \in Home, c \in Child : WF_bridgeVars(part = "bridge" /\ CascadeStep(g, c))
    /\ WF_presenceVars(part = "presence" /\ RecordSession)
    /\ WF_presenceVars(part = "presence" /\ PresenceStep)
    /\ WF_servicesVars(part = "services" /\ Connects)
    /\ WF_servicesVars(part = "services" /\ Restarts)
    /\ WF_servicesVars(part = "services" /\ FromCloud)

LifeSpec == LifeInit /\ [][LifeNext]_lifeVars /\ LifeFairness

LifeTypeOK == PlacementTypeOK /\ BridgeTypeOK /\ PresenceTypeOK /\ ServicesTypeOK
=============================================================================
