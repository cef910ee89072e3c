--------------------------- MODULE BridgeChildren ---------------------------
(***************************************************************************)
(* A bridge and the children it speaks for (bridge/handlers, bridge/db).   *)
(*                                                                         *)
(* A child is three things: an IoT thing, a row that names its parent and  *)
(* the id it has on the bridge's own network, and a place in the bridge's  *)
(* group (one step here; NodePlacement has its parts).  The bridge asks    *)
(* for it to be made and removed; when the bridge leaves its group an      *)
(* asynchronous cascade removes them all.                                  *)
(***************************************************************************)
EXTENDS Integers, FiniteSets

CONSTANTS
    Child, LocalId, NoLocal,
    Home, NoHome,       \* groups the bridge may be in
    BridgeCall,         \* concurrent invocations for this bridge
    ChildCallsMayFail

ASSUME BridgeConstants ==
    /\ Child # {}
    /\ NoLocal \notin LocalId
    /\ NoHome \notin Home

VARIABLES
    home,               \* the bridge's group
    childRow,           \* [Child -> local id in the bridge_children row]
    childThing,         \* [Child -> local id in the attributes of its thing]
    childHome,          \* [Child -> its group]
    cascades,           \* node-left-group events under way, by old group
    fanout,             \* [Home -> children left to remove, with the next call]
    call,               \* [BridgeCall -> what it holds]
    rough               \* history: operations overlapped, or a call failed

bridgeVars ==
    <<home, childRow, childThing, childHome, cascades, fanout, call, rough>>

Stage == {"none", "disassoc", "thing", "row"}
CallPc == {"idle", "group", "thing", "row", "place", "undoRow", "undoThing",
           "whose", "disassoc", "unthing", "unrow"}
BridgeJob == [pc : CallPc, child : Child, localId : LocalId \union {NoLocal},
              group : Home \union {NoHome}]
NoBridgeJob == [pc |-> "idle", child |-> CHOOSE c \in Child : TRUE,
                localId |-> NoLocal, group |-> NoHome]

BridgeInit ==
    /\ home = NoHome
    /\ childRow = [c \in Child |-> NoLocal]
    /\ childThing = [c \in Child |-> NoLocal]
    /\ childHome = [c \in Child |-> NoHome]
    /\ cascades = {}
    /\ fanout = [g \in Home |-> [c \in Child |-> "none"]]
    /\ call = [i \in BridgeCall |-> NoBridgeJob]
    /\ rough = FALSE

CallAt(i, pc) == call[i].pc = pc
CallGoto(i, pc) == call' = [call EXCEPT ![i].pc = pc]
CallDone(i) == call' = [call EXCEPT ![i] = NoBridgeJob]
Quiet == cascades = {} /\ \A i \in BridgeCall : CallAt(i, "idle")
Roughen(event) == rough' = (rough \/ event)

---------------------------------------------------------------------------
(* The bridge moves, by the hand of a user or a factory reset *)

\* ShadowNodeAddToGroup, ShadowNodeRemoveFromGroup, NodeResetService: the
\* bridge's own row, then OnNodeLeftGroup, unless it was in no group.
MoveBridge(g) ==
    /\ home # g
    /\ home' = g
    /\ home \notin cascades
    /\ \/ /\ cascades' = IF home = NoHome THEN cascades ELSE cascades \union {home}
          /\ Roughen(~Quiet)
       \/ /\ ChildCallsMayFail
          /\ home # NoHome
          /\ rough' = TRUE
          /\ UNCHANGED cascades
    /\ UNCHANGED <<childRow, childThing, childHome, fanout, call>>

---------------------------------------------------------------------------
(* handleAddChild *)

\* Siblings are listed first: the same local id is a success already, the
\* same suffix for another local id an error, and either ends the request.
AddChild(i, c, l) ==
    /\ CallAt(i, "idle")
    /\ \A s \in Child : childRow[s] # l
    /\ childRow[c] = NoLocal
    /\ call' = [call EXCEPT ![i] = [pc |-> "group", child |-> c, localId |-> l,
                                    group |-> NoHome]]
    /\ Roughen(~Quiet)
    /\ UNCHANGED <<home, childRow, childThing, childHome, cascades, fanout>>

\* GetMyGroup: a bridge that is in no group has no children.
GetMyGroup(i) ==
    /\ CallAt(i, "group")
    /\ call' = [call EXCEPT ![i] =
                   IF home = NoHome THEN NoBridgeJob
                   ELSE [@ EXCEPT !.pc = "thing", !.group = home]]
    /\ UNCHANGED <<home, childRow, childThing, childHome, cascades, fanout, rough>>

\* A thing that exists with the same attributes is returned, with others refused.
CreateThing(i) ==
    /\ CallAt(i, "thing")
    /\ LET c == call[i].child IN
       IF childThing[c] \in {NoLocal, call[i].localId}
       THEN /\ childThing' = [childThing EXCEPT ![c] = call[i].localId]
            /\ CallGoto(i, "row")
       ELSE CallDone(i) /\ UNCHANGED childThing
    /\ UNCHANGED <<home, childRow, childHome, cascades, fanout, rough>>

\* A conditional create; when it fails the thing is deleted.
CreateRow(i) ==
    /\ CallAt(i, "row")
    /\ LET c == call[i].child IN
       IF childRow[c] = NoLocal
       THEN /\ childRow' = [childRow EXCEPT ![c] = call[i].localId]
            /\ CallGoto(i, "place")
       ELSE CallGoto(i, "undoThing") /\ UNCHANGED childRow
    /\ UNCHANGED <<home, childThing, childHome, cascades, fanout, rough>>

\* ShadowNodeAddToGroupAuthorized
PlaceChild(i) ==
    /\ CallAt(i, "place")
    /\ childHome' = [childHome EXCEPT ![call[i].child] = call[i].group]
    /\ CallDone(i)
    /\ UNCHANGED <<home, childRow, childThing, cascades, fanout, rough>>

\* Mutant: the row stays when the child cannot be placed.
PlaceFailsKeepingRow(i) ==
    /\ ChildCallsMayFail
    /\ CallAt(i, "place")
    /\ CallGoto(i, "undoThing")
    /\ UNCHANGED <<home, childRow, childThing, childHome, cascades, fanout, rough>>

\* What fails before is undone: the row and the thing, the thing alone.
PlaceFails(i) ==
    /\ ChildCallsMayFail
    /\ CallAt(i, "place")
    /\ CallGoto(i, "undoRow")
    /\ UNCHANGED <<home, childRow, childThing, childHome, cascades, fanout, rough>>

CreateRowFails(i) ==
    /\ ChildCallsMayFail
    /\ CallAt(i, "row")
    /\ CallGoto(i, "undoThing")
    /\ UNCHANGED <<home, childRow, childThing, childHome, cascades, fanout, rough>>

---------------------------------------------------------------------------
(* handleRemoveChild *)

\* No row: nothing to remove.
RemoveChild(i, c) ==
    /\ CallAt(i, "idle")
    /\ childRow[c] # NoLocal
    /\ call' = [call EXCEPT ![i] = [NoBridgeJob EXCEPT !.pc = "whose", !.child = c]]
    /\ Roughen(~Quiet)
    /\ UNCHANGED <<home, childRow, childThing, childHome, cascades, fanout>>

GetMyGroupToRemove(i) ==
    /\ CallAt(i, "whose")
    /\ call' = [call EXCEPT ![i].group = home,
                            ![i].pc = IF home = NoHome THEN "unthing" ELSE "disassoc"]
    /\ UNCHANGED <<home, childRow, childThing, childHome, cascades, fanout, rough>>

\* A child that is not in the bridge's group is not removed.
DisassocChild(i) ==
    /\ CallAt(i, "disassoc")
    /\ LET c == call[i].child IN
       IF childHome[c] = call[i].group
       THEN childHome' = [childHome EXCEPT ![c] = NoHome] /\ CallGoto(i, "unthing")
       ELSE CallDone(i) /\ UNCHANGED childHome
    /\ UNCHANGED <<home, childRow, childThing, cascades, fanout, rough>>

\* To delete a thing that is not there is no error.
WithoutThing(c) == childThing' = [childThing EXCEPT ![c] = NoLocal]

DeleteThing(i) ==
    /\ call[i].pc \in {"unthing", "undoThing"}
    /\ WithoutThing(call[i].child)
    /\ IF CallAt(i, "unthing") THEN CallGoto(i, "unrow") ELSE CallDone(i)
    /\ UNCHANGED <<home, childRow, childHome, cascades, fanout, rough>>

DeleteChild(i) ==
    /\ call[i].pc \in {"unrow", "undoRow"}
    /\ childRow' = [childRow EXCEPT ![call[i].child] = NoLocal]
    /\ IF CallAt(i, "undoRow") THEN CallGoto(i, "undoThing") ELSE CallDone(i)
    /\ UNCHANGED <<home, childThing, childHome, cascades, fanout, rough>>

\* An undo is not retried, and a removal stops at the call that failed.
CallAborts(i) ==
    /\ ChildCallsMayFail
    /\ call[i].pc \in {"disassoc", "unthing", "unrow", "undoRow", "undoThing"}
    /\ CallDone(i)
    /\ rough' = TRUE
    /\ UNCHANGED <<home, childRow, childThing, childHome, cascades, fanout>>

---------------------------------------------------------------------------
(* cascade_delete, started by the event of the bridge leaving its group *)

Fanning(g) == \E c \in Child : fanout[g][c] # "none"

StartCascade(g) ==
    /\ g \in cascades
    /\ ~Fanning(g)
    /\ IF \E c \in Child : childRow[c] # NoLocal
       THEN /\ fanout' = [fanout EXCEPT ![g] =
                   [c \in Child |-> IF childRow[c] = NoLocal THEN "none" ELSE "disassoc"]]
            /\ UNCHANGED cascades
       ELSE cascades' = cascades \ {g} /\ UNCHANGED fanout
    /\ UNCHANGED <<home, childRow, childThing, childHome, call, rough>>

\* The next call for child c; the event is done with when no child is left.
Fan(g, c, stage) ==
    /\ fanout' = [fanout EXCEPT ![g][c] = stage]
    /\ cascades' = IF stage = "none" /\ \A d \in Child \ {c} : fanout[g][d] = "none"
                   THEN cascades \ {g} ELSE cascades

\* Mutant: the group is the bridge's, read again, not that of the event.
CascadeDisassocFromCurrent(g, c) ==
    /\ fanout[g][c] = "disassoc"
    /\ childHome' = IF childHome[c] = home THEN [childHome EXCEPT ![c] = NoHome]
                    ELSE childHome
    /\ Fan(g, c, "thing")
    /\ UNCHANGED <<home, childRow, childThing, call, rough>>

\* ShadowNodeRemoveFromGroupAuthorizedBulk: a child that is not in the old
\* group stays where it is; its thing and row go all the same.
CascadeDisassoc(g, c) ==
    /\ fanout[g][c] = "disassoc"
    /\ childHome' = IF childHome[c] = g THEN [childHome EXCEPT ![c] = NoHome]
                    ELSE childHome
    /\ Fan(g, c, "thing")
    /\ UNCHANGED <<home, childRow, childThing, call, rough>>

CascadeDeleteThing(g, c) ==
    /\ fanout[g][c] = "thing"
    /\ WithoutThing(c)
    /\ Fan(g, c, "row")
    /\ UNCHANGED <<home, childRow, childHome, call, rough>>

CascadeDeleteRow(g, c) ==
    /\ fanout[g][c] = "row"
    /\ childRow' = [childRow EXCEPT ![c] = NoLocal]
    /\ Fan(g, c, "none")
    /\ UNCHANGED <<home, childThing, childHome, call, rough>>

\* A failed removal is logged and the fan-out goes on; the row stays when the
\* thing could not be deleted.
CascadeCallFails(g, c) ==
    /\ ChildCallsMayFail
    /\ fanout[g][c] # "none"
    /\ Fan(g, c, IF fanout[g][c] = "disassoc" THEN "thing" ELSE "none")
    /\ rough' = TRUE
    /\ UNCHANGED <<home, childRow, childThing, childHome, call>>

---------------------------------------------------------------------------

CallStep(i) ==
    \/ GetMyGroup(i) \/ CreateThing(i) \/ CreateRow(i) \/ PlaceChild(i)
    \/ GetMyGroupToRemove(i) \/ DisassocChild(i) \/ DeleteThing(i) \/ DeleteChild(i)
CascadeStep(g, c) ==
    CascadeDisassoc(g, c) \/ CascadeDeleteThing(g, c) \/ CascadeDeleteRow(g, c)

BridgeNext ==
    \/ \E g \in Home \union {NoHome} : MoveBridge(g)
    \/ \E i \in BridgeCall :
           \/ CallStep(i) \/ PlaceFails(i) \/ CreateRowFails(i) \/ CallAborts(i)
           \/ \E c \in Child :
                  RemoveChild(i, c) \/ \E l \in LocalId : AddChild(i, c, l)
    \/ \E g \in Home :
           \/ StartCascade(g)
           \/ \E c \in Child : CascadeStep(g, c) \/ CascadeCallFails(g, c)

\* Invocations run on, and the events are delivered.
BridgeFairness ==
    /\ \A i \in BridgeCall : WF_bridgeVars(CallStep(i))
    /\ \A g \in Home :
           /\ WF_bridgeVars(StartCascade(g))
           /\ \A c \in Child : WF_bridgeVars(CascadeStep(g, c))

BridgeSpec == BridgeInit /\ [][BridgeNext]_bridgeVars /\ BridgeFairness

---------------------------------------------------------------------------
(* Properties *)

BridgeTypeOK ==
    /\ home \in Home \union {NoHome}
    /\ childRow \in [Child -> LocalId \union {NoLocal}]
    /\ childThing \in [Child -> LocalId \union {NoLocal}]
    /\ childHome \in [Child -> Home \union {NoHome}]
    /\ cascades \subseteq Home
    /\ fanout \in [Home -> [Child -> Stage]]
    /\ call \in [BridgeCall -> BridgeJob]
    /\ rough \in BOOLEAN

\* After operations that did not overlap, a failed creation included, a child
\* is whole or not there at all: a row, a thing with the same local id, and a
\* place in the bridge's group, of which none outlives the others.
WholeChildren ==
    ~rough /\ Quiet =>
        \A c \in Child :
            /\ childThing[c] = childRow[c]
            /\ childHome[c] = IF childRow[c] = NoLocal THEN NoHome ELSE home

\* When a bridge has left a group its children leave it too, unless an
\* operation ran beside the move or a call failed.
ChildrenFollow ==
    \A g \in Home, c \in Child :
        home # g /\ childHome[c] = g ~> childHome[c] # g \/ home = g \/ rough
===========================================================================
