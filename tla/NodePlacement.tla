--------------------------- MODULE NodePlacement ---------------------------
(***************************************************************************)
(* Where one node is: the row that puts it in a group, with the slots that *)
(* hold its subgroups, and what follows the row (rmneo/group/group_node.go,*)
(* rmneo/db/group_node_db, rmneo/node/shadow_node.go, rmneo/node/node.go): *)
(* the attribute of its IoT thing, its shadow, the group info its device   *)
(* was sent, and the data its users kept for it.                           *)
(*                                                                         *)
(* A move is a delete and a put of two rows, after a query of an index; an *)
(* update of the subgroups a read and a write.  Every call is a step.      *)
(***************************************************************************)
EXTENDS Integers, FiniteSets

CONSTANTS
    Group, NoGroup,
    Sub, NoSub,         \* the subgroups of these groups
    SlotCount,          \* subgroups a node can be in: 3 in the code
    Invocation,         \* concurrent requests about the node
    Mover,              \* those of them that may add the node to a group
    QueriesMayLag,      \* may a read miss the latest writes?
    CallsMayFail,       \* may a call fail?
    MaxShadows          \* bound: reports start a shadow below this many

ASSUME PlacementConstants ==
    /\ NoGroup \notin Group \union Sub \union {NoSub}
    /\ NoSub \notin Sub
    /\ SlotCount \in Nat \ {0}
    /\ Mover \subseteq Invocation
    /\ MaxShadows \in Nat

VARIABLES
    row,                \* [Group -> the node's row in that group]
    staleRow,           \* [Group -> the row a lagging read returns]
    thingGroup,         \* attribute group_id of the IoT thing
    shadow,             \* names of the node's shadows
    told,               \* the group info the device was sent last
    kept,               \* groups whose users have data kept for the node
    resets,             \* node_data_reset events, by old group
    job,                \* [Invocation -> what it holds]
    trouble             \* history: what kept operations from running alone

follow == <<thingGroup, shadow, told, kept, resets>>
placementVars ==
    <<row, staleRow, thingGroup, shadow, told, kept, resets, job, trouble>>

---------------------------------------------------------------------------
(* Rows *)

Slot == 1 .. SlotCount
Free == [k \in Slot |-> NoSub]
NodeRows == [Slot -> Sub \union {NoSub}]
NoRow == [k \in Slot |-> NoGroup]
Placed(r) == r # NoRow

\* ToNodesGroups: a group with the subgroups tagged, each as often as tagged.
Tags(r) == [s \in Sub |-> Cardinality({k \in Slot : r[k] = s})]
NoTags == [s \in Sub |-> 0]
Membership == [group : Group \union {NoGroup}, tags : [Sub -> 0 .. SlotCount + 1]]
Nowhere == [group |-> NoGroup, tags |-> NoTags]
MembershipIn(g, r) == [group |-> g, tags |-> Tags(r)]

\* subGroupSlotHolding, freeSubGroupSlot: the first such slot, or 0.
FirstSlot(r, s) ==
    IF \E k \in Slot : r[k] = s
    THEN CHOOSE k \in Slot : r[k] = s /\ \A j \in 1 .. k - 1 : r[j] # s
    ELSE 0
SlotHolding(r, s) == FirstSlot(r, s)
FreeSlot(r) == FirstSlot(r, NoSub)

\* What a read of the row in g may return.
RowSeen(g) == {row[g], staleRow[g]}

\* GetNodesGroup: the first match of a query of the by-node index.
GroupsSeen ==
    (UNION {{MembershipIn(g, r) : r \in RowSeen(g) \ {NoRow}} : g \in Group})
    \union
    (IF \A g \in Group : NoRow \in RowSeen(g) THEN {Nowhere} ELSE {})

SetRow(g, r) ==
    /\ row' = [row EXCEPT ![g] = r]
    /\ staleRow' = IF QueriesMayLag THEN staleRow ELSE [staleRow EXCEPT ![g] = r]

CatchUpRow(g) ==
    /\ staleRow[g] # row[g]
    /\ staleRow' = [staleRow EXCEPT ![g] = row[g]]
    /\ UNCHANGED <<row, follow, job, trouble>>

---------------------------------------------------------------------------
(* What an invocation holds: the group it works on, what the node was in   *)
(* when it read, what it will be in, and for an update the slot it chose.  *)

JobPc == {"idle", "leave", "join", "attribute", "shadow", "inform", "reset",
          "drop", "slot"}
Job == [pc : JobPc, group : Group \union {NoGroup}, old : Membership,
        new : Membership, slot : 0 .. SlotCount, sub : Sub \union {NoSub},
        reset : BOOLEAN]
IdleJob == [pc |-> "idle", group |-> NoGroup, old |-> Nowhere, new |-> Nowhere,
            slot |-> 0, sub |-> NoSub, reset |-> FALSE]

PlacementInit ==
    /\ row = [g \in Group |-> NoRow]
    /\ staleRow = [g \in Group |-> NoRow]
    /\ thingGroup = NoGroup
    /\ shadow = {}
    /\ told = Nowhere
    /\ kept = {}
    /\ resets = {}
    /\ job = [i \in Invocation |-> IdleJob]
    /\ trouble = {}

Working(i) == job[i].pc # "idle"
Step(i, pc) == job' = [job EXCEPT ![i].pc = pc]
Done(i) == job' = [job EXCEPT ![i] = IdleJob]

\* An operation starts; history: another one may be under way.
Start(i, j) ==
    /\ job' = [job EXCEPT ![i] = j]
    /\ trouble' = IF \E k \in Invocation : Working(k)
                  THEN trouble \union {"overlap"} ELSE trouble

---------------------------------------------------------------------------
(* group.AddNode and ShadowNodeAddToGroupAuthorized *)

\* The row first, then what follows it; the reset only if a group was left.
AddPlan(g, old) ==
    [IdleJob EXCEPT !.pc = IF old.group = NoGroup THEN "join" ELSE "leave",
        !.group = g, !.old = old, !.new = [group |-> g, tags |-> NoTags],
        !.reset = old.group # NoGroup]

\* Mutant: the row of the old group is left to its own group's members.
AddNodeStaying(i, g) ==
    /\ i \in Mover
    /\ ~Working(i)
    /\ \E old \in GroupsSeen :
           /\ old.group # g
           /\ Start(i, [AddPlan(g, old) EXCEPT !.pc = "join"])
    /\ UNCHANGED <<row, staleRow, follow>>

\* The same group: nothing to do, relevant on a Wi-Fi reconfiguration.
AddNode(i, g) ==
    /\ i \in Mover
    /\ ~Working(i)
    /\ \E old \in GroupsSeen :
           /\ old.group # g
           /\ Start(i, AddPlan(g, old))
    /\ UNCHANGED <<row, staleRow, follow>>

\* RemoveNode of the old group: a delete that allows a missing row.
LeaveOldGroup(i) ==
    /\ job[i].pc = "leave"
    /\ SetRow(job[i].old.group, NoRow)
    /\ Step(i, "join")
    /\ UNCHANGED <<follow, trouble>>

\* AddNode of the new group: an unconditional put of a row without subgroups.
JoinGroup(i) ==
    /\ job[i].pc = "join"
    /\ SetRow(job[i].group, Free)
    /\ Step(i, "attribute")
    /\ UNCHANGED <<follow, trouble>>

---------------------------------------------------------------------------
(* What follows a change of the row: NotifyCleanupGroupAddSync,            *)
(* NotifySubGroupUpdate, NotifyCleaupNodeFromGroupSync.  Their errors are  *)
(* logged and the next call is made.                                       *)

SetThingGroup(i) ==
    /\ job[i].pc = "attribute"
    /\ thingGroup' = job[i].new.group
    /\ Step(i, "shadow")
    /\ UNCHANGED <<row, staleRow, shadow, told, kept, resets, trouble>>

\* Mutant: a shadow is left behind when the node changes group.
MoveShadowLeaving(old, new) ==
    IF old.group # new.group THEN shadow
    ELSE IF old \in shadow THEN (shadow \ {old}) \union {new} ELSE shadow

\* MoveShadow, DeleteShadow: copied only within a group, then the old deleted.
MoveShadow(old, new) ==
    IF old = new THEN shadow
    ELSE IF old.group = new.group /\ old \in shadow
         THEN (shadow \ {old}) \union {new}
         ELSE shadow \ {old}

FollowShadow(i) ==
    /\ job[i].pc = "shadow"
    /\ shadow' = MoveShadow(job[i].old, job[i].new)
    /\ Step(i, "inform")
    /\ UNCHANGED <<row, staleRow, thingGroup, told, kept, resets, trouble>>

\* A node without a group reads its group again before it tells the device.
GroupInfo(m) == IF m.group = NoGroup THEN GroupsSeen ELSE {m}

SendGetGroupInfo(i) ==
    /\ job[i].pc = "inform"
    /\ told' \in GroupInfo(job[i].new)
    /\ IF job[i].reset THEN Step(i, "reset") ELSE Done(i)
    /\ UNCHANGED <<row, staleRow, thingGroup, shadow, kept, resets, trouble>>

\* Mutant: a removal does not reset the node's data, a move does.
ResetAfterMove(i) ==
    /\ job[i].pc = "reset"
    /\ resets' = IF job[i].new = Nowhere THEN resets
                 ELSE resets \union {job[i].old.group}
    /\ Done(i)
    /\ UNCHANGED <<row, staleRow, thingGroup, shadow, told, kept, trouble>>

CleanupNodeFromGroup(i) ==
    /\ job[i].pc = "reset"
    /\ resets' = resets \union {job[i].old.group}
    /\ Done(i)
    /\ UNCHANGED <<row, staleRow, thingGroup, shadow, told, kept, trouble>>

---------------------------------------------------------------------------
(* RemoveNodeAuthorized and ShadowNodeRemoveFromGroupAuthorized *)

\* disassociation, notification, reset.
RemovePlan(g, r) ==
    [IdleJob EXCEPT !.pc = "drop", !.group = g, !.old = MembershipIn(g, r),
        !.reset = TRUE]

RemoveNode(i, g) ==
    /\ ~Working(i)
    /\ \E r \in RowSeen(g) \ {NoRow} : Start(i, RemovePlan(g, r))
    /\ UNCHANGED <<row, staleRow, follow>>

DropRow(i) ==
    /\ job[i].pc = "drop"
    /\ SetRow(job[i].group, NoRow)
    /\ Step(i, "attribute")
    /\ UNCHANGED <<follow, trouble>>

---------------------------------------------------------------------------
(* UpdateNodeAndSubgroup and ShadowNodeUpdateSubGroup *)

Retag(m, s, n) == [m EXCEPT !.tags[s] = @ + n]

\* A tag the row read already holds is not written again.
AddSubGroup(i, g, s) ==
    /\ ~Working(i)
    /\ \E r \in RowSeen(g) \ {NoRow} :
           IF SlotHolding(r, s) # 0
           THEN Start(i, [IdleJob EXCEPT !.pc = "shadow", !.group = g,
                     !.old = Retag(MembershipIn(g, r), s, -1),
                     !.new = MembershipIn(g, r)])
           ELSE /\ FreeSlot(r) # 0
                /\ Start(i, [IdleJob EXCEPT !.pc = "slot", !.group = g,
                       !.sub = s, !.slot = FreeSlot(r)])
    /\ UNCHANGED <<row, staleRow, follow>>

RemoveSubGroup(i, g, s) ==
    /\ ~Working(i)
    /\ \E r \in RowSeen(g) \ {NoRow} :
           /\ SlotHolding(r, s) # 0
           /\ Start(i, [IdleJob EXCEPT !.pc = "slot", !.group = g,
                  !.slot = SlotHolding(r, s),
                  !.old = [group |-> g, tags |-> [NoTags EXCEPT ![s] = 1]]])
    /\ UNCHANGED <<row, staleRow, follow>>

\* The slot is set or cleared; the caller works out what the row was before.
Written(i, g) == [row[g] EXCEPT ![job[i].slot] = job[i].sub]
\* Mutant: the slot's change is applied once more instead of undone.
BeforeRedone(i, m) ==
    IF job[i].sub # NoSub THEN Retag(m, job[i].sub, 1)
    ELSE LET s == CHOOSE x \in Sub : job[i].old.tags[x] = 1 IN Retag(m, s, -1)
Before(i, m) ==
    IF job[i].sub # NoSub THEN Retag(m, job[i].sub, -1)
    ELSE LET s == CHOOSE x \in Sub : job[i].old.tags[x] = 1 IN Retag(m, s, 1)

\* Must exist: a row deleted since the read stays deleted.
WriteSlot(i) ==
    /\ job[i].pc = "slot"
    /\ Placed(row[job[i].group])
    /\ LET g == job[i].group
           m == MembershipIn(g, Written(i, g))
       IN  /\ SetRow(g, Written(i, g))
           /\ job' = [job EXCEPT ![i].pc = "shadow", ![i].new = m,
                                 ![i].old = Before(i, m)]
    /\ UNCHANGED <<follow, trouble>>

SlotRefused(i) ==
    /\ job[i].pc = "slot"
    /\ ~Placed(row[job[i].group])
    /\ Done(i)
    /\ UNCHANGED <<row, staleRow, follow, trouble>>

---------------------------------------------------------------------------
(* Failures, the device, its users, and the reset *)

\* A failed write of the row ends the request; a failed side effect does not.
CallFails(i) ==
    /\ CallsMayFail
    /\ Working(i)
    /\ CASE job[i].pc \in {"leave", "join", "drop", "slot", "reset"} -> Done(i)
         [] job[i].pc = "attribute" -> Step(i, "shadow")
         [] job[i].pc = "shadow" -> Step(i, "inform")
         [] job[i].pc = "inform" ->
                IF job[i].reset THEN Step(i, "reset") ELSE Done(i)
    /\ trouble' = trouble \union {"failure"}
    /\ UNCHANGED <<row, staleRow, follow>>

\* The device reports its parameters into the shadow of the group it knows.
DeviceReports ==
    /\ told.group # NoGroup
    /\ Cardinality(shadow) < MaxShadows
    /\ shadow' = shadow \union {told}
    /\ trouble' = IF \E i \in Invocation : Working(i)
                  THEN trouble \union {"report"} ELSE trouble
    /\ UNCHANGED <<row, staleRow, thingGroup, told, kept, resets, job>>

\* HandleGetGroupInfo, when the device asks.
DeviceAsksGroup ==
    /\ told' \in GroupsSeen
    /\ UNCHANGED <<row, staleRow, thingGroup, shadow, kept, resets, job, trouble>>

\* A member of the node's group stores a schedule, a trigger, an automation.
KeepData(g) ==
    /\ Placed(row[g])
    /\ kept' = kept \union {g}
    /\ UNCHANGED <<row, staleRow, thingGroup, shadow, told, resets, job, trouble>>

\* HandleNodeDataReset deletes what the services keep for the node, whoever
\* it belongs to by the time the event arrives.
HandleNodeDataReset(g) ==
    /\ g \in resets
    /\ resets' = resets \ {g}
    /\ kept' = {}
    /\ UNCHANGED <<row, staleRow, thingGroup, shadow, told, job, trouble>>

---------------------------------------------------------------------------

PlacementStep(i) ==
    \/ LeaveOldGroup(i) \/ JoinGroup(i) \/ DropRow(i)
    \/ WriteSlot(i) \/ SlotRefused(i)
    \/ SetThingGroup(i) \/ FollowShadow(i) \/ SendGetGroupInfo(i)
    \/ CleanupNodeFromGroup(i)

PlacementNext ==
    \/ \E i \in Invocation :
           \/ PlacementStep(i) \/ CallFails(i)
           \/ \E g \in Group :
                  \/ AddNode(i, g) \/ RemoveNode(i, g)
                  \/ \E s \in Sub : AddSubGroup(i, g, s) \/ RemoveSubGroup(i, g, s)
    \/ \E g \in Group : CatchUpRow(g) \/ KeepData(g) \/ HandleNodeDataReset(g)
    \/ DeviceReports \/ DeviceAsksGroup

\* An invocation goes on, and an asynchronous event is delivered.
PlacementFairness ==
    /\ \A i \in Invocation : WF_placementVars(PlacementStep(i))
    /\ \A g \in Group : WF_placementVars(HandleNodeDataReset(g))

PlacementSpec ==
    PlacementInit /\ [][PlacementNext]_placementVars /\ PlacementFairness

---------------------------------------------------------------------------
(* Properties *)

PlacementTypeOK ==
    /\ row \in [Group -> NodeRows \union {NoRow}]
    /\ staleRow \in [Group -> NodeRows \union {NoRow}]
    /\ thingGroup \in Group \union {NoGroup}
    /\ shadow \subseteq Membership
    /\ told \in Membership
    /\ kept \subseteq Group
    /\ resets \subseteq Group
    /\ job \in [Invocation -> Job]
    /\ trouble \subseteq {"overlap", "failure", "report"}

\* "A node can only be in one main group at a time": the delete and the put
\* of a move, its failures in between and the updates of subgroups beside it
\* never leave the node with two rows.
OneGroup ==
    \A g, h \in Group : Placed(row[g]) /\ Placed(row[h]) => g = h

\* Only a move puts the node in a group, and then in none of its subgroups:
\* an update that read the row before the node left does not bring it back.
UpdatesNeverReadmit ==
    [][\A g \in Group :
          ~Placed(row[g]) /\ Placed(row'[g]) => row'[g] = Free]_placementVars

\* Once operations that ran one at a time and met no failure are over, the
\* thing's attribute, the group info sent to the device and the shadow agree
\* with the row, or with its absence.
SettledNode ==
    trouble = {} /\ (\A i \in Invocation : ~Working(i)) =>
        \E m \in {MembershipIn(g, row[g]) : g \in {h \in Group : Placed(row[h])}}
                 \union {Nowhere} :
            /\ m = Nowhere => \A g \in Group : ~Placed(row[g])
            /\ thingGroup = m.group
            /\ told = m
            /\ shadow \subseteq {m}

\* What users of a group kept for the node does not stay after it left them,
\* unless a call failed: the reset of every removal and move is delivered.
OldDataGoes ==
    \A g \in Group :
        g \in kept /\ ~Placed(row[g]) ~>
            g \notin kept \/ Placed(row[g]) \/ "failure" \in trouble
===========================================================================
