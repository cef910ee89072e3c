------------------------- MODULE NodePlacementProofs -------------------------
(***************************************************************************)
(* Proofs about where a node is (NodePlacement), for every value of the    *)
(* constants.                                                              *)
(*                                                                         *)
(* OneGroup is not inductive: a move looks for the group to leave long     *)
(* before it joins the other, and what it found must still be all there is *)
(* (PlacedInv).  That takes one mover and queries that do not lag; with    *)
(* two movers, or lag, TLC finds the node in two groups.                   *)
(*                                                                         *)
(* SettledNode speaks of quiet states only and says nothing of the middle  *)
(* of an operation.  SettledInv says what is there at every call of the    *)
(* one operation under way as long as `trouble` is empty; once two         *)
(* operations have met, or a call has failed where nothing is undone, the  *)
(* premise of the property is false.                                       *)
(***************************************************************************)
EXTENDS NodePlacement, FiniteSetTheorems, WellFoundedInduction, TLAPS

---------------------------------------------------------------------------
(* One group *)

\* At most one request at a time may add the node to a group.
OneMover == \A i, j \in Mover : i = j

JobFields == {"pc", "group", "old", "new", "slot", "sub", "reset"}

\* What a move under way knows of the rows is still so.
PlacedInv ==
    /\ DOMAIN row = Group /\ staleRow = row
    /\ DOMAIN job = Invocation /\ \A i \in Invocation : JobFields \subseteq DOMAIN job[i]
    /\ OneGroup
    /\ \A i \in Invocation :
          /\ job[i].pc \in JobPc
          /\ job[i].pc \in {"leave", "join"} => i \in Mover
          /\ job[i].pc = "leave" =>
                \A g \in Group : Placed(row[g]) => g = job[i].old.group
          /\ job[i].pc = "join" => \A g \in Group : ~Placed(row[g])

\* The jobs after a step of invocation i that neither leaves nor joins next.
OthersGoOn(i) ==
    /\ DOMAIN job' = Invocation /\ \A j \in Invocation : JobFields \subseteq DOMAIN job'[j]
    /\ \A j \in Invocation \ {i} : job'[j] = job[j]
    /\ job'[i].pc \in JobPc \ {"leave", "join"}

\* A step that places the node nowhere new keeps what the moves know.
LEMMA NothingPlaced ==
    ASSUME PlacedInv, NEW i \in Invocation, OthersGoOn(i),
           DOMAIN row' = Group, staleRow' = row',
           \A g \in Group : Placed(row'[g]) => Placed(row[g])
    PROVE  PlacedInv'
BY DEF PlacedInv, OthersGoOn, OneGroup, Placed, NoRow, Slot

\* An invocation that starts what is not a move holds nothing to keep.
LEMMA OtherStarts ==
    ASSUME PlacedInv, NEW i \in Invocation, NEW j,
           JobFields \subseteq DOMAIN j, j.pc \in JobPc \ {"leave", "join"},
           job' = [job EXCEPT ![i] = j]
    PROVE  OthersGoOn(i)
BY DEF PlacedInv, OthersGoOn

\* An invocation that goes on to another call, or is done, is no move at work.
LEMMA OtherGoesOn ==
    ASSUME PlacedInv, NEW i \in Invocation,
           \/ Done(i)
           \/ \E pc \in {"attribute", "shadow", "inform", "reset"} : Step(i, pc)
    PROVE  OthersGoOn(i)
<1>1. CASE Done(i)
  BY <1>1, OtherStarts DEF Done, IdleJob, JobFields, JobPc
<1>2. ASSUME NEW pc \in {"attribute", "shadow", "inform", "reset"}, Step(i, pc)
      PROVE  OthersGoOn(i)
  <2>1. DOMAIN [job[i] EXCEPT !.pc = pc] = DOMAIN job[i]
    OBVIOUS
  <2>2. [job[i] EXCEPT !.pc = pc].pc = pc
    BY DEF PlacedInv, JobFields
  <2>3. job' = [job EXCEPT ![i] = [job[i] EXCEPT !.pc = pc]]
    BY <1>2 DEF Step
  <2> QED BY <2>1, <2>2, <2>3, OtherStarts DEF PlacedInv, JobPc
<1> QED BY <1>1, <1>2

\* Deleting a row, and writing a slot of one that is there, place nothing new.
LEMMA SetPlacesNothing ==
    ASSUME PlacedInv, ~QueriesMayLag, NEW g, NEW r, SetRow(g, r),
           r = NoRow \/ Placed(row[g])
    PROVE  /\ DOMAIN row' = Group /\ staleRow' = row'
           /\ \A h \in Group : Placed(row'[h]) => Placed(row[h])
           /\ \A h \in Group \ {g} : row'[h] = row[h]
           /\ g \in Group => row'[g] = r
BY DEF PlacedInv, SetRow, Placed

\* With queries that do not lag, a mover leaves the one group there is, and
\* joins at once only if there is none.
LEMMA MoverStarts ==
    ASSUME PlacedInv, OneMover, NEW i \in Invocation, NEW g \in Group, AddNode(i, g)
    PROVE  PlacedInv'
<1>1. PICK old \in GroupsSeen : old.group # g /\ Start(i, AddPlan(g, old))
  BY DEF AddNode
<1>2. i \in Mover /\ row' = row /\ staleRow' = staleRow
  BY DEF AddNode
<1> DEFINE j == AddPlan(g, old)
<1>3. /\ JobFields \subseteq DOMAIN j /\ j.old = old
      /\ j.pc = IF old.group = NoGroup THEN "join" ELSE "leave"
  BY DEF AddPlan, IdleJob, JobFields
<1>4. job' = [job EXCEPT ![i] = j]
  BY <1>1 DEF Start
<1>5. ASSUME old.group = NoGroup, NEW h \in Group
      PROVE  ~Placed(row[h])
  <2>1. ASSUME NEW k \in Group, NEW r, old = MembershipIn(k, r)
        PROVE  FALSE
    BY <1>5, <2>1, PlacementConstants DEF MembershipIn
  <2>2. NoRow \in RowSeen(h)
    BY <1>1, <2>1 DEF GroupsSeen
  <2> QED BY <2>2 DEF RowSeen, PlacedInv, Placed
<1>6. ASSUME old.group # NoGroup, NEW h \in Group, Placed(row[h])
      PROVE  h = old.group
  <2>1. PICK k \in Group : \E r \in RowSeen(k) \ {NoRow} : old = MembershipIn(k, r)
    BY <1>1, <1>6 DEF GroupsSeen, Nowhere
  <2>2. Placed(row[k]) /\ old.group = k
    BY <2>1 DEF RowSeen, PlacedInv, Placed, MembershipIn
  <2> QED BY <1>6, <2>2 DEF PlacedInv, OneGroup
<1> HIDE DEF j
<1>7. /\ DOMAIN job' = Invocation /\ \A k \in Invocation : JobFields \subseteq DOMAIN job'[k]
      /\ job'[i] = j /\ \A k \in Invocation \ {i} : job'[k] = job[k]
  BY <1>3, <1>4 DEF PlacedInv
<1> QED BY <1>2, <1>3, <1>5, <1>6, <1>7 DEF PlacedInv, OneGroup, JobPc

\* The old group's row is gone, and there was no other.
LEMMA MoveLeaves ==
    ASSUME PlacedInv, ~QueriesMayLag, OneMover, NEW i \in Invocation, LeaveOldGroup(i)
    PROVE  PlacedInv'
<1> DEFINE g == job[i].old.group
<1>1. SetRow(g, NoRow) /\ Step(i, "join") /\ job[i].pc = "leave"
  BY DEF LeaveOldGroup
<1>2. /\ DOMAIN row' = Group /\ staleRow' = row'
      /\ \A h \in Group : Placed(row'[h]) => Placed(row[h])
      /\ g \in Group => row'[g] = NoRow
  BY <1>1, SetPlacesNothing
<1>3. \A h \in Group : ~Placed(row'[h])
  BY <1>1, <1>2 DEF PlacedInv, Placed
<1>4. /\ DOMAIN job' = Invocation /\ \A k \in Invocation : JobFields \subseteq DOMAIN job'[k]
      /\ job'[i].pc = "join" /\ \A k \in Invocation \ {i} : job'[k] = job[k]
  BY <1>1 DEF Step, PlacedInv, JobFields
<1>5. i \in Mover
  BY <1>1 DEF PlacedInv
<1> QED BY <1>2, <1>3, <1>4, <1>5 DEF PlacedInv, OneGroup, JobPc

\* The node joins when it is nowhere, and no one else is about to place it.
LEMMA MoveJoins ==
    ASSUME PlacedInv, ~QueriesMayLag, OneMover, NEW i \in Invocation, JoinGroup(i)
    PROVE  PlacedInv'
<1> DEFINE g == job[i].group
<1>1. SetRow(g, Free) /\ Step(i, "attribute") /\ job[i].pc = "join"
  BY DEF JoinGroup
<1>2. /\ DOMAIN row' = Group /\ staleRow' = row'
      /\ \A h \in Group \ {g} : ~Placed(row'[h])
  BY <1>1 DEF SetRow, PlacedInv
<1>3. OthersGoOn(i)
  BY <1>1, OtherGoesOn
<1>4. \A k \in Invocation \ {i} : job[k].pc \notin {"leave", "join"}
  BY <1>1 DEF PlacedInv, OneMover
<1> QED BY <1>2, <1>3, <1>4 DEF PlacedInv, OneGroup, OthersGoOn

\* Every other step that touches a row deletes it, or finds it there.
LEMMA OtherRowSteps ==
    ASSUME PlacedInv, ~QueriesMayLag, NEW i \in Invocation, DropRow(i) \/ WriteSlot(i)
    PROVE  PlacedInv'
<1> DEFINE g == job[i].group
<1>1. CASE DropRow(i)
  <2>1. SetRow(g, NoRow) /\ Step(i, "attribute")
    BY <1>1 DEF DropRow
  <2>2. OthersGoOn(i)
    BY <2>1, OtherGoesOn
  <2> QED BY <2>1, <2>2, SetPlacesNothing, NothingPlaced
<1>2. CASE WriteSlot(i)
  <2> DEFINE m == MembershipIn(g, Written(i, g))
             j == [job[i] EXCEPT !.pc = "shadow", !.new = m, !.old = Before(i, m)]
  <2>1. /\ SetRow(g, Written(i, g)) /\ Placed(row[g])
        /\ job' = [job EXCEPT ![i] = j]
    BY <1>2 DEF WriteSlot
  <2>2. JobFields \subseteq DOMAIN j /\ j.pc = "shadow" /\ j.pc \in JobPc
    BY DEF PlacedInv, JobFields, JobPc
  <2>3. OthersGoOn(i)
    <3> HIDE DEF j
    <3> QED BY <2>1, <2>2, OtherStarts
  <2> QED BY <2>1, <2>3, SetPlacesNothing, NothingPlaced
<1> QED BY <1>1, <1>2

\* The starts of a removal and of an update of subgroups.
LEMMA UpdateStarts ==
    ASSUME PlacedInv, NEW i \in Invocation, NEW g \in Group, NEW s \in Sub,
           RemoveNode(i, g) \/ AddSubGroup(i, g, s) \/ RemoveSubGroup(i, g, s)
    PROVE  PlacedInv'
<1>1. row' = row /\ staleRow' = staleRow
  BY DEF RemoveNode, AddSubGroup, RemoveSubGroup
<1>2. OthersGoOn(i)
  <2>1. ASSUME NEW j, Start(i, j), JobFields \subseteq DOMAIN j,
               j.pc \in JobPc \ {"leave", "join"}
        PROVE  OthersGoOn(i)
    BY <2>1, OtherStarts DEF Start
  <2>2. CASE RemoveNode(i, g)
    BY <2>1, <2>2 DEF RemoveNode, RemovePlan, IdleJob, JobFields, JobPc
  <2>3. CASE AddSubGroup(i, g, s)
    BY <2>1, <2>3 DEF AddSubGroup, IdleJob, JobFields, JobPc
  <2>4. CASE RemoveSubGroup(i, g, s)
    BY <2>1, <2>4 DEF RemoveSubGroup, IdleJob, JobFields, JobPc
  <2> QED BY <2>2, <2>3, <2>4
<1> QED BY <1>1, <1>2, NothingPlaced DEF PlacedInv

\* What follows a change of the rows, and every failure, leaves them alone.
LEMMA FollowSteps ==
    ASSUME PlacedInv, NEW i \in Invocation,
           \/ SlotRefused(i) \/ SetThingGroup(i) \/ FollowShadow(i)
           \/ SendGetGroupInfo(i) \/ CleanupNodeFromGroup(i) \/ CallFails(i)
    PROVE  PlacedInv'
<1>1. row' = row /\ staleRow' = staleRow
  BY DEF SlotRefused, SetThingGroup, FollowShadow, SendGetGroupInfo,
         CleanupNodeFromGroup, CallFails
<1>2. CASE CallFails(i)
  <2>1. \/ Done(i)
        \/ Step(i, "shadow") \/ Step(i, "inform") \/ Step(i, "reset")
    <3>1. job[i].pc \in JobPc \ {"idle"}
      BY <1>2 DEF PlacedInv, CallFails, Working
    <3>2. \/ job[i].pc \in {"leave", "join", "drop", "slot", "reset"}
          \/ job[i].pc \in {"attribute", "shadow", "inform"}
      BY <3>1 DEF JobPc
    <3> QED BY <1>2, <3>2 DEF CallFails
  <2> QED BY <1>1, <2>1, OtherGoesOn, NothingPlaced DEF PlacedInv
<1>3. CASE ~CallFails(i)
  <2>1. \/ Done(i)
        \/ Step(i, "shadow") \/ Step(i, "inform") \/ Step(i, "reset")
    BY <1>3 DEF SlotRefused, SetThingGroup, FollowShadow, SendGetGroupInfo,
                CleanupNodeFromGroup
  <2> QED BY <1>1, <2>1, OtherGoesOn, NothingPlaced DEF PlacedInv
<1> QED BY <1>2, <1>3

\* Nothing that is not about a request touches the rows.
LEMMA OutsideSteps ==
    ASSUME PlacedInv, job' = job, row' = row, staleRow' = staleRow
    PROVE  PlacedInv'
BY DEF PlacedInv, OneGroup

\* The node is in no group at the start.
LEMMA PlacedInitial == ASSUME PlacementInit PROVE PlacedInv
<1>1. \A i \in Invocation : job[i] = IdleJob
  BY DEF PlacementInit
<1>2. IdleJob.pc = "idle" /\ JobFields \subseteq DOMAIN IdleJob
  BY DEF IdleJob, JobFields
<1> QED BY <1>1, <1>2 DEF PlacementInit, PlacedInv, OneGroup, Placed, JobPc

\* Every step keeps PlacedInv.
LEMMA PlacedStep ==
    ASSUME OneMover, ~QueriesMayLag, PlacedInv, [PlacementNext]_placementVars
    PROVE  PlacedInv'
<1>1. ASSUME NEW i \in Invocation, PlacementStep(i) \/ CallFails(i)
      PROVE  PlacedInv'
  BY <1>1, MoveLeaves, MoveJoins, OtherRowSteps, FollowSteps DEF PlacementStep
<1>2. ASSUME NEW i \in Invocation, NEW g \in Group,
             \/ RemoveNode(i, g)
             \/ \E s \in Sub : AddSubGroup(i, g, s) \/ RemoveSubGroup(i, g, s)
      PROVE  PlacedInv'
  <2>1. CASE RemoveNode(i, g)
    <3>1. row' = row /\ staleRow' = staleRow
      BY <2>1 DEF RemoveNode
    <3>2. OthersGoOn(i)
      BY <2>1, OtherStarts DEF RemoveNode, RemovePlan, Start, IdleJob, JobFields, JobPc
    <3> QED BY <3>1, <3>2, NothingPlaced DEF PlacedInv
  <2>2. CASE \E s \in Sub : AddSubGroup(i, g, s) \/ RemoveSubGroup(i, g, s)
    BY <2>2, UpdateStarts
  <2> QED BY <1>2, <2>1, <2>2
<1>3. ASSUME NEW g \in Group, CatchUpRow(g) \/ KeepData(g) \/ HandleNodeDataReset(g)
      PROVE  PlacedInv'
  <2>1. ~CatchUpRow(g)
    BY DEF CatchUpRow, PlacedInv
  <2> QED BY <1>3, <2>1, OutsideSteps DEF KeepData, HandleNodeDataReset
<1>4. CASE DeviceReports \/ DeviceAsksGroup \/ UNCHANGED placementVars
  BY <1>4, OutsideSteps DEF DeviceReports, DeviceAsksGroup, placementVars
<1>5. ASSUME NEW i \in Invocation, NEW g \in Group, AddNode(i, g)
      PROVE  PlacedInv'
  BY <1>5, MoverStarts
<1> QED BY <1>1, <1>2, <1>3, <1>4, <1>5 DEF PlacementNext

\* "A node can only be in one main group at a time": while the requests that
\* add it come one at a time and reads do not lag, none of the others and no
\* failure in between gives it two rows (group.AddNode's delete and put).
THEOREM OneGroupAtATime ==
    OneMover /\ ~QueriesMayLag => (PlacementSpec => []OneGroup)
<1> SUFFICES ASSUME OneMover, ~QueriesMayLag PROVE PlacementSpec => []OneGroup
  OBVIOUS
<1>1. PlacedInv => OneGroup
  BY DEF PlacedInv
<1>2. PlacedInv /\ [PlacementNext]_placementVars => PlacedInv'
  BY PlacedStep
<1> QED BY <1>1, <1>2, PlacedInitial, PTL DEF PlacementSpec

\* What keeps rows rows: nothing but the table itself.
RowsKept == DOMAIN row = Group

\* Only the put of a move makes a row where there is none: the write of a slot
\* must find one (UpdateSubGroup's condition), however many requests race.
THEOREM OnlyMovesReadmit == PlacementSpec => UpdatesNeverReadmit
<1>1. PlacementInit => RowsKept
  BY DEF PlacementInit, RowsKept
<1>2. ASSUME RowsKept, PlacementNext, row' # row
      PROVE  \E g, r : SetRow(g, r) /\ (r \in {NoRow, Free} \/ Placed(row[g]))
  <2>1. PICK i \in Invocation : LeaveOldGroup(i) \/ JoinGroup(i) \/ DropRow(i) \/ WriteSlot(i)
    BY <1>2 DEF PlacementNext, PlacementStep, CallFails, AddNode, RemoveNode,
                AddSubGroup, RemoveSubGroup, CatchUpRow, KeepData, HandleNodeDataReset,
                DeviceReports, DeviceAsksGroup, SlotRefused, SetThingGroup,
                FollowShadow, SendGetGroupInfo, CleanupNodeFromGroup
  <2> QED BY <2>1 DEF LeaveOldGroup, JoinGroup, DropRow, WriteSlot
<1>3. RowsKept /\ [PlacementNext]_placementVars => RowsKept'
  <2> SUFFICES ASSUME RowsKept, [PlacementNext]_placementVars, row' # row PROVE RowsKept'
    BY DEF RowsKept
  <2>1. PlacementNext
    BY DEF placementVars
  <2> QED BY <1>2, <2>1 DEF SetRow, RowsKept
<1>4. RowsKept /\ [PlacementNext]_placementVars =>
        [\A g \in Group :
            ~Placed(row[g]) /\ Placed(row'[g]) => row'[g] = Free]_placementVars
  <2> SUFFICES ASSUME RowsKept, PlacementNext, NEW g \in Group,
                      ~Placed(row[g]), Placed(row'[g])
               PROVE  row'[g] = Free
    OBVIOUS
  <2>1. PICK h, r : SetRow(h, r) /\ (r \in {NoRow, Free} \/ Placed(row[h]))
    BY <1>2
  <2> QED BY <2>1 DEF SetRow, RowsKept, Placed
<1> QED BY <1>1, <1>3, <1>4, PTL DEF PlacementSpec, UpdatesNeverReadmit

---------------------------------------------------------------------------
(* The node settles *)

\* The node is in m: the group of its one row, with the tags there, or nowhere.
At(m) ==
    \/ m = Nowhere /\ \A g \in Group : ~Placed(row[g])
    \/ \E g \in Group : Placed(row[g]) /\ m = MembershipIn(g, row[g])

\* What follows the row agrees with it.
Settled == At(told) /\ thingGroup = told.group /\ shadow \subseteq {told}

FreshIn(g) == [group |-> g, tags |-> NoTags]

\* What invocation i knows of the row and what follows it, by its next call.
InOrder(i) ==
    LET j == job[i] IN
    /\ j.pc \in {"leave", "drop", "slot", "reset"} => Settled
    /\ j.pc \in {"leave", "drop"} => j.old = told
    /\ j.pc \in {"leave", "join", "drop", "slot"} => j.group \in Group
    /\ j.pc \in {"leave", "join"} => j.new = FreshIn(j.group)
    /\ j.pc = "leave" => j.old.group \in Group
    /\ j.pc \in {"drop", "slot"} => Placed(row[j.group])
    /\ j.pc = "join" => shadow \subseteq {j.old} /\ \A g \in Group : ~Placed(row[g])
    /\ j.pc = "drop" => j.new = Nowhere
    /\ j.pc = "slot" =>
          /\ j.slot \in Slot
          /\ \/ j.sub \in Sub /\ row[j.group][j.slot] = NoSub
             \/ /\ j.sub = NoSub
                /\ \E s \in Sub : /\ row[j.group][j.slot] = s
                                  /\ j.old.tags = [NoTags EXCEPT ![s] = 1]
    /\ j.pc \in {"attribute", "shadow", "inform"} => At(j.new)
    /\ j.pc \in {"shadow", "inform"} => thingGroup = j.new.group
    /\ j.pc \in {"attribute", "shadow"} => shadow \subseteq {j.old, j.new}
    /\ j.pc = "inform" => shadow \subseteq {j.new}

RowsTidy ==
    /\ row \in [Group -> NodeRows \union {NoRow}]
    /\ staleRow = row
    /\ OneGroup

JobsTidy ==
    /\ DOMAIN job = Invocation
    /\ \A i \in Invocation : JobFields \subseteq DOMAIN job[i] /\ job[i].pc \in JobPc
    /\ \A i, j \in Invocation : Working(i) /\ Working(j) => i = j

\* While operations run one at a time and nothing fails.
Tidy ==
    /\ RowsTidy
    /\ JobsTidy
    /\ \A i \in Invocation : InOrder(i)
    /\ (\A i \in Invocation : ~Working(i)) => Settled

SettledInv == trouble = {} => Tidy

\* Among finitely many slots that qualify there is a first.
LEMMA FirstOfSlots ==
    ASSUME NEW S \in SUBSET Slot, S # {}
    PROVE  \E k \in S : \A j \in 1 .. k - 1 : j \notin S
<1> DEFINE T == {1 .. k : k \in S}
           R == StrictSubsetOrdering(Slot)
<1>1. SlotCount \in Nat /\ S \subseteq Nat
  BY PlacementConstants DEF Slot
<1>2. IsFiniteSet(Slot)
  BY <1>1, FS_Interval DEF Slot
<1>3. IsWellFoundedOn(R, SUBSET Slot)
  BY <1>2, FS_StrictSubsetOrderingWellFounded, FS_FiniteSubsetsOfFinite
<1>4. T \subseteq SUBSET Slot /\ T # {}
  <2>1. ASSUME NEW k \in S
        PROVE  1 .. k \subseteq 1 .. SlotCount
    BY <1>1 DEF Slot
  <2> QED BY <2>1 DEF Slot
<1>5. PICK x \in T : \A y \in T : <<y, x>> \notin R
  <2> HIDE DEF T, R
  <2> QED BY <1>3, <1>4, WFMin
<1>6. PICK k \in S : x = 1 .. k
  OBVIOUS
<1>7. ASSUME NEW j \in 1 .. k - 1, j \in S
      PROVE  FALSE
  <2>1. (1 .. j) \in T /\ (1 .. j) \in SUBSET Slot /\ x \in SUBSET Slot
    <3>1. (1 .. j) \in T
      BY <1>7
    <3> HIDE DEF T
    <3> QED BY <1>4, <3>1
  <2>2. 1 .. j \subseteq 1 .. k /\ k \in 1 .. k /\ k \notin 1 .. j
    BY <1>1, <1>7
  <2>3. <<1 .. j, x>> \in R
    BY <1>6, <2>1, <2>2 DEF StrictSubsetOrdering
  <2> QED BY <1>5, <2>1, <2>3
<1> QED BY <1>7

\* subGroupSlotHolding, freeSubGroupSlot: the slot found holds what was looked for.
LEMMA SlotFound ==
    ASSUME NEW r, NEW s, FirstSlot(r, s) # 0
    PROVE  FirstSlot(r, s) \in Slot /\ r[FirstSlot(r, s)] = s
<1> DEFINE S == {k \in Slot : r[k] = s}
<1>1. \E k \in Slot : r[k] = s
  BY DEF FirstSlot
<1>2. PICK k \in S : \A j \in 1 .. k - 1 : j \notin S
  BY <1>1, FirstOfSlots
<1>3. \A j \in 1 .. k - 1 : j \in Slot
  BY PlacementConstants DEF Slot
<1>4. k \in Slot /\ r[k] = s /\ \A j \in 1 .. k - 1 : r[j] # s
  BY <1>2, <1>3
<1> QED BY <1>1, <1>4 DEF FirstSlot

\* A row is a row: what is in its slots are subgroups, or nothing.
LEMMA RowsArePlaced ==
    /\ \A r \in NodeRows : Placed(r)
    /\ Free \in NodeRows
    /\ Tags(Free) = NoTags
    /\ \A g \in Group : \A r : MembershipIn(g, r) # Nowhere
<1>1. 1 \in Slot
  BY PlacementConstants DEF Slot
<1>2. ASSUME NEW r \in NodeRows
      PROVE  Placed(r)
  BY <1>1, PlacementConstants DEF NodeRows, Placed, NoRow
<1>3. Free \in NodeRows
  BY DEF Free, NodeRows
<1>4. ASSUME NEW s \in Sub
      PROVE  Cardinality({k \in Slot : Free[k] = s}) = 0
  <2>1. {k \in Slot : Free[k] = s} = {}
    BY PlacementConstants DEF Free
  <2> QED BY <2>1, FS_EmptySet
<1>5. \A g \in Group : \A r : MembershipIn(g, r) # Nowhere
  BY PlacementConstants DEF MembershipIn, Nowhere
<1> QED BY <1>2, <1>3, <1>4, <1>5 DEF Tags, NoTags

\* A subgroup put in a free slot is a tag more, and no other tag changes.
LEMMA SlotTagged ==
    ASSUME NEW r \in NodeRows, NEW k \in Slot, r[k] = NoSub, NEW s \in Sub
    PROVE  LET q == [r EXCEPT ![k] = s] IN
           /\ Tags(q)[s] = Tags(r)[s] + 1 /\ Tags(r)[s] \in Nat
           /\ \A x \in Sub \ {s} : Tags(q)[x] = Tags(r)[x]
<1> DEFINE q == [r EXCEPT ![k] = s]
           Held(f, x) == {j \in Slot : f[j] = x}
<1>1. IsFiniteSet(Slot) /\ NoSub \notin Sub
  BY FS_Interval, PlacementConstants DEF Slot
<1>2. Held(q, s) = Held(r, s) \union {k} /\ k \notin Held(r, s)
  BY <1>1 DEF NodeRows
<1>3. \A x \in Sub \ {s} : Held(q, x) = Held(r, x)
  BY <1>1 DEF NodeRows
<1>4. IsFiniteSet(Held(r, s)) /\ Cardinality(Held(r, s)) \in Nat
  BY <1>1, FS_Subset, FS_CardinalityType
<1>5. Cardinality(Held(q, s)) = Cardinality(Held(r, s)) + 1
  <2> HIDE DEF Held
  <2> QED BY <1>2, <1>4, FS_AddElement
<1> QED BY <1>3, <1>4, <1>5 DEF Tags

\* UpdateNodeAndSubgroup works out what the row was before the write: undoing
\* the tag it added, or putting back the one it removed.
LEMMA BeforeIsUndone ==
    ASSUME NEW r \in NodeRows, NEW k \in Slot, r[k] = NoSub, NEW s \in Sub, NEW g
    PROVE  LET q == [r EXCEPT ![k] = s] IN
           /\ Retag(MembershipIn(g, q), s, -1) = MembershipIn(g, r)
           /\ Retag(MembershipIn(g, r), s, 1) = MembershipIn(g, q)
<1>1. PICK q : q = [r EXCEPT ![k] = s]
  OBVIOUS
<1>2. /\ Tags(q)[s] = Tags(r)[s] + 1 /\ Tags(r)[s] \in Nat
      /\ \A x \in Sub \ {s} : Tags(q)[x] = Tags(r)[x]
  BY <1>1, SlotTagged
<1>3. \A f : Tags(f) = [x \in Sub |-> Tags(f)[x]]
  BY DEF Tags
<1>4. [Tags(q) EXCEPT ![s] = @ + -1] = Tags(r)
  BY <1>2, <1>3
<1>5. [Tags(r) EXCEPT ![s] = @ + 1] = Tags(q)
  BY <1>2, <1>3
<1>6. \A f, n : Retag(MembershipIn(g, f), s, n) =
                   [group |-> g, tags |-> [Tags(f) EXCEPT ![s] = @ + n]]
  BY DEF Retag, MembershipIn
<1> QED BY <1>1, <1>4, <1>5, <1>6 DEF MembershipIn

\* With queries that do not lag, what they return is where the node is.
LEMMA SeenIsSo ==
    ASSUME RowsTidy
    PROVE  /\ \A m \in GroupsSeen : At(m)
           /\ \A m, n : At(m) /\ At(n) => m = n
           /\ \A g \in Group : RowSeen(g) = {row[g]}
           /\ \A g \in Group : \A m : Placed(row[g]) /\ At(m) => m = MembershipIn(g, row[g])
<1>1. \A g \in Group : RowSeen(g) = {row[g]}
  BY DEF RowsTidy, RowSeen
<1>2. \A g \in Group : \A m : Placed(row[g]) /\ At(m) => m = MembershipIn(g, row[g])
  BY DEF At, RowsTidy, OneGroup
<1>3. \A m, n : At(m) /\ At(n) => m = n
  BY <1>2 DEF At
<1>4. ASSUME NEW m \in GroupsSeen
      PROVE  At(m)
  <2>1. CASE \E g \in Group : \E r \in RowSeen(g) \ {NoRow} : m = MembershipIn(g, r)
    BY <1>1, <2>1 DEF At, Placed
  <2>2. CASE m = Nowhere /\ \A g \in Group : NoRow \in RowSeen(g)
    BY <1>1, <2>2 DEF At, Placed
  <2> QED BY <2>1, <2>2 DEF GroupsSeen
<1> QED BY <1>1, <1>2, <1>3, <1>4

\* An invocation at work is the only one, and knows what it needs.
LEMMA AtWork ==
    ASSUME Tidy, NEW i \in Invocation
    PROVE  /\ JobFields \subseteq DOMAIN job[i] /\ job[i].pc \in JobPc /\ InOrder(i)
           /\ Working(i) => \A j \in Invocation \ {i} : job[j].pc = "idle"
           /\ \A e : job' = [job EXCEPT ![i] = e] => job'[i] = e
BY DEF Tidy, JobsTidy, Working

\* The one invocation at work goes on in order, or ends with all settled.
LEMMA AloneGoesOn ==
    ASSUME JobsTidy, RowsTidy', NEW i \in Invocation, NEW e, job' = [job EXCEPT ![i] = e],
           \A j \in Invocation \ {i} : job[j].pc = "idle",
           JobFields \subseteq DOMAIN e, e.pc \in JobPc,
           e.pc # "idle" => InOrder(i)', e.pc = "idle" => Settled'
    PROVE  Tidy'
<1>1. /\ DOMAIN job' = Invocation /\ job'[i] = e
      /\ \A j \in Invocation \ {i} : job'[j] = job[j]
  BY DEF JobsTidy
<1>2. JobsTidy'
  BY <1>1 DEF JobsTidy, Working
<1>3. \A j \in Invocation : job'[j].pc = "idle" => InOrder(j)'
  BY DEF InOrder
<1>4. \A j \in Invocation : InOrder(j)'
  BY <1>1, <1>3
<1>5. (\A j \in Invocation : ~Working(j))' => Settled'
  BY <1>1 DEF Working
<1> QED BY <1>2, <1>4, <1>5 DEF Tidy

\* An invocation takes its next step with what it holds, or is done.
LEMMA JobMoves ==
    ASSUME Tidy, NEW i \in Invocation
    PROVE  /\ \A pc : Step(i, pc) =>
                 \E e : /\ job' = [job EXCEPT ![i] = e] /\ JobFields \subseteq DOMAIN e
                       /\ e.pc = pc /\ e.group = job[i].group /\ e.old = job[i].old
                       /\ e.new = job[i].new
           /\ Done(i) => \E e : /\ job' = [job EXCEPT ![i] = e] /\ e.pc = "idle"
                                /\ JobFields \subseteq DOMAIN e
<1>1. ASSUME NEW pc, Step(i, pc)
      PROVE  \E e : /\ job' = [job EXCEPT ![i] = e] /\ JobFields \subseteq DOMAIN e
                    /\ e.pc = pc /\ e.group = job[i].group /\ e.old = job[i].old
                    /\ e.new = job[i].new
  <2>1. PICK e : e = [job[i] EXCEPT !.pc = pc]
    OBVIOUS
  <2>2. /\ JobFields \subseteq DOMAIN e /\ e.pc = pc /\ e.group = job[i].group
        /\ e.old = job[i].old /\ e.new = job[i].new
    BY <2>1, AtWork DEF JobFields
  <2>3. job' = [job EXCEPT ![i] = e]
    BY <1>1, <2>1 DEF Step
  <2> QED BY <2>2, <2>3
<1>2. IdleJob.pc = "idle" /\ JobFields \subseteq DOMAIN IdleJob
  BY DEF IdleJob, JobFields
<1> QED BY <1>1, <1>2 DEF Done

\* An operation starts when no other is under way, or that is noted.
LEMMA StartKeeps ==
    ASSUME Tidy, trouble = {}, trouble' = {}, NEW i \in Invocation, NEW e, Start(i, e),
           UNCHANGED <<row, staleRow, follow>>,
           JobFields \subseteq DOMAIN e, e.pc \in JobPc \ {"idle"},
           Settled => InOrder(i)'
    PROVE  Tidy'
<1>1. /\ job' = [job EXCEPT ![i] = e]
      /\ ~\E k \in Invocation : Working(k)
  BY DEF Start
<1>2. Settled
  BY <1>1 DEF Tidy
<1>3. RowsTidy'
  BY DEF Tidy, RowsTidy, OneGroup
<1> QED BY <1>1, <1>2, <1>3, AloneGoesOn DEF Tidy, Working

\* A move starts: with the group to leave, or with none.
LEMMA MoveStarts ==
    ASSUME Tidy, trouble = {}, trouble' = {}, NEW i \in Invocation, NEW g \in Group,
           AddNode(i, g)
    PROVE  Tidy'
<1>1. PICK old \in GroupsSeen : old.group # g /\ Start(i, AddPlan(g, old))
  BY DEF AddNode
<1>2. UNCHANGED <<row, staleRow, follow>>
  BY DEF AddNode
<1>3. PICK e : e = AddPlan(g, old)
  OBVIOUS
<1>4. /\ JobFields \subseteq DOMAIN e /\ e.old = old /\ e.group = g /\ e.new = FreshIn(g)
      /\ e.pc = IF old.group = NoGroup THEN "join" ELSE "leave"
  BY <1>3 DEF AddPlan, IdleJob, JobFields, FreshIn
<1>5. job'[i] = e
  BY <1>1, <1>3, AtWork DEF Start
<1>6. At(old) /\ \A m : At(m) => m = old
  BY SeenIsSo DEF Tidy
<1>7. old.group = NoGroup => \A h \in Group : ~Placed(row[h])
  BY <1>6, PlacementConstants DEF At, MembershipIn
<1>8. old.group # NoGroup => old.group \in Group
  BY <1>6 DEF At, MembershipIn, Nowhere
<1>9. UNCHANGED <<row, thingGroup, shadow, told>>
  BY <1>2 DEF follow
<1>10. ASSUME Settled
       PROVE  InOrder(i)'
  <2>1. told = old /\ shadow \subseteq {old} /\ Settled'
    BY <1>6, <1>9, <1>10 DEF Settled, At
  <2> QED BY <1>4, <1>5, <1>7, <1>8, <1>9, <2>1 DEF InOrder
<1> QED BY <1>1, <1>2, <1>3, <1>4, <1>10, StartKeeps DEF JobPc

\* A removal starts in the group the node is in.
LEMMA RemovalStarts ==
    ASSUME Tidy, trouble = {}, trouble' = {}, NEW i \in Invocation, NEW g \in Group,
           RemoveNode(i, g)
    PROVE  Tidy'
<1>1. PICK r \in RowSeen(g) \ {NoRow} : Start(i, RemovePlan(g, r))
  BY DEF RemoveNode
<1>2. UNCHANGED <<row, staleRow, follow>>
  BY DEF RemoveNode
<1>3. PICK e : e = RemovePlan(g, r)
  OBVIOUS
<1>4. /\ JobFields \subseteq DOMAIN e /\ e.old = MembershipIn(g, r) /\ e.group = g
      /\ e.new = Nowhere /\ e.pc = "drop"
  BY <1>3 DEF RemovePlan, IdleJob, JobFields
<1>5. job'[i] = e
  BY <1>1, <1>3, AtWork DEF Start
<1>6. /\ r = row[g] /\ Placed(row[g])
      /\ \A m : At(m) => m = MembershipIn(g, r)
  BY <1>1, SeenIsSo DEF Tidy, Placed
<1>7. UNCHANGED <<row, thingGroup, shadow, told>>
  BY <1>2 DEF follow
<1>8. ASSUME Settled
      PROVE  InOrder(i)'
  <2>1. told = MembershipIn(g, r) /\ Settled'
    BY <1>6, <1>7, <1>8 DEF Settled, At
  <2> QED BY <1>4, <1>5, <1>6, <1>7, <2>1 DEF InOrder
<1> QED BY <1>1, <1>2, <1>3, <1>4, <1>8, StartKeeps DEF JobPc

\* A subgroup is added: the tag is there already, or a slot is free.
LEMMA AdditionStarts ==
    ASSUME Tidy, trouble = {}, trouble' = {}, NEW i \in Invocation, NEW g \in Group,
           NEW s \in Sub, AddSubGroup(i, g, s)
    PROVE  Tidy'
<1>1. PICK r \in RowSeen(g) \ {NoRow} :
         IF SlotHolding(r, s) # 0
         THEN Start(i, [IdleJob EXCEPT !.pc = "shadow", !.group = g,
                   !.old = Retag(MembershipIn(g, r), s, -1),
                   !.new = MembershipIn(g, r)])
         ELSE /\ FreeSlot(r) # 0
              /\ Start(i, [IdleJob EXCEPT !.pc = "slot", !.group = g,
                     !.sub = s, !.slot = FreeSlot(r)])
  BY DEF AddSubGroup
<1>2. UNCHANGED <<row, staleRow, follow>> /\ UNCHANGED <<row, thingGroup, shadow, told>>
  BY DEF AddSubGroup, follow
<1>3. /\ r = row[g] /\ Placed(row[g]) /\ At(MembershipIn(g, r))
      /\ \A m : At(m) => m = MembershipIn(g, r)
  BY <1>1, SeenIsSo DEF Tidy, Placed, At
<1>4. CASE SlotHolding(r, s) # 0
  <2>1. PICK e : e = [IdleJob EXCEPT !.pc = "shadow", !.group = g,
                        !.old = Retag(MembershipIn(g, r), s, -1),
                        !.new = MembershipIn(g, r)]
    OBVIOUS
  <2>2. /\ JobFields \subseteq DOMAIN e /\ e.pc = "shadow"
        /\ e.new = MembershipIn(g, r)
    BY <2>1 DEF IdleJob, JobFields
  <2>3. Start(i, e)
    BY <1>1, <1>4, <2>1
  <2>4. job'[i] = e
    BY <2>3, AtWork DEF Start
  <2>5. At(MembershipIn(g, r))'
    BY <1>2, <1>3 DEF At
  <2>6. ASSUME Settled
        PROVE  InOrder(i)'
    <3>1. thingGroup' = MembershipIn(g, r).group /\ shadow' \subseteq {MembershipIn(g, r)}
      BY <1>2, <1>3, <2>6 DEF Settled
    <3> QED BY <2>2, <2>4, <2>5, <3>1 DEF InOrder
  <2> QED BY <1>2, <2>2, <2>3, <2>6, StartKeeps DEF JobPc
<1>5. CASE SlotHolding(r, s) = 0
  <2>1. PICK e : e = [IdleJob EXCEPT !.pc = "slot", !.group = g,
                        !.sub = s, !.slot = FreeSlot(r)]
    OBVIOUS
  <2>2. /\ JobFields \subseteq DOMAIN e /\ e.pc = "slot" /\ e.group = g
        /\ e.sub = s /\ e.slot = FreeSlot(r)
    BY <2>1 DEF IdleJob, JobFields
  <2>3. Start(i, e) /\ FreeSlot(r) # 0
    BY <1>1, <1>5, <2>1
  <2>4. job'[i] = e
    BY <2>3, AtWork DEF Start
  <2>5. FreeSlot(r) \in Slot /\ r[FreeSlot(r)] = NoSub
    BY <2>3, SlotFound DEF FreeSlot
  <2>6. ASSUME Settled
        PROVE  InOrder(i)'
    <3>1. Settled'
      BY <1>2, <2>6 DEF Settled, At
    <3> QED BY <1>2, <1>3, <2>2, <2>4, <2>5, <3>1 DEF InOrder
  <2> QED BY <1>2, <2>2, <2>3, <2>6, StartKeeps DEF JobPc
<1> QED BY <1>4, <1>5

\* A subgroup is removed from the slot that holds it.
LEMMA RemovalOfTagStarts ==
    ASSUME Tidy, trouble = {}, trouble' = {}, NEW i \in Invocation, NEW g \in Group,
           NEW s \in Sub, RemoveSubGroup(i, g, s)
    PROVE  Tidy'
<1>1. PICK r \in RowSeen(g) \ {NoRow} :
         /\ SlotHolding(r, s) # 0
         /\ Start(i, [IdleJob EXCEPT !.pc = "slot", !.group = g,
                !.slot = SlotHolding(r, s),
                !.old = [group |-> g, tags |-> [NoTags EXCEPT ![s] = 1]]])
  BY DEF RemoveSubGroup
<1>2. UNCHANGED <<row, staleRow, follow>> /\ UNCHANGED <<row, thingGroup, shadow, told>>
  BY DEF RemoveSubGroup, follow
<1>3. r = row[g] /\ Placed(row[g])
  BY <1>1, SeenIsSo DEF Tidy, Placed
<1>4. PICK e : e = [IdleJob EXCEPT !.pc = "slot", !.group = g,
                      !.slot = SlotHolding(r, s),
                      !.old = [group |-> g, tags |-> [NoTags EXCEPT ![s] = 1]]]
  OBVIOUS
<1>5. /\ JobFields \subseteq DOMAIN e /\ e.pc = "slot" /\ e.group = g /\ e.sub = NoSub
      /\ e.slot = SlotHolding(r, s) /\ e.old.tags = [NoTags EXCEPT ![s] = 1]
  BY <1>4 DEF IdleJob, JobFields
<1>6. Start(i, e)
  BY <1>1, <1>4
<1>7. job'[i] = e
  BY <1>6, AtWork DEF Start
<1>8. SlotHolding(r, s) \in Slot /\ r[SlotHolding(r, s)] = s
  BY <1>1, SlotFound DEF SlotHolding
<1>9. ASSUME Settled
      PROVE  InOrder(i)'
  <2>1. Settled'
    BY <1>2, <1>9 DEF Settled, At
  <2> QED BY <1>2, <1>3, <1>5, <1>7, <1>8, <2>1 DEF InOrder
<1> QED BY <1>2, <1>5, <1>6, <1>9, StartKeeps DEF JobPc

\* A write of one row, without lag, that leaves at most one row.
LEMMA RowWritten ==
    ASSUME RowsTidy, ~QueriesMayLag, NEW g \in Group, NEW r \in NodeRows \union {NoRow},
           SetRow(g, r), r = NoRow \/ \A h \in Group \ {g} : ~Placed(row[h])
    PROVE  /\ RowsTidy' /\ row'[g] = r
           /\ \A h \in Group \ {g} : row'[h] = row[h]
<1>1. row' = [row EXCEPT ![g] = r] /\ staleRow' = row'
  BY DEF SetRow, RowsTidy
<1>2. row'[g] = r /\ \A h \in Group \ {g} : row'[h] = row[h]
  BY <1>1 DEF RowsTidy
<1>3. row' \in [Group -> NodeRows \union {NoRow}]
  BY <1>1 DEF RowsTidy
<1>4. OneGroup'
  BY <1>2 DEF RowsTidy, OneGroup, Placed
<1> QED BY <1>1, <1>2, <1>3, <1>4 DEF RowsTidy

\* The one row there is goes: the node is nowhere.
LEMMA RowDeleted ==
    ASSUME RowsTidy, ~QueriesMayLag, NEW g \in Group, Placed(row[g]), SetRow(g, NoRow)
    PROVE  RowsTidy' /\ \A h \in Group : ~Placed(row'[h])
<1>1. /\ RowsTidy' /\ row'[g] = NoRow
      /\ \A h \in Group \ {g} : row'[h] = row[h]
  BY RowWritten
<1> QED BY <1>1 DEF RowsTidy, OneGroup, Placed

\* The row of the old group goes, then that of the new one is put.
LEMMA MoveKeeps ==
    ASSUME Tidy, ~QueriesMayLag, NEW i \in Invocation, LeaveOldGroup(i) \/ JoinGroup(i)
    PROVE  Tidy'
<1>0. RowsTidy /\ JobsTidy
  BY DEF Tidy
<1>1. CASE LeaveOldGroup(i)
  <2>1. /\ job[i].pc = "leave" /\ Working(i) /\ SetRow(job[i].old.group, NoRow)
        /\ Step(i, "join") /\ UNCHANGED <<thingGroup, shadow, told>>
    BY <1>1 DEF LeaveOldGroup, follow, Working
  <2>2. /\ job[i].old.group \in Group /\ Settled /\ job[i].old = told
        /\ job[i].group \in Group /\ job[i].new = FreshIn(job[i].group)
    BY <2>1, AtWork DEF InOrder
  <2>3. Placed(row[job[i].old.group])
    BY <2>2, PlacementConstants DEF Settled, At, Nowhere, MembershipIn
  <2>4. RowsTidy' /\ \A h \in Group : ~Placed(row'[h])
    BY <1>0, <2>1, <2>2, <2>3, RowDeleted
  <2>5. PICK e : /\ job' = [job EXCEPT ![i] = e] /\ JobFields \subseteq DOMAIN e
                 /\ e.pc = "join" /\ e.group = job[i].group /\ e.old = job[i].old
                 /\ e.new = job[i].new
    BY <2>1, JobMoves
  <2>6. job'[i] = e
    BY <2>5, AtWork
  <2>7. InOrder(i)'
    BY <2>1, <2>2, <2>4, <2>5, <2>6 DEF InOrder, Settled, FreshIn, NoTags
  <2> QED BY <1>0, <2>1, <2>4, <2>5, <2>7, AtWork, AloneGoesOn DEF JobPc
<1>2. CASE JoinGroup(i)
  <2>1. /\ job[i].pc = "join" /\ Working(i) /\ SetRow(job[i].group, Free)
        /\ Step(i, "attribute") /\ UNCHANGED <<thingGroup, shadow, told>>
    BY <1>2 DEF JoinGroup, follow, Working
  <2>2. PICK g \in Group : g = job[i].group
    BY <2>1, AtWork DEF InOrder
  <2>3. /\ job[i].new = FreshIn(g) /\ shadow \subseteq {job[i].old}
        /\ \A h \in Group : ~Placed(row[h])
    BY <2>1, <2>2, AtWork DEF InOrder
  <2>4. RowsTidy' /\ row'[g] = Free
    BY <1>0, <2>1, <2>2, <2>3, RowWritten, RowsArePlaced
  <2>5. PICK e : /\ job' = [job EXCEPT ![i] = e] /\ JobFields \subseteq DOMAIN e
                 /\ e.pc = "attribute" /\ e.old = job[i].old /\ e.new = job[i].new
    BY <2>1, JobMoves
  <2>6. job'[i] = e
    BY <2>5, AtWork
  <2>7. MembershipIn(g, row'[g]) = FreshIn(g) /\ Placed(row'[g])
    BY <2>4, RowsArePlaced DEF MembershipIn, FreshIn
  <2>8. At(job[i].new)'
    BY <2>3, <2>5, <2>6, <2>7 DEF At
  <2>9. InOrder(i)'
    BY <2>1, <2>3, <2>5, <2>6, <2>8 DEF InOrder
  <2> QED BY <1>0, <2>1, <2>4, <2>5, <2>9, AtWork, AloneGoesOn DEF JobPc
<1> QED BY <1>1, <1>2

\* A removal deletes the one row.
LEMMA DropKeeps ==
    ASSUME Tidy, ~QueriesMayLag, NEW i \in Invocation, DropRow(i)
    PROVE  Tidy'
<1>0. RowsTidy /\ JobsTidy
  BY DEF Tidy
<1>1. /\ job[i].pc = "drop" /\ Working(i) /\ SetRow(job[i].group, NoRow)
      /\ Step(i, "attribute") /\ UNCHANGED <<thingGroup, shadow, told>>
  BY DEF DropRow, follow, Working
<1>2. /\ job[i].group \in Group /\ Placed(row[job[i].group])
      /\ Settled /\ job[i].old = told /\ job[i].new = Nowhere
  BY <1>1, AtWork DEF InOrder
<1>3. RowsTidy' /\ \A h \in Group : ~Placed(row'[h])
  BY <1>0, <1>1, <1>2, RowDeleted
<1>4. PICK e : /\ job' = [job EXCEPT ![i] = e] /\ JobFields \subseteq DOMAIN e
               /\ e.pc = "attribute" /\ e.old = job[i].old /\ e.new = job[i].new
  BY <1>1, JobMoves
<1>5. job'[i] = e
  BY <1>4, AtWork
<1>6. At(job[i].new)'
  BY <1>2, <1>3, <1>4, <1>5 DEF At, Nowhere, NoTags
<1>7. InOrder(i)'
  BY <1>1, <1>2, <1>4, <1>5, <1>6 DEF InOrder, Settled
<1> QED BY <1>0, <1>1, <1>3, <1>4, <1>7, AtWork, AloneGoesOn DEF JobPc

\* A subgroup is written into its slot, and the row before it worked out.
LEMMA WriteKeeps ==
    ASSUME Tidy, ~QueriesMayLag, NEW i \in Invocation, WriteSlot(i)
    PROVE  Tidy'
<1>0. RowsTidy /\ JobsTidy
  BY DEF Tidy
<1>1. /\ job[i].pc = "slot" /\ Working(i) /\ UNCHANGED <<thingGroup, shadow, told>>
  BY DEF WriteSlot, follow, Working
<1>2. PICK g \in Group : g = job[i].group
  BY <1>1, AtWork DEF InOrder
<1>3. PICK k \in Slot : k = job[i].slot
  BY <1>1, AtWork DEF InOrder
<1>4. Placed(row[g]) /\ Settled
  BY <1>1, <1>2, AtWork DEF InOrder
<1>5. told = MembershipIn(g, row[g])
  BY <1>0, <1>4, SeenIsSo DEF Settled
<1>6. row[g] \in NodeRows
  BY <1>0, <1>4 DEF RowsTidy, Placed
<1>7. PICK q : q = Written(i, g)
  OBVIOUS
<1>8. q = [row[g] EXCEPT ![k] = job[i].sub]
  BY <1>3, <1>7 DEF Written
<1>9. q \in NodeRows /\ Before(i, MembershipIn(g, q)) = MembershipIn(g, row[g])
  <2>1. CASE job[i].sub \in Sub /\ row[g][k] = NoSub
    <3>1. q \in NodeRows
      BY <1>6, <1>8, <2>1 DEF NodeRows
    <3>2. Before(i, MembershipIn(g, q)) = Retag(MembershipIn(g, q), job[i].sub, -1)
      BY <2>1, PlacementConstants DEF Before
    <3> QED BY <1>6, <1>8, <2>1, <3>1, <3>2, BeforeIsUndone
  <2>2. ASSUME NEW s \in Sub, job[i].sub = NoSub, row[g][k] = s,
               job[i].old.tags = [NoTags EXCEPT ![s] = 1]
        PROVE  q \in NodeRows /\ Before(i, MembershipIn(g, q)) = MembershipIn(g, row[g])
    <3>1. q \in NodeRows /\ q[k] = NoSub /\ row[g] = [q EXCEPT ![k] = s]
      BY <1>6, <1>8, <2>2 DEF NodeRows
    <3>2. \A x \in Sub : job[i].old.tags[x] = 1 <=> x = s
      BY <2>2 DEF NoTags
    <3>3. (CHOOSE x \in Sub : job[i].old.tags[x] = 1) = s
      BY <3>2
    <3>4. Before(i, MembershipIn(g, q)) = Retag(MembershipIn(g, q), s, 1)
      BY <2>2, <3>3 DEF Before
    <3> QED BY <3>1, <3>4, BeforeIsUndone
  <2> QED BY <1>1, <1>2, <1>3, <2>1, <2>2, AtWork DEF InOrder
<1>10. PICK e : e = [job[i] EXCEPT !.pc = "shadow", !.new = MembershipIn(g, q),
                        !.old = Before(i, MembershipIn(g, q))]
  OBVIOUS
<1>11. /\ SetRow(g, q) /\ job' = [job EXCEPT ![i] = e]
  BY <1>2, <1>7, <1>10 DEF WriteSlot
<1>12. /\ JobFields \subseteq DOMAIN e /\ e.pc = "shadow"
       /\ e.new = MembershipIn(g, q) /\ e.old = MembershipIn(g, row[g])
  BY <1>9, <1>10, AtWork DEF JobFields
<1>13. job'[i] = e
  BY <1>11, AtWork
<1>14. RowsTidy' /\ row'[g] = q /\ Placed(row'[g])
  BY <1>0, <1>4, <1>9, <1>11, RowWritten, RowsArePlaced DEF RowsTidy, OneGroup
<1>15. At(job[i].new)'
  BY <1>12, <1>13, <1>14 DEF At
<1>16. InOrder(i)'
  <2>1. thingGroup' = g /\ shadow' \subseteq {MembershipIn(g, row[g])}
    BY <1>1, <1>4, <1>5 DEF Settled, MembershipIn
  <2>2. MembershipIn(g, q).group = g
    BY DEF MembershipIn
  <2> QED BY <1>12, <1>13, <1>15, <2>1, <2>2 DEF InOrder
<1> QED BY <1>0, <1>1, <1>11, <1>12, <1>14, <1>16, AtWork, AloneGoesOn DEF JobPc

\* The thing's attribute, the shadow and the device follow the row in turn.
LEMMA FollowKeeps ==
    ASSUME Tidy, NEW i \in Invocation,
           \/ SetThingGroup(i) \/ FollowShadow(i) \/ SendGetGroupInfo(i)
           \/ CleanupNodeFromGroup(i) \/ SlotRefused(i)
    PROVE  Tidy'
<1>0. RowsTidy /\ JobsTidy
  BY DEF Tidy
<1>1. UNCHANGED <<row, staleRow>> /\ RowsTidy'
  <2>1. UNCHANGED <<row, staleRow>>
    BY DEF SetThingGroup, FollowShadow, SendGetGroupInfo, CleanupNodeFromGroup,
           SlotRefused
  <2> QED BY <1>0, <2>1 DEF RowsTidy, OneGroup
<1>2. \A m : At(m) => At(m)'
  BY <1>1 DEF At
<1>3. CASE SetThingGroup(i)
  <2>1. /\ job[i].pc = "attribute" /\ Working(i) /\ Step(i, "shadow")
        /\ thingGroup' = job[i].new.group /\ UNCHANGED <<shadow, told>>
    BY <1>3 DEF SetThingGroup, Working
  <2>2. At(job[i].new) /\ shadow \subseteq {job[i].old, job[i].new}
    BY <2>1, AtWork DEF InOrder
  <2>3. PICK e : /\ job' = [job EXCEPT ![i] = e] /\ JobFields \subseteq DOMAIN e
                 /\ e.pc = "shadow" /\ e.old = job[i].old /\ e.new = job[i].new
    BY <2>1, JobMoves
  <2>4. job'[i] = e
    BY <2>3, AtWork
  <2>5. At(job[i].new)'
    BY <1>1, <2>2, <2>3, <2>4 DEF At
  <2>6. InOrder(i)'
    BY <2>1, <2>2, <2>3, <2>4, <2>5 DEF InOrder
  <2> QED BY <1>0, <1>1, <2>1, <2>3, <2>6, AtWork, AloneGoesOn DEF JobPc
<1>4. CASE FollowShadow(i)
  <2>1. /\ job[i].pc = "shadow" /\ Working(i) /\ Step(i, "inform")
        /\ shadow' = MoveShadow(job[i].old, job[i].new) /\ UNCHANGED <<thingGroup, told>>
    BY <1>4 DEF FollowShadow, Working
  <2>2. /\ At(job[i].new) /\ shadow \subseteq {job[i].old, job[i].new}
        /\ thingGroup = job[i].new.group
    BY <2>1, AtWork DEF InOrder
  <2>3. shadow' \subseteq {job[i].new}
    BY <2>1, <2>2 DEF MoveShadow
  <2>4. PICK e : /\ job' = [job EXCEPT ![i] = e] /\ JobFields \subseteq DOMAIN e
                 /\ e.pc = "inform" /\ e.old = job[i].old /\ e.new = job[i].new
    BY <2>1, JobMoves
  <2>5. job'[i] = e
    BY <2>4, AtWork
  <2>6. At(job[i].new)'
    BY <1>1, <2>2, <2>4, <2>5 DEF At
  <2>7. InOrder(i)'
    BY <2>1, <2>2, <2>3, <2>4, <2>5, <2>6 DEF InOrder
  <2> QED BY <1>0, <1>1, <2>1, <2>4, <2>7, AtWork, AloneGoesOn DEF JobPc
<1>5. CASE SendGetGroupInfo(i)
  <2>1. /\ job[i].pc = "inform" /\ Working(i) /\ told' \in GroupInfo(job[i].new)
        /\ Step(i, "reset") \/ Done(i)
        /\ UNCHANGED <<thingGroup, shadow>>
    BY <1>5 DEF SendGetGroupInfo, Working
  <2>2. /\ At(job[i].new) /\ shadow \subseteq {job[i].new}
        /\ thingGroup = job[i].new.group
    BY <2>1, AtWork DEF InOrder
  <2>3. told' = job[i].new
    BY <1>0, <2>1, <2>2, SeenIsSo DEF GroupInfo
  <2>4. Settled'
    BY <1>1, <2>1, <2>2, <2>3 DEF Settled, At
  <2>5. PICK e : /\ job' = [job EXCEPT ![i] = e] /\ JobFields \subseteq DOMAIN e
                 /\ e.pc \in {"reset", "idle"}
    BY <2>1, JobMoves
  <2>6. job'[i] = e
    BY <2>5, AtWork
  <2>7. e.pc # "idle" => InOrder(i)'
    BY <2>4, <2>5, <2>6 DEF InOrder
  <2> QED BY <1>0, <1>1, <2>1, <2>4, <2>5, <2>7, AtWork, AloneGoesOn DEF JobPc
<1>6. CASE CleanupNodeFromGroup(i)
  <2>1. /\ job[i].pc = "reset" /\ Working(i) /\ Done(i)
        /\ UNCHANGED <<thingGroup, shadow, told>>
    BY <1>6 DEF CleanupNodeFromGroup, Working
  <2>2. Settled
    BY <2>1, AtWork DEF InOrder
  <2>3. Settled'
    BY <1>1, <2>1, <2>2 DEF Settled, At
  <2>4. PICK e : /\ job' = [job EXCEPT ![i] = e] /\ JobFields \subseteq DOMAIN e
                 /\ e.pc = "idle"
    BY <2>1, JobMoves
  <2> QED BY <1>0, <1>1, <2>1, <2>3, <2>4, AtWork, AloneGoesOn DEF JobPc
<1>7. CASE SlotRefused(i)
  BY <1>7, AtWork DEF SlotRefused, InOrder
<1> QED BY <1>3, <1>4, <1>5, <1>6, <1>7

\* The device that asks is told where the node is.
LEMMA AskingKeeps ==
    ASSUME Tidy, DeviceAsksGroup
    PROVE  Tidy'
<1>1. /\ told' \in GroupsSeen
      /\ UNCHANGED <<row, staleRow, thingGroup, shadow, job>>
  BY DEF DeviceAsksGroup
<1>2. RowsTidy /\ JobsTidy /\ RowsTidy' /\ JobsTidy'
  BY <1>1 DEF Tidy, RowsTidy, JobsTidy, OneGroup, Working
<1>3. ASSUME Settled
      PROVE  Settled' /\ told' = told
  <2>1. told' = told
    <3>1. PICK m \in GroupsSeen : m = told'
      BY <1>1
    <3> QED BY <1>2, <1>3, <3>1, SeenIsSo DEF Settled
  <2> QED BY <1>1, <1>3, <2>1 DEF Settled, At
<1>4. \A m : At(m) => At(m)'
  BY <1>1 DEF At
<1>5. ASSUME NEW i \in Invocation
      PROVE  InOrder(i)'
  <2>1. InOrder(i)
    BY DEF Tidy
  <2>2. At(job[i].new) => At(job[i].new)'
    BY <1>1 DEF At
  <2> QED BY <1>1, <1>3, <2>1, <2>2 DEF InOrder
<1>6. (\A i \in Invocation : ~Working(i))' => Settled'
  BY <1>1, <1>3 DEF Tidy, Working
<1> QED BY <1>2, <1>5, <1>6 DEF Tidy

\* The device's report makes a shadow of what it was told.
LEMMA ReportKeeps ==
    ASSUME Tidy, trouble = {}, trouble' = {}, DeviceReports
    PROVE  Tidy'
<1>1. /\ shadow' = shadow \union {told} /\ \A i \in Invocation : ~Working(i)
      /\ UNCHANGED <<row, staleRow, thingGroup, told, job>>
  BY DEF DeviceReports
<1>2. RowsTidy' /\ JobsTidy'
  BY <1>1 DEF Tidy, RowsTidy, JobsTidy, OneGroup, Working
<1>3. Settled'
  BY <1>1 DEF Tidy, Settled, At
<1>4. \A i \in Invocation : InOrder(i)'
  BY <1>1 DEF InOrder, Working
<1> QED BY <1>2, <1>3, <1>4 DEF Tidy

\* What the invariant is about stays.
LEMMA TidyStays ==
    ASSUME Tidy, UNCHANGED <<row, staleRow, thingGroup, shadow, told, job>>
    PROVE  Tidy'
<1>1. RowsTidy' /\ JobsTidy'
  BY DEF Tidy, RowsTidy, JobsTidy, OneGroup, Working
<1>2. Settled => Settled'
  BY DEF Settled, At
<1>3. ASSUME NEW i \in Invocation
      PROVE  InOrder(i)'
  <2>1. At(job[i].new) => At(job[i].new)'
    BY DEF At
  <2> QED BY <1>2, <2>1 DEF Tidy, InOrder
<1> QED BY <1>1, <1>2, <1>3 DEF Tidy, Working

\* Every step keeps the invariant.
LEMMA SettledStep ==
    ASSUME ~QueriesMayLag, SettledInv, [PlacementNext]_placementVars
    PROVE  SettledInv'
<1> SUFFICES ASSUME trouble' = {} PROVE Tidy'
  BY DEF SettledInv
<1>1. trouble = {}
  <2>1. ASSUME NEW i \in Invocation, PlacementStep(i)
        PROVE  trouble = {}
    BY <2>1 DEF PlacementStep, LeaveOldGroup, JoinGroup, DropRow, WriteSlot, SlotRefused,
         SetThingGroup, FollowShadow, SendGetGroupInfo, CleanupNodeFromGroup
  <2>2. ASSUME NEW i \in Invocation, NEW j, Start(i, j)
        PROVE  trouble = {}
    BY <2>2 DEF Start
  <2>3. ASSUME NEW i \in Invocation, NEW g \in Group, AddNode(i, g) \/ RemoveNode(i, g)
        PROVE  trouble = {}
    BY <2>2, <2>3 DEF AddNode, RemoveNode
  <2>4. ASSUME NEW i \in Invocation, NEW g \in Group, NEW s \in Sub,
               AddSubGroup(i, g, s) \/ RemoveSubGroup(i, g, s)
        PROVE  trouble = {}
    BY <2>2, <2>4 DEF AddSubGroup, RemoveSubGroup
  <2>5. ASSUME NEW i \in Invocation
        PROVE  ~CallFails(i)
    BY DEF CallFails
  <2>6. ASSUME NEW g \in Group, CatchUpRow(g) \/ KeepData(g) \/ HandleNodeDataReset(g)
        PROVE  trouble = {}
    BY <2>6 DEF CatchUpRow, KeepData, HandleNodeDataReset
  <2>7. CASE DeviceReports \/ DeviceAsksGroup \/ UNCHANGED placementVars
    BY <2>7 DEF DeviceReports, DeviceAsksGroup, placementVars
  <2> QED BY <2>1, <2>3, <2>4, <2>5, <2>6, <2>7 DEF PlacementNext
<1>2. Tidy
  BY <1>1 DEF SettledInv
<1>3. ASSUME NEW i \in Invocation, PlacementStep(i)
      PROVE  Tidy'
  BY <1>2, <1>3, MoveKeeps, DropKeeps, WriteKeeps, FollowKeeps DEF PlacementStep
<1>4. ASSUME NEW i \in Invocation, CallFails(i)
      PROVE  Tidy'
  BY <1>4 DEF CallFails
<1>5. ASSUME NEW i \in Invocation, NEW g \in Group,
             \/ AddNode(i, g) \/ RemoveNode(i, g)
             \/ \E s \in Sub : AddSubGroup(i, g, s) \/ RemoveSubGroup(i, g, s)
      PROVE  Tidy'
  BY <1>1, <1>2, <1>5, MoveStarts, RemovalStarts, AdditionStarts, RemovalOfTagStarts
<1>6. ASSUME NEW g \in Group, CatchUpRow(g) \/ KeepData(g) \/ HandleNodeDataReset(g)
      PROVE  Tidy'
  <2>1. ~CatchUpRow(g)
    BY <1>2 DEF Tidy, RowsTidy, CatchUpRow
  <2> QED BY <1>2, <1>6, <2>1, TidyStays DEF KeepData, HandleNodeDataReset
<1>7. CASE DeviceReports \/ DeviceAsksGroup
  BY <1>1, <1>2, <1>7, ReportKeeps, AskingKeeps
<1>8. CASE UNCHANGED placementVars
  BY <1>2, <1>8, TidyStays DEF placementVars
<1> QED BY <1>3, <1>4, <1>5, <1>6, <1>7, <1>8 DEF PlacementNext

\* After moves, removals and updates of subgroups that ran one at a time and
\* met no failure, the thing's attribute, the group info the device was sent
\* and the shadow agree with the row, or with its absence.  More than one
\* mover may exist: only that they do not overlap is asked.
THEOREM PlacementSettles ==
    ~QueriesMayLag => (PlacementSpec => []SettledNode)
<1> SUFFICES ASSUME ~QueriesMayLag PROVE PlacementSpec => []SettledNode
  OBVIOUS
<1>1. PlacementInit => SettledInv
  <2> SUFFICES ASSUME PlacementInit PROVE Tidy
    BY DEF SettledInv
  <2>1. \A i \in Invocation : job[i] = IdleJob
    BY DEF PlacementInit
  <2>2. IdleJob.pc = "idle" /\ JobFields \subseteq DOMAIN IdleJob
    BY DEF IdleJob, JobFields
  <2>3. JobsTidy
    BY <2>1, <2>2 DEF PlacementInit, JobsTidy, JobPc, Working
  <2>4. RowsTidy
    BY DEF PlacementInit, RowsTidy, OneGroup, Placed
  <2>5. Settled
    BY DEF PlacementInit, Settled, At, Placed, Nowhere
  <2>6. \A i \in Invocation : InOrder(i)
    BY <2>1, <2>2 DEF InOrder
  <2> QED BY <2>3, <2>4, <2>5, <2>6 DEF Tidy
<1>2. SettledInv /\ [PlacementNext]_placementVars => SettledInv'
  BY SettledStep
<1>3. SettledInv => SettledNode
  <2> SUFFICES ASSUME SettledInv, trouble = {}, \A i \in Invocation : ~Working(i)
               PROVE  SettledNode
    BY DEF SettledNode
  <2>1. Settled /\ RowsTidy
    BY DEF SettledInv, Tidy
  <2>2. told \in {MembershipIn(g, row[g]) : g \in {h \in Group : Placed(row[h])}}
                \union {Nowhere}
    BY <2>1 DEF Settled, At
  <2>3. told = Nowhere => \A g \in Group : ~Placed(row[g])
    BY <2>1, RowsArePlaced DEF Settled, At
  <2> QED BY <2>1, <2>2, <2>3 DEF SettledNode, Settled
<1> QED BY <1>1, <1>2, <1>3, PTL DEF PlacementSpec

---------------------------------------------------------------------------
(* The types, and the reset that a removal owes *)

\* What a job knows at the calls that need it: the slot it chose, and the
\* group whose data is reset; what removes the row resets.
KnownJob(j) ==
    /\ j.pc = "slot" => j.slot \in Slot /\ j.group \in Group
    /\ j.reset \/ j.pc = "reset" => j.old.group \in Group
    /\ j.pc \in {"leave", "drop"} => j.reset

PlacementInv == PlacementTypeOK /\ \A i \in Invocation : KnownJob(job[i])

\* No tag is counted more often than there are slots, and one in a slot is.
LEMMA TagsCounted ==
    ASSUME NEW r
    PROVE  /\ Tags(r) \in [Sub -> 0 .. SlotCount]
           /\ \A k \in Slot, s \in Sub : r[k] = s => Tags(r)[s] >= 1
<1>1. SlotCount \in Nat /\ IsFiniteSet(Slot) /\ Cardinality(Slot) = SlotCount
  BY PlacementConstants, FS_Interval DEF Slot
<1>2. ASSUME NEW s \in Sub
      PROVE  /\ Cardinality({k \in Slot : r[k] = s}) \in 0 .. SlotCount
             /\ \A k \in Slot : r[k] = s => Cardinality({j \in Slot : r[j] = s}) >= 1
  <2> DEFINE H == {k \in Slot : r[k] = s}
  <2>1. H \subseteq Slot
    OBVIOUS
  <2>2. IsFiniteSet(H) /\ Cardinality(H) <= SlotCount /\ Cardinality(H) \in Nat
    BY <1>1, <2>1, FS_Subset, FS_CardinalityType
  <2>3. Cardinality(H) = 0 => H = {}
    BY <2>2, FS_EmptySet
  <2>4. Cardinality(H) \in 0 .. SlotCount
    BY <1>1, <2>2
  <2>5. ASSUME NEW k \in Slot, r[k] = s
        PROVE  Cardinality(H) >= 1
    <3>1. k \in H
      BY <2>5
    <3> HIDE DEF H
    <3> QED BY <2>2, <2>3, <3>1
  <2> QED BY <2>4, <2>5
<1> QED BY <1>2 DEF Tags

\* What a row says of the node's group is typed; so is what a tag less, where
\* there is one, or a tag more makes of it.
LEMMA MembershipTyped ==
    ASSUME NEW g \in Group \union {NoGroup}, NEW r
    PROVE  /\ MembershipIn(g, r) \in Membership
           /\ \A k \in Slot : \A s \in Sub :
                 r[k] = s => Retag(MembershipIn(g, r), s, -1) \in Membership
           /\ \A s : Retag(MembershipIn(g, r), s, 1) \in Membership
<1>1. PICK t \in [Sub -> 0 .. SlotCount] : t = Tags(r)
  BY TagsCounted
<1>2. SlotCount \in Nat
  BY PlacementConstants
<1>3. t \in [Sub -> 0 .. SlotCount + 1]
  BY <1>2
<1>4. ASSUME NEW k \in Slot, NEW s \in Sub, r[k] = s
      PROVE  [t EXCEPT ![s] = @ + -1] \in [Sub -> 0 .. SlotCount + 1]
  <2>1. t[s] >= 1 /\ t[s] \in 0 .. SlotCount
    BY <1>1, <1>4, TagsCounted
  <2>2. t[s] + -1 \in 0 .. SlotCount + 1
    BY <1>2, <2>1
  <2> QED BY <1>3, <2>2
<1>5. ASSUME NEW s
      PROVE  [t EXCEPT ![s] = @ + 1] \in [Sub -> 0 .. SlotCount + 1]
  <2>1. CASE s \in Sub
    <3>1. t[s] + 1 \in 0 .. SlotCount + 1
      BY <1>2, <2>1
    <3> QED BY <1>3, <3>1
  <2>2. CASE s \notin Sub
    BY <1>3, <2>2
  <2> QED BY <2>1, <2>2
<1>6. \A u \in [Sub -> 0 .. SlotCount + 1] : [group |-> g, tags |-> u] \in Membership
  BY DEF Membership
<1>7. MembershipIn(g, r) \in Membership
  BY <1>1, <1>3, <1>6 DEF MembershipIn
<1>8. ASSUME NEW k \in Slot, NEW s \in Sub, r[k] = s
      PROVE  Retag(MembershipIn(g, r), s, -1) \in Membership
  <2>1. Retag(MembershipIn(g, r), s, -1) = [group |-> g, tags |-> [t EXCEPT ![s] = @ + -1]]
    BY <1>1 DEF Retag, MembershipIn
  <2> QED BY <1>4, <1>6, <1>8, <2>1
<1>9. ASSUME NEW s
       PROVE  Retag(MembershipIn(g, r), s, 1) \in Membership
  <2>1. Retag(MembershipIn(g, r), s, 1) = [group |-> g, tags |-> [t EXCEPT ![s] = @ + 1]]
    BY <1>1 DEF Retag, MembershipIn
  <2> QED BY <1>5, <1>6, <2>1
<1> QED BY <1>7, <1>8, <1>9

\* A job that is idle, and one that plans a move, are typed.
LEMMA PlansTyped ==
    /\ Nowhere \in Membership /\ NoTags \in [Sub -> 0 .. SlotCount + 1]
    /\ IdleJob \in Job /\ KnownJob(IdleJob) /\ IdleJob.pc = "idle"
    /\ \A g \in Group, old \in Membership :
          AddPlan(g, old) \in Job /\ KnownJob(AddPlan(g, old))
    /\ \A g \in Group : \A r : RemovePlan(g, r) \in Job /\ KnownJob(RemovePlan(g, r))
<1>1. SlotCount \in Nat /\ 0 \in 0 .. SlotCount /\ 0 \in 0 .. SlotCount + 1
  BY PlacementConstants
<1>2. NoTags \in [Sub -> 0 .. SlotCount + 1]
  BY <1>1 DEF NoTags
<1>3. Nowhere \in Membership
  BY <1>2 DEF Nowhere, Membership
<1>4. IdleJob \in Job /\ KnownJob(IdleJob) /\ IdleJob.pc = "idle"
  BY <1>1, <1>3 DEF IdleJob, Job, JobPc, KnownJob
<1>5. ASSUME NEW g \in Group, NEW old \in Membership
      PROVE  AddPlan(g, old) \in Job /\ KnownJob(AddPlan(g, old))
  <2>1. [group |-> g, tags |-> NoTags] \in Membership
    BY <1>2 DEF Membership
  <2>2. old.group \in Group \union {NoGroup}
    BY DEF Membership
  <2>3. PICK pc \in {"join", "leave"}, leaves \in BOOLEAN :
           /\ pc = IF old.group = NoGroup THEN "join" ELSE "leave"
           /\ leaves = (old.group # NoGroup)
    OBVIOUS
  <2>4. PICK e : e = [IdleJob EXCEPT !.pc = pc, !.group = g, !.old = old,
                          !.new = [group |-> g, tags |-> NoTags], !.reset = leaves]
    OBVIOUS
  <2>5. e \in Job /\ e.pc = pc /\ e.old = old /\ e.reset = leaves
    BY <1>4, <2>1, <2>4 DEF Job, JobPc
  <2>6. KnownJob(e)
    BY <2>2, <2>3, <2>5 DEF KnownJob
  <2> QED BY <2>3, <2>4, <2>5, <2>6 DEF AddPlan
<1>6. ASSUME NEW g \in Group, NEW r
      PROVE  RemovePlan(g, r) \in Job /\ KnownJob(RemovePlan(g, r))
  <2>1. MembershipIn(g, r) \in Membership /\ MembershipIn(g, r).group = g
    BY MembershipTyped DEF MembershipIn
  <2>2. PICK m \in Membership : m = MembershipIn(g, r) /\ m.group = g
    BY <2>1
  <2>3. PICK e : e = [IdleJob EXCEPT !.pc = "drop", !.group = g, !.old = m, !.reset = TRUE]
    OBVIOUS
  <2>4. e \in Job /\ e.pc = "drop" /\ e.old = m /\ e.reset
    BY <1>4, <2>3 DEF Job, JobPc
  <2>5. KnownJob(e)
    BY <2>2, <2>4 DEF KnownJob
  <2> QED BY <2>2, <2>3, <2>4, <2>5 DEF RemovePlan
<1> QED BY <1>2, <1>3, <1>4, <1>5, <1>6

\* What a query of the index returns is a membership.
LEMMA SeenTyped == GroupsSeen \subseteq Membership
<1>1. ASSUME NEW g \in Group, NEW r
      PROVE  MembershipIn(g, r) \in Membership
  BY MembershipTyped
<1>2. ASSUME NEW m \in GroupsSeen, m # Nowhere
      PROVE  \E g \in Group : \E r \in RowSeen(g) \ {NoRow} : m = MembershipIn(g, r)
  BY <1>2 DEF GroupsSeen
<1> QED BY <1>1, <1>2, PlansTyped

\* An invocation goes on with a job that is typed.
LEMMA JobTyped ==
    ASSUME PlacementInv, NEW i \in Invocation, NEW e \in Job, KnownJob(e),
           job' = [job EXCEPT ![i] = e]
    PROVE  /\ job' \in [Invocation -> Job] /\ \A k \in Invocation : KnownJob(job'[k])
           /\ job'[i] = e /\ \A k \in Invocation \ {i} : job'[k] = job[k]
BY DEF PlacementInv, PlacementTypeOK

\* The next call of an operation, or its end.
LEMMA JobTypedOn ==
    ASSUME PlacementInv, NEW i \in Invocation, NEW pc,
           \/ Done(i)
           \/ Step(i, pc) /\ pc \in {"join", "attribute", "shadow", "inform"}
           \/ Step(i, pc) /\ pc = "reset" /\ job[i].reset
    PROVE  /\ job' \in [Invocation -> Job] /\ \A k \in Invocation : KnownJob(job'[k])
           /\ \A k \in Invocation \ {i} : job'[k] = job[k]
           /\ Step(i, pc) => job'[i].pc = pc /\ job'[i].reset = job[i].reset
<1>1. CASE Done(i)
  <2>1. job'[i] = IdleJob /\ job[i].pc \in JobPc
    BY <1>1 DEF Done, PlacementInv, PlacementTypeOK, Job
  <2>2. ASSUME Step(i, pc)
        PROVE  job'[i].pc = pc /\ job'[i].reset = job[i].reset
    BY <2>2 DEF Step, PlacementInv, PlacementTypeOK, Job
  <2> QED BY <1>1, <2>2, PlansTyped, JobTyped DEF Done
<1>2. CASE ~Done(i)
  <2>1. PICK e : e = [job[i] EXCEPT !.pc = pc]
    OBVIOUS
  <2>2. job[i] \in Job /\ KnownJob(job[i]) /\ pc \in JobPc /\ pc \notin {"slot", "leave", "drop"}
    BY <1>2 DEF PlacementInv, PlacementTypeOK, JobPc
  <2>3. e \in Job /\ e.pc = pc /\ e.reset = job[i].reset /\ e.old = job[i].old
    BY <2>1, <2>2 DEF Job
  <2>4. KnownJob(e)
    BY <1>2, <2>2, <2>3 DEF KnownJob
  <2>5. job' = [job EXCEPT ![i] = e]
    BY <1>2, <2>1 DEF Step
  <2> QED BY <2>3, <2>4, <2>5, JobTyped
<1> QED BY <1>1, <1>2

\* The table takes rows.
LEMMA RowsTyped ==
    ASSUME PlacementInv, NEW g, NEW r \in NodeRows \union {NoRow}, SetRow(g, r)
    PROVE  /\ row' \in [Group -> NodeRows \union {NoRow}]
           /\ staleRow' \in [Group -> NodeRows \union {NoRow}]
<1>1. CASE g \in Group
  BY <1>1 DEF PlacementInv, PlacementTypeOK, SetRow
<1>2. CASE g \notin Group
  <2>1. [row EXCEPT ![g] = r] = row /\ [staleRow EXCEPT ![g] = r] = staleRow
    BY <1>2 DEF PlacementInv, PlacementTypeOK
  <2> QED BY <2>1 DEF PlacementInv, PlacementTypeOK, SetRow
<1> QED BY <1>1, <1>2

\* The steps that write the row.
LEMMA RowStepsTyped ==
    ASSUME PlacementInv, NEW i \in Invocation,
           LeaveOldGroup(i) \/ JoinGroup(i) \/ DropRow(i) \/ WriteSlot(i)
    PROVE  PlacementInv'
<1>1. CASE LeaveOldGroup(i) \/ JoinGroup(i) \/ DropRow(i)
  <2>1. UNCHANGED <<follow, trouble>> /\ \E pc \in {"join", "attribute"} : Step(i, pc)
    BY <1>1 DEF LeaveOldGroup, JoinGroup, DropRow
  <2>2. \E g : \E r \in NodeRows \union {NoRow} : SetRow(g, r)
    BY <1>1, RowsArePlaced DEF LeaveOldGroup, JoinGroup, DropRow
  <2>3. job' \in [Invocation -> Job] /\ \A k \in Invocation : KnownJob(job'[k])
    BY <2>1, JobTypedOn
  <2>4. /\ row' \in [Group -> NodeRows \union {NoRow}]
        /\ staleRow' \in [Group -> NodeRows \union {NoRow}]
    BY <2>2, RowsTyped
  <2> QED BY <2>1, <2>3, <2>4 DEF PlacementInv, PlacementTypeOK, follow
<1>2. CASE WriteSlot(i)
  <2>1. job[i] \in Job /\ KnownJob(job[i]) /\ job[i].pc = "slot"
    BY <1>2 DEF WriteSlot, PlacementInv, PlacementTypeOK
  <2>02. PICK g \in Group, k \in Slot, s \in Sub \union {NoSub} :
           g = job[i].group /\ k = job[i].slot /\ s = job[i].sub
    BY <2>1 DEF Job, KnownJob
  <2>2. PICK r : /\ g = job[i].group /\ k = job[i].slot /\ s = job[i].sub
                 /\ r = Written(i, g)
    BY <2>02
  <2>3. row[g] \in NodeRows \union {NoRow} /\ Placed(row[g])
    BY <1>2, <2>2 DEF WriteSlot, PlacementInv, PlacementTypeOK
  <2>4. r \in NodeRows /\ r[k] = s
    BY <2>2, <2>3 DEF Written, NodeRows, Placed
  <2>05. MembershipIn(g, r) \in Membership
    BY MembershipTyped
  <2>5. PICK m \in Membership : m = MembershipIn(g, r) /\ m.group = g
    BY <2>05 DEF MembershipIn
  <2>6. Before(i, m) \in Membership /\ Before(i, m).group = g
    <3>1. CASE s # NoSub
      <4>1. Before(i, m) = Retag(m, s, -1)
        BY <2>2, <3>1 DEF Before
      <4>2. Retag(m, s, -1) \in Membership
        BY <2>2, <2>4, <2>5, <3>1, MembershipTyped
      <4>3. Retag(m, s, -1).group = g
        BY <2>5 DEF Retag, Membership
      <4> QED BY <4>1, <4>2, <4>3
    <3>2. CASE s = NoSub
      <4>1. PICK x : Before(i, m) = Retag(m, x, 1)
        BY <2>2, <3>2 DEF Before
      <4>2. Retag(m, x, 1) \in Membership
        BY <2>2, <2>5, MembershipTyped
      <4>3. Retag(m, x, 1).group = g
        BY <2>5 DEF Retag, Membership
      <4> QED BY <4>1, <4>2, <4>3
    <3> QED BY <3>1, <3>2
  <2>7. PICK b \in Membership : b = Before(i, m) /\ b.group = g
    BY <2>6
  <2>8. PICK e : e = [job[i] EXCEPT !.pc = "shadow", !.new = m, !.old = b]
    OBVIOUS
  <2>9. e \in Job /\ KnownJob(e)
    <3>1. e \in Job /\ e.pc = "shadow" /\ e.old = b
      BY <2>1, <2>8 DEF Job, JobPc
    <3> QED BY <2>7, <3>1 DEF KnownJob
  <2>10. job' = [job EXCEPT ![i] = e] /\ SetRow(g, r) /\ UNCHANGED <<follow, trouble>>
    BY <1>2, <2>2, <2>5, <2>7, <2>8 DEF WriteSlot
  <2>11. job' \in [Invocation -> Job] /\ \A n \in Invocation : KnownJob(job'[n])
    BY <2>9, <2>10, JobTyped
  <2>12. /\ row' \in [Group -> NodeRows \union {NoRow}]
         /\ staleRow' \in [Group -> NodeRows \union {NoRow}]
    BY <2>4, <2>10, RowsTyped
  <2> QED BY <2>10, <2>11, <2>12 DEF PlacementInv, PlacementTypeOK, follow
<1> QED BY <1>1, <1>2

\* The starts of operations.
LEMMA StartsTyped ==
    ASSUME PlacementInv, NEW i \in Invocation, NEW g \in Group,
           \/ AddNode(i, g) \/ RemoveNode(i, g)
           \/ \E s \in Sub : AddSubGroup(i, g, s) \/ RemoveSubGroup(i, g, s)
    PROVE  PlacementInv' /\ UNCHANGED <<row, kept, resets>> /\ ~Working(i)
<1>1. UNCHANGED <<row, staleRow, follow>> /\ ~Working(i)
  BY DEF AddNode, RemoveNode, AddSubGroup, RemoveSubGroup
<1>2. SlotCount \in Nat /\ 0 \in 0 .. SlotCount
  BY PlacementConstants
<1>3. \E e \in Job : KnownJob(e) /\ Start(i, e)
  <2>1. CASE AddNode(i, g) \/ RemoveNode(i, g)
    BY <2>1, PlansTyped, SeenTyped DEF AddNode, RemoveNode
  <2>2. ASSUME NEW s \in Sub, AddSubGroup(i, g, s)
        PROVE  \E e \in Job : KnownJob(e) /\ Start(i, e)
    <3>1. PICK r \in RowSeen(g) \ {NoRow} :
             IF SlotHolding(r, s) # 0
             THEN Start(i, [IdleJob EXCEPT !.pc = "shadow", !.group = g,
                       !.old = Retag(MembershipIn(g, r), s, -1),
                       !.new = MembershipIn(g, r)])
             ELSE /\ FreeSlot(r) # 0
                  /\ Start(i, [IdleJob EXCEPT !.pc = "slot", !.group = g,
                         !.sub = s, !.slot = FreeSlot(r)])
      BY <2>2 DEF AddSubGroup
    <3>2. CASE SlotHolding(r, s) # 0
      <4>1. SlotHolding(r, s) \in Slot /\ r[SlotHolding(r, s)] = s
        BY <3>2, SlotFound DEF SlotHolding
      <4>2. PICK m \in Membership, b \in Membership :
               m = MembershipIn(g, r) /\ b = Retag(MembershipIn(g, r), s, -1)
        BY <4>1, MembershipTyped
      <4>3. PICK e : e = [IdleJob EXCEPT !.pc = "shadow", !.group = g, !.old = b, !.new = m]
        OBVIOUS
      <4>4. e \in Job /\ KnownJob(e)
        BY <1>2, <4>2, <4>3, PlansTyped DEF IdleJob, Job, JobPc, KnownJob
      <4> QED BY <3>1, <3>2, <4>2, <4>3, <4>4
    <3>3. CASE SlotHolding(r, s) = 0
      <4>1. PICK k \in Slot : k = FreeSlot(r)
        BY <3>1, <3>3, SlotFound DEF FreeSlot
      <4>2. k \in 0 .. SlotCount
        BY <1>2 DEF Slot
      <4>3. PICK e : e = [IdleJob EXCEPT !.pc = "slot", !.group = g, !.sub = s, !.slot = k]
        OBVIOUS
      <4>4. e \in Job /\ KnownJob(e)
        BY <4>2, <4>3, PlansTyped DEF IdleJob, Job, JobPc, KnownJob
      <4> QED BY <3>1, <3>3, <4>1, <4>3, <4>4
    <3> QED BY <3>2, <3>3
  <2>3. ASSUME NEW s \in Sub, RemoveSubGroup(i, g, s)
        PROVE  \E e \in Job : KnownJob(e) /\ Start(i, e)
    <3>1. PICK r \in RowSeen(g) \ {NoRow} :
             /\ SlotHolding(r, s) # 0
             /\ Start(i, [IdleJob EXCEPT !.pc = "slot", !.group = g,
                    !.slot = SlotHolding(r, s),
                    !.old = [group |-> g, tags |-> [NoTags EXCEPT ![s] = 1]]])
      BY <2>3 DEF RemoveSubGroup
    <3>2. PICK k \in Slot : k = SlotHolding(r, s)
      BY <3>1, SlotFound DEF SlotHolding
    <3>3. k \in 0 .. SlotCount /\ 1 \in 0 .. SlotCount + 1
      BY <1>2 DEF Slot
    <3>4. PICK t : t = [NoTags EXCEPT ![s] = 1]
      OBVIOUS
    <3>5. [group |-> g, tags |-> t] \in Membership
      BY <3>3, <3>4, PlansTyped DEF Membership
    <3>6. PICK e : e = [IdleJob EXCEPT !.pc = "slot", !.group = g, !.slot = k,
                                       !.old = [group |-> g, tags |-> t]]
      OBVIOUS
    <3>7. e \in Job /\ KnownJob(e)
      BY <3>3, <3>5, <3>6, PlansTyped DEF IdleJob, Job, JobPc, KnownJob
    <3> QED BY <3>1, <3>2, <3>4, <3>6, <3>7
  <2> QED BY <2>1, <2>2, <2>3
<1>4. PICK e \in Job : KnownJob(e) /\ Start(i, e)
  BY <1>3
<1>5. job' \in [Invocation -> Job] /\ \A k \in Invocation : KnownJob(job'[k])
  BY <1>4, JobTyped DEF Start
<1>6. trouble' \subseteq {"overlap", "failure", "report"}
  BY <1>4 DEF Start, PlacementInv, PlacementTypeOK
<1> QED BY <1>1, <1>5, <1>6 DEF PlacementInv, PlacementTypeOK, follow

\* What follows the row, and what fails.
LEMMA FollowTyped ==
    ASSUME PlacementInv, NEW i \in Invocation,
           \/ SlotRefused(i) \/ SetThingGroup(i) \/ FollowShadow(i)
           \/ SendGetGroupInfo(i) \/ CleanupNodeFromGroup(i) \/ CallFails(i)
    PROVE  PlacementInv'
<1>1. job[i] \in Job /\ KnownJob(job[i])
  BY DEF PlacementInv, PlacementTypeOK
<1>2. \/ Done(i)
      \/ \E pc \in {"shadow", "inform"} : Step(i, pc)
      \/ Step(i, "reset") /\ job[i].reset
  <2>1. CASE CallFails(i)
    <3>1. \/ job[i].pc \in {"leave", "join", "drop", "slot", "reset"}
          \/ job[i].pc \in {"attribute", "shadow", "inform"}
      BY <1>1, <2>1 DEF CallFails, Working, Job, JobPc
    <3> QED BY <2>1, <3>1 DEF CallFails
  <2>2. CASE ~CallFails(i)
    BY <2>2 DEF SlotRefused, SetThingGroup, FollowShadow, SendGetGroupInfo,
                CleanupNodeFromGroup
  <2> QED BY <2>1, <2>2
<1>3. job' \in [Invocation -> Job] /\ \A k \in Invocation : KnownJob(job'[k])
  BY <1>2, JobTypedOn
<1>4. row' = row /\ staleRow' = staleRow /\ kept' = kept
  BY DEF SlotRefused, SetThingGroup, FollowShadow, SendGetGroupInfo,
         CleanupNodeFromGroup, CallFails, follow
<1>5. job[i].old \in Membership /\ job[i].new \in Membership /\ job[i].new.group \in Group \union {NoGroup}
  BY <1>1 DEF Job, Membership
<1>6. thingGroup' \in Group \union {NoGroup}
  BY <1>5 DEF SlotRefused, SetThingGroup, FollowShadow, SendGetGroupInfo,
         CleanupNodeFromGroup, CallFails, follow, PlacementInv, PlacementTypeOK
<1>7. shadow' \subseteq Membership
  BY <1>5 DEF SlotRefused, SetThingGroup, FollowShadow, SendGetGroupInfo, MoveShadow,
         CleanupNodeFromGroup, CallFails, follow, PlacementInv, PlacementTypeOK
<1>8. told' \in Membership
  BY <1>5, SeenTyped DEF SlotRefused, SetThingGroup, FollowShadow, SendGetGroupInfo,
         GroupInfo, CleanupNodeFromGroup, CallFails, follow, PlacementInv, PlacementTypeOK
<1>9. resets' \subseteq Group
  BY <1>1 DEF SlotRefused, SetThingGroup, FollowShadow, SendGetGroupInfo, KnownJob,
         CleanupNodeFromGroup, CallFails, follow, PlacementInv, PlacementTypeOK
<1>10. trouble' \subseteq {"overlap", "failure", "report"}
  BY DEF SlotRefused, SetThingGroup, FollowShadow, SendGetGroupInfo,
         CleanupNodeFromGroup, CallFails, PlacementInv, PlacementTypeOK
<1> QED
  BY <1>3, <1>4, <1>6, <1>7, <1>8, <1>9, <1>10 DEF PlacementInv, PlacementTypeOK

\* What the device, the users and the events do.
LEMMA OutsideTyped ==
    ASSUME PlacementInv,
           \/ \E g \in Group : CatchUpRow(g) \/ KeepData(g) \/ HandleNodeDataReset(g)
           \/ DeviceReports \/ DeviceAsksGroup \/ UNCHANGED placementVars
    PROVE  PlacementInv' /\ UNCHANGED <<row, job>>
<1>1. UNCHANGED <<row, job>>
  BY DEF CatchUpRow, KeepData, HandleNodeDataReset, DeviceReports, DeviceAsksGroup,
         placementVars
<1>2. staleRow' \in [Group -> NodeRows \union {NoRow}]
  BY DEF CatchUpRow, KeepData, HandleNodeDataReset, DeviceReports, DeviceAsksGroup,
         placementVars, PlacementInv, PlacementTypeOK
<1>3. /\ thingGroup' = thingGroup
      /\ shadow' \subseteq Membership
      /\ kept' \subseteq Group
      /\ resets' \subseteq Group
      /\ trouble' \subseteq {"overlap", "failure", "report"}
  BY DEF CatchUpRow, KeepData, HandleNodeDataReset, DeviceReports, DeviceAsksGroup,
         placementVars, follow, PlacementInv, PlacementTypeOK
<1>4. told' \in Membership
  BY SeenTyped
  DEF CatchUpRow, KeepData, HandleNodeDataReset, DeviceReports, DeviceAsksGroup,
         placementVars, follow, PlacementInv, PlacementTypeOK
<1> QED BY <1>1, <1>2, <1>3, <1>4 DEF PlacementInv, PlacementTypeOK

\* Every step keeps the types, and what jobs know.
LEMMA PlacementStepTyped ==
    ASSUME PlacementInv, [PlacementNext]_placementVars
    PROVE  PlacementInv'
<1>1. ASSUME NEW i \in Invocation, PlacementStep(i) \/ CallFails(i)
      PROVE  PlacementInv'
  BY <1>1, RowStepsTyped, FollowTyped DEF PlacementStep
<1>2. ASSUME NEW i \in Invocation, NEW g \in Group,
             \/ AddNode(i, g) \/ RemoveNode(i, g)
             \/ \E s \in Sub : AddSubGroup(i, g, s) \/ RemoveSubGroup(i, g, s)
      PROVE  PlacementInv'
  BY <1>2, StartsTyped
<1> QED BY <1>1, <1>2, OutsideTyped DEF PlacementNext

\* At first the node is nowhere and nothing is under way.
LEMMA PlacementTyped == ASSUME PlacementInit PROVE PlacementInv
<1>1. \A i \in Invocation : job[i] = IdleJob
  BY DEF PlacementInit
<1>2. job \in [Invocation -> Job]
  BY PlansTyped DEF PlacementInit
<1> QED BY <1>1, <1>2, PlansTyped DEF PlacementInit, PlacementInv, PlacementTypeOK

\* Of a group the node has left, data is kept only while a reset is on its way:
\* an event is out, or an operation that took the row away has yet to send it.
\* (What it says of the code: every removal, however it races with moves and
\* updates of subgroups, goes on to its reset unless a call of it fails.)
ResetOwed(i) ==
    job[i].reset /\ job[i].pc \in {"join", "attribute", "shadow", "inform", "reset"}
ResetIsComing ==
    \A g \in Group :
        g \in kept /\ ~Placed(row[g]) /\ "failure" \notin trouble =>
            resets # {} \/ \E i \in Invocation : ResetOwed(i)

\* An operation that owes a reset owes it until it has sent it.
LEMMA ResetStaysOwed ==
    ASSUME PlacementInv, [PlacementNext]_placementVars, "failure" \notin trouble',
           resets # {} \/ \E i \in Invocation : ResetOwed(i)
    PROVE  kept' = {} \/ resets' # {} \/ (\E i \in Invocation : ResetOwed(i))'
<1>1. CASE \E g \in Group : HandleNodeDataReset(g)
  BY <1>1 DEF HandleNodeDataReset
<1>2. ASSUME NEW i \in Invocation, CleanupNodeFromGroup(i)
      PROVE  resets' # {}
  BY <1>2 DEF CleanupNodeFromGroup
<1>3. ASSUME NEW i \in Invocation, PlacementStep(i), ~CleanupNodeFromGroup(i)
      PROVE  resets' # {} \/ (\E k \in Invocation : ResetOwed(k))'
  <2>1. resets' = resets
    BY <1>3 DEF PlacementStep, LeaveOldGroup, JoinGroup, DropRow, WriteSlot, SlotRefused,
                SetThingGroup, FollowShadow, SendGetGroupInfo, follow
  <2>2. job[i] \in Job /\ KnownJob(job[i])
    BY DEF PlacementInv, PlacementTypeOK
  <2>3. \A k \in Invocation \ {i} : job'[k] = job[k]
    BY <1>3 DEF PlacementStep, LeaveOldGroup, JoinGroup, DropRow, WriteSlot, SlotRefused,
                SetThingGroup, FollowShadow, SendGetGroupInfo, Step, Done,
                PlacementInv, PlacementTypeOK
  <2>4. ASSUME ResetOwed(i)
        PROVE  ResetOwed(i)'
    <3>1. \E pc \in {"attribute", "shadow", "inform", "reset"} : Step(i, pc)
      BY <1>3, <2>4 DEF PlacementStep, LeaveOldGroup, JoinGroup, DropRow, WriteSlot,
            SlotRefused, SetThingGroup, FollowShadow, SendGetGroupInfo, ResetOwed
    <3> QED BY <2>4, <3>1, JobTypedOn DEF ResetOwed
  <2> QED BY <2>1, <2>3, <2>4 DEF ResetOwed
<1>4. ASSUME NEW i \in Invocation, CallFails(i)
      PROVE  FALSE
  BY <1>4 DEF CallFails
<1>5. ASSUME NEW i \in Invocation, NEW g \in Group,
             \/ AddNode(i, g) \/ RemoveNode(i, g)
             \/ \E s \in Sub : AddSubGroup(i, g, s) \/ RemoveSubGroup(i, g, s)
      PROVE  resets' # {} \/ (\E k \in Invocation : ResetOwed(k))'
  <2>1. resets' = resets /\ ~Working(i) /\ \E e : Start(i, e)
    BY <1>5 DEF AddNode, RemoveNode, AddSubGroup, RemoveSubGroup, follow
  <2>2. \A k \in Invocation \ {i} : job'[k] = job[k]
    BY <2>1 DEF Start, PlacementInv, PlacementTypeOK
  <2> QED BY <2>1, <2>2 DEF ResetOwed, Working
<1>6. CASE \/ \E g \in Group : CatchUpRow(g) \/ KeepData(g)
           \/ DeviceReports \/ DeviceAsksGroup \/ UNCHANGED placementVars
  <2>1. resets' = resets /\ job' = job
    BY <1>6 DEF CatchUpRow, KeepData, DeviceReports, DeviceAsksGroup, placementVars, follow
  <2> QED BY <2>1 DEF ResetOwed
<1> QED BY <1>1, <1>2, <1>3, <1>4, <1>5, <1>6 DEF PlacementNext

\* A group's row goes only in an operation that owes the reset from then on,
\* and data is kept only for a group that has a row.
LEMMA ResetBecomesOwed ==
    ASSUME PlacementInv, [PlacementNext]_placementVars, "failure" \notin trouble',
           NEW g \in Group, g \in kept', ~Placed(row'[g]), g \notin kept \/ Placed(row[g])
    PROVE  \E i \in Invocation : ResetOwed(i)'
<1>1. CASE row' = row
  <2>1. kept' = kept \/ \E h \in Group : KeepData(h) \/ HandleNodeDataReset(h)
    BY <1>1, ZenonT(40) DEF PlacementNext, PlacementStep, LeaveOldGroup, JoinGroup, DropRow, WriteSlot,
       SlotRefused, SetThingGroup, FollowShadow, SendGetGroupInfo, CleanupNodeFromGroup,
       CallFails, AddNode, RemoveNode, AddSubGroup, RemoveSubGroup, CatchUpRow,
       DeviceReports, DeviceAsksGroup, placementVars, follow
  <2>2. PICK h \in Group : KeepData(h)
    BY <1>1, <2>1 DEF HandleNodeDataReset
  <2> QED BY <1>1, <2>2 DEF KeepData
<1>2. CASE row' # row
  <2>1. PICK i \in Invocation :
           LeaveOldGroup(i) \/ JoinGroup(i) \/ DropRow(i) \/ WriteSlot(i)
    BY <1>2 DEF PlacementNext, PlacementStep, CallFails, AddNode, RemoveNode,
                AddSubGroup, RemoveSubGroup, CatchUpRow, KeepData, HandleNodeDataReset,
                DeviceReports, DeviceAsksGroup, SlotRefused, SetThingGroup,
                FollowShadow, SendGetGroupInfo, CleanupNodeFromGroup, placementVars
  <2>2. kept' = kept /\ Placed(row[g])
    BY <2>1 DEF LeaveOldGroup, JoinGroup, DropRow, WriteSlot, follow
  <2>3. row[g] \in NodeRows /\ row \in [Group -> NodeRows \union {NoRow}]
    BY <2>2 DEF PlacementInv, PlacementTypeOK, Placed
  <2>4. job[i] \in Job /\ KnownJob(job[i])
    BY DEF PlacementInv, PlacementTypeOK
  <2>5. CASE JoinGroup(i)
    <3>1. row'[g] \in NodeRows
      BY <2>3, <2>5, RowsArePlaced DEF JoinGroup, SetRow
    <3> QED BY <3>1, RowsArePlaced
  <2>6. CASE WriteSlot(i)
    <3>1. PICK h \in Group, k \in Slot, s \in Sub \union {NoSub} :
             h = job[i].group /\ k = job[i].slot /\ s = job[i].sub
      BY <2>4, <2>6 DEF WriteSlot, KnownJob, Job
    <3>2. Placed(row[h]) /\ row' = [row EXCEPT ![h] = [row[h] EXCEPT ![k] = s]]
      BY <2>6, <3>1 DEF WriteSlot, SetRow, Written
    <3>3. row[h] \in NodeRows
      BY <2>3, <3>2 DEF Placed
    <3>4. [row[h] EXCEPT ![k] = s] \in NodeRows
      BY <3>3 DEF NodeRows
    <3>5. row'[g] \in NodeRows
      BY <2>3, <3>2, <3>4
    <3> QED BY <3>5, RowsArePlaced
  <2>7. CASE LeaveOldGroup(i) \/ DropRow(i)
    <3>1. PICK pc \in {"join", "attribute"} : Step(i, pc)
      BY <2>7 DEF LeaveOldGroup, DropRow
    <3>2. job[i].reset
      BY <2>4, <2>7 DEF LeaveOldGroup, DropRow, KnownJob
    <3>3. job'[i].pc = pc /\ job'[i].reset
      BY <3>1, <3>2, JobTypedOn
    <3> QED BY <3>3 DEF ResetOwed
  <2> QED BY <2>1, <2>5, <2>6, <2>7
<1> QED BY <1>1, <1>2

\* What a group's users keep for a node never outlives its row but with a
\* reset on its way, unless a call failed: the half of OldDataGoes that needs
\* no fairness, however removals, moves, updates and lagging reads interleave.
THEOREM ResetFollowsRow == PlacementSpec => []ResetIsComing
<1>1. PlacementInit => PlacementInv /\ ResetIsComing
  BY PlacementTyped DEF PlacementInit, ResetIsComing
<1>2. PlacementInv /\ [PlacementNext]_placementVars => PlacementInv'
  BY PlacementStepTyped
<1>3. ASSUME PlacementInv, ResetIsComing, [PlacementNext]_placementVars
      PROVE  ResetIsComing'
  <2> SUFFICES ASSUME NEW g \in Group, g \in kept', ~Placed(row'[g]),
                      "failure" \notin trouble'
               PROVE  resets' # {} \/ \E i \in Invocation : ResetOwed(i)'
    BY DEF ResetIsComing, Placed
  <2>1. CASE g \notin kept \/ Placed(row[g])
    BY <1>3, <2>1, ResetBecomesOwed
  <2>2. CASE g \in kept /\ ~Placed(row[g])
    <3>1. "failure" \notin trouble
      <4>1. ASSUME NEW i \in Invocation, NEW h \in Group,
                   \/ AddNode(i, h) \/ RemoveNode(i, h)
                   \/ \E x \in Sub : AddSubGroup(i, h, x) \/ RemoveSubGroup(i, h, x)
            PROVE  "failure" \notin trouble
        <5>1. PICK e : Start(i, e)
          BY <4>1 DEF AddNode, RemoveNode, AddSubGroup, RemoveSubGroup
        <5> QED BY <5>1 DEF Start
      <4>2. ASSUME NEW i \in Invocation, PlacementStep(i) \/ CallFails(i)
            PROVE  "failure" \notin trouble
        BY <4>2 DEF PlacementStep, LeaveOldGroup, JoinGroup, DropRow, WriteSlot,
           SlotRefused, SetThingGroup, FollowShadow, SendGetGroupInfo,
           CleanupNodeFromGroup, CallFails
      <4>3. CASE \/ \E h \in Group : CatchUpRow(h) \/ KeepData(h) \/ HandleNodeDataReset(h)
                 \/ DeviceReports \/ DeviceAsksGroup \/ UNCHANGED placementVars
        BY <4>3 DEF CatchUpRow, KeepData, HandleNodeDataReset, DeviceReports,
           DeviceAsksGroup, placementVars
      <4> QED BY <1>3, <4>1, <4>2, <4>3 DEF PlacementNext
    <3>2. kept' # {}
      OBVIOUS
    <3> QED BY <1>3, <2>2, <3>1, <3>2, ResetStaysOwed DEF ResetIsComing
  <2> QED BY <2>1, <2>2
<1> QED BY <1>1, <1>2, <1>3, PTL DEF PlacementSpec

===============================================================================
