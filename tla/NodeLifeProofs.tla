--------------------------- MODULE NodeLifeProofs ---------------------------
(***************************************************************************)
(* Proofs about the life of a node: the children of a bridge, its presence *)
(* and the services it keeps up with, each for every value of the          *)
(* constants; NodePlacementProofs has those about where it is.             *)
(*                                                                         *)
(* WholeChildren speaks of quiet states only and says nothing of the       *)
(* middle of an operation, so it is not inductive.  BridgeInv says what is *)
(* there at every call of the one operation under way, as long as `rough`  *)
(* is unset; once two operations have met, or a call has failed where      *)
(* nothing is undone, it claims types at most, and the premise of the      *)
(* property is false.                                                      *)
(***************************************************************************)
EXTENDS MCNodeLife, NodePlacementProofs, TLAPS

---------------------------------------------------------------------------
(* BridgeChildren *)

\* Child c is whole or not there.
WholeChild(c) ==
    /\ childThing[c] = childRow[c]
    /\ childHome[c] = IF childRow[c] = NoLocal THEN NoHome ELSE home

\* Nothing of child c is there.
NoChild(c) == childRow[c] = NoLocal /\ childThing[c] = NoLocal /\ childHome[c] = NoHome

\* What is there of the child that call i works on, by the call it makes next.
ChildOfCall(i) ==
    LET c == call[i].child
        l == call[i].localId
        pc == call[i].pc IN
    /\ pc \in {"group", "thing"} => NoChild(c)
    /\ pc \in {"group", "thing", "row", "place", "undoRow"} => l \in LocalId
    /\ pc \in {"thing", "row", "place", "disassoc"} => call[i].group = home /\ home # NoHome
    /\ pc = "row" => childRow[c] = NoLocal /\ childThing[c] = l /\ childHome[c] = NoHome
    /\ pc \in {"place", "undoRow"} =>
          childRow[c] = l /\ childThing[c] = l /\ childHome[c] = NoHome
    /\ pc = "undoThing" => childRow[c] = NoLocal /\ childHome[c] = NoHome
    /\ pc \in {"whose", "disassoc"} => WholeChild(c) /\ childRow[c] # NoLocal
    /\ pc = "unthing" => childHome[c] = NoHome
    /\ pc = "unrow" => childThing[c] = NoLocal /\ childHome[c] = NoHome

\* What is there of child c while the bridge's leaving g is dealt with.
ChildOfCascade(g, c) ==
    /\ ~Fanning(g) => childThing[c] = childRow[c]
    /\ ~Fanning(g) => childHome[c] = IF childRow[c] = NoLocal THEN NoHome ELSE g
    /\ Fanning(g) /\ fanout[g][c] = "none" => NoChild(c)
    /\ fanout[g][c] = "disassoc" => childHome[c] = g
    /\ fanout[g][c] \in {"thing", "row"} => childHome[c] = NoHome
    /\ fanout[g][c] = "row" => childThing[c] = NoLocal

\* One thing happens at a time.
OneThing ==
    /\ \A i, j \in BridgeCall : ~CallAt(i, "idle") /\ ~CallAt(j, "idle") => i = j
    /\ \A i \in BridgeCall : ~CallAt(i, "idle") => cascades = {}
    /\ \A g, h \in cascades : g = h
    /\ \A g \in Home, c \in Child : fanout[g][c] # "none" => g \in cascades

ChildrenInOrder ==
    /\ \A c \in Child :
          /\ \A i \in BridgeCall : call[i].child = c => ChildOfCall(i)
          /\ \A g \in cascades : ChildOfCascade(g, c)
          /\ cascades = {} /\ (\A i \in BridgeCall : ~CallAt(i, "idle") => call[i].child # c) =>
                WholeChild(c)
    /\ cascades = {} /\ home = NoHome => \A c \in Child : childRow[c] = NoLocal

BridgeInv ==
    /\ BridgeTypeOK
    /\ ~rough => OneThing /\ ChildrenInOrder

\* An idle call has its type.
LEMMA NoBridgeJobType == NoBridgeJob \in BridgeJob /\ NoBridgeJob.pc = "idle"
<1>1. PICK c \in Child : TRUE
  BY BridgeConstants
<1> QED BY <1>1 DEF NoBridgeJob, BridgeJob, CallPc

\* What a call holds has its type.
LEMMA CallTypes ==
    ASSUME BridgeTypeOK, NEW i \in BridgeCall
    PROVE  /\ call[i] \in BridgeJob /\ call[i].pc \in CallPc /\ call[i].child \in Child
           /\ call[i].localId \in LocalId \union {NoLocal}
           /\ call[i].group \in Home \union {NoHome}
BY DEF BridgeTypeOK, BridgeJob

\* A call goes on with what it holds, or ends.
LEMMA CallMoves ==
    ASSUME BridgeTypeOK, NEW i \in BridgeCall
    PROVE  /\ \A pc \in CallPc : CallGoto(i, pc) =>
                 \E e \in BridgeJob :
                    /\ call' = [call EXCEPT ![i] = e]
                    /\ e.pc = pc /\ e.child = call[i].child
                    /\ e.localId = call[i].localId /\ e.group = call[i].group
           /\ CallDone(i) =>
                 \E e \in BridgeJob : call' = [call EXCEPT ![i] = e] /\ e.pc = "idle"
<1>1. ASSUME NEW pc \in CallPc, CallGoto(i, pc)
      PROVE  \E e \in BridgeJob :
                    /\ call' = [call EXCEPT ![i] = e]
                    /\ e.pc = pc /\ e.child = call[i].child
                    /\ e.localId = call[i].localId /\ e.group = call[i].group
  <2>1. PICK e : e = [call[i] EXCEPT !.pc = pc]
    OBVIOUS
  <2>2. /\ e \in BridgeJob /\ e.pc = pc /\ e.child = call[i].child
        /\ e.localId = call[i].localId /\ e.group = call[i].group
    BY <2>1, CallTypes DEF BridgeJob
  <2>3. call' = [call EXCEPT ![i] = e]
    BY <1>1, <2>1 DEF CallGoto
  <2> QED BY <2>2, <2>3
<1> QED BY <1>1, NoBridgeJobType DEF CallDone

\* What a call does to the table keeps its type.
LEMMA CallTypeKept ==
    ASSUME BridgeTypeOK, NEW i \in BridgeCall, NEW e \in BridgeJob,
           call' = [call EXCEPT ![i] = e],
           UNCHANGED <<home, cascades, fanout>>, rough' \in BOOLEAN,
           childRow' \in [Child -> LocalId \union {NoLocal}],
           childThing' \in [Child -> LocalId \union {NoLocal}],
           childHome' \in [Child -> Home \union {NoHome}]
    PROVE  BridgeTypeOK'
BY DEF BridgeTypeOK

\* A call that is not rough has all to itself.
LEMMA CallAlone ==
    ASSUME BridgeInv, ~rough, NEW i \in BridgeCall, ~CallAt(i, "idle")
    PROVE  /\ cascades = {}
           /\ \A g \in Home, c \in Child : fanout[g][c] = "none"
           /\ \A j \in BridgeCall : j # i => CallAt(j, "idle")
           /\ ChildOfCall(i)
           /\ \A c \in Child : c # call[i].child => WholeChild(c)
           /\ home = NoHome => \A c \in Child : childRow[c] = NoLocal
<1>1. OneThing /\ ChildrenInOrder /\ call[i].child \in Child
  BY CallTypes DEF BridgeInv
<1>2. cascades = {} /\ \A j \in BridgeCall : j # i => CallAt(j, "idle")
  BY <1>1 DEF OneThing
<1>3. \A c \in Child : c # call[i].child => WholeChild(c)
  BY <1>1, <1>2 DEF ChildrenInOrder
<1> QED BY <1>1, <1>2, <1>3 DEF OneThing, ChildrenInOrder

\* A call that goes on in order, or leaves its child whole, keeps the others.
LEMMA CallGoesOn ==
    ASSUME BridgeTypeOK', NEW i \in BridgeCall, NEW e \in BridgeJob, NEW c \in Child,
           BridgeTypeOK, call' = [call EXCEPT ![i] = e],
           UNCHANGED <<home, cascades, fanout>>,
           cascades = {},
           \A g \in Home, d \in Child : fanout[g][d] = "none",
           \A j \in BridgeCall : j # i => CallAt(j, "idle"),
           e.pc = "idle" \/ (e.child = c /\ ChildOfCall(i)'),
           e.pc = "idle" => WholeChild(c)',
           \A d \in Child : d # c => WholeChild(d)',
           home = NoHome => \A d \in Child : childRow'[d] = NoLocal
    PROVE  BridgeInv'
<1>1. call'[i] = e /\ \A j \in BridgeCall : j # i => call'[j] = call[j]
  BY DEF BridgeTypeOK
<1>2. OneThing'
  BY <1>1 DEF OneThing, CallAt
<1>3. \A j \in BridgeCall : ChildOfCall(j)'
  <2>1. ASSUME NEW j \in BridgeCall, call'[j].pc = "idle"
        PROVE  ChildOfCall(j)'
    BY <2>1 DEF ChildOfCall
  <2> QED BY <1>1, <2>1 DEF CallAt
<1>4. ChildrenInOrder'
  BY <1>1, <1>3 DEF ChildrenInOrder, CallAt
<1> QED BY <1>2, <1>4 DEF BridgeInv

\* Whatever is rough, only the types count.
LEMMA RoughHolds ==
    ASSUME BridgeTypeOK', rough'
    PROVE  BridgeInv'
BY DEF BridgeInv

\* An addition, and a removal, start with a child in order.
LEMMA RequestKeeps ==
    ASSUME BridgeInv, NEW i \in BridgeCall, NEW c \in Child,
           RemoveChild(i, c) \/ \E l \in LocalId : AddChild(i, c, l)
    PROVE  BridgeInv'
<1>0. BridgeTypeOK
  BY DEF BridgeInv
<1>1. /\ UNCHANGED <<home, childRow, childThing, childHome, cascades, fanout>>
      /\ rough' = (rough \/ ~Quiet)
  BY DEF RemoveChild, AddChild, Roughen
<1>2. \E e \in BridgeJob :
         /\ call' = [call EXCEPT ![i] = e] /\ e.child = c
         /\ \/ e.pc = "whose" /\ childRow[c] # NoLocal
            \/ e.pc = "group" /\ childRow[c] = NoLocal /\ e.localId \in LocalId
  <2>1. CASE RemoveChild(i, c)
    <3>1. PICK e : e = [NoBridgeJob EXCEPT !.pc = "whose", !.child = c]
      OBVIOUS
    <3>2. e \in BridgeJob /\ e.child = c /\ e.pc = "whose"
      BY <3>1, NoBridgeJobType DEF BridgeJob, CallPc
    <3> QED BY <2>1, <3>1, <3>2 DEF RemoveChild
  <2>2. ASSUME NEW l \in LocalId, AddChild(i, c, l)
        PROVE  \E e \in BridgeJob :
                  /\ call' = [call EXCEPT ![i] = e] /\ e.child = c
                  /\ e.pc = "group" /\ childRow[c] = NoLocal /\ e.localId \in LocalId
    <3>1. PICK e : e = [pc |-> "group", child |-> c, localId |-> l, group |-> NoHome]
      OBVIOUS
    <3>2. e \in BridgeJob /\ e.child = c /\ e.pc = "group" /\ e.localId = l
      BY <3>1 DEF BridgeJob, CallPc
    <3> QED BY <2>2, <3>1, <3>2 DEF AddChild
  <2> QED BY <2>1, <2>2
<1>3. PICK e \in BridgeJob :
         /\ call' = [call EXCEPT ![i] = e] /\ e.child = c
         /\ \/ e.pc = "whose" /\ childRow[c] # NoLocal
            \/ e.pc = "group" /\ childRow[c] = NoLocal /\ e.localId \in LocalId
  BY <1>2
<1>4. BridgeTypeOK'
  BY <1>0, <1>1, <1>3 DEF BridgeTypeOK
<1>5. CASE rough'
  BY <1>4, <1>5, RoughHolds
<1>6. CASE ~rough'
  <2>1. ~rough /\ Quiet /\ OneThing /\ ChildrenInOrder
    BY <1>1, <1>6 DEF BridgeInv
  <2>2. /\ \A d \in Child : WholeChild(d)
        /\ \A g \in Home, d \in Child : fanout[g][d] = "none"
        /\ home = NoHome => \A d \in Child : childRow[d] = NoLocal
    BY <2>1 DEF Quiet, ChildrenInOrder, OneThing
  <2>3. call'[i] = e
    BY <1>0, <1>3 DEF BridgeTypeOK
  <2>4. ChildOfCall(i)'
    BY <1>1, <1>3, <2>2, <2>3, BridgeConstants DEF ChildOfCall, WholeChild, NoChild
  <2>5. \A d \in Child : WholeChild(d)'
    BY <1>1, <2>2 DEF WholeChild
  <2> QED BY <1>0, <1>1, <1>3, <1>4, <2>1, <2>2, <2>4, <2>5, CallGoesOn DEF Quiet
<1> QED BY <1>5, <1>6

\* The step of a call keeps all when it leaves its own child in order.
LEMMA CallKeeps ==
    ASSUME BridgeInv, NEW i \in BridgeCall, ~CallAt(i, "idle"),
           NEW e \in BridgeJob, call' = [call EXCEPT ![i] = e],
           NEW c \in Child, c = call[i].child,
           UNCHANGED <<home, cascades, fanout, rough>>,
           childRow' \in [Child -> LocalId \union {NoLocal}],
           childThing' \in [Child -> LocalId \union {NoLocal}],
           childHome' \in [Child -> Home \union {NoHome}],
           \A d \in Child : d # c =>
               /\ childRow'[d] = childRow[d] /\ childThing'[d] = childThing[d]
               /\ childHome'[d] = childHome[d],
           ~rough => \/ e.pc = "idle" /\ WholeChild(c)'
                     \/ e.pc # "idle" /\ e.child = c /\ ChildOfCall(i)',
           ~rough /\ home = NoHome => childRow'[c] = NoLocal
    PROVE  BridgeInv'
<1>1. BridgeTypeOK /\ rough \in BOOLEAN
  BY DEF BridgeInv, BridgeTypeOK
<1>2. BridgeTypeOK'
  BY <1>1, CallTypeKept
<1>3. CASE rough
  BY <1>2, <1>3, RoughHolds
<1>4. CASE ~rough
  <2>1. /\ cascades = {}
        /\ \A g \in Home, d \in Child : fanout[g][d] = "none"
        /\ \A j \in BridgeCall : j # i => CallAt(j, "idle")
        /\ \A d \in Child : d # c => WholeChild(d)
        /\ home = NoHome => \A d \in Child : childRow[d] = NoLocal
    BY <1>4, CallAlone
  <2>2. \A d \in Child : d # c => WholeChild(d)'
    BY <2>1 DEF WholeChild
  <2>3. home = NoHome => \A d \in Child : childRow'[d] = NoLocal
    BY <1>4, <2>1
  <2>4. CASE e.pc = "idle" /\ WholeChild(c)'
    BY <1>1, <1>2, <2>1, <2>2, <2>3, <2>4, CallGoesOn
  <2>5. CASE e.child = c /\ ChildOfCall(i)' /\ e.pc # "idle"
    BY <1>1, <1>2, <2>1, <2>2, <2>3, <2>5, CallGoesOn
  <2> QED BY <1>4, <2>4, <2>5
<1> QED BY <1>3, <1>4

\* What a call that is not idle knows of its child, and of the table.
LEMMA CallKnows ==
    ASSUME BridgeInv, NEW i \in BridgeCall
    PROVE  /\ call[i] \in BridgeJob /\ call[i].child \in Child
           /\ home \in Home \union {NoHome}
           /\ childRow \in [Child -> LocalId \union {NoLocal}]
           /\ childThing \in [Child -> LocalId \union {NoLocal}]
           /\ childHome \in [Child -> Home \union {NoHome}]
           /\ \A e : call' = [call EXCEPT ![i] = e] => call'[i] = e
           /\ ~rough /\ ~CallAt(i, "idle") => ChildOfCall(i)
           /\ ~rough /\ ~CallAt(i, "idle") /\ home = NoHome =>
                 childRow[call[i].child] = NoLocal
<1>1. BridgeTypeOK
  BY DEF BridgeInv
<1>2. /\ call[i] \in BridgeJob /\ call[i].child \in Child
      /\ home \in Home \union {NoHome}
      /\ childRow \in [Child -> LocalId \union {NoLocal}]
      /\ childThing \in [Child -> LocalId \union {NoLocal}]
      /\ childHome \in [Child -> Home \union {NoHome}]
      /\ \A e : call' = [call EXCEPT ![i] = e] => call'[i] = e
  BY <1>1, CallTypes DEF BridgeTypeOK
<1>3. ASSUME ~rough, ~CallAt(i, "idle")
      PROVE  ChildOfCall(i) /\ (home = NoHome => childRow[call[i].child] = NoLocal)
  BY <1>2, <1>3, CallAlone
<1> QED BY <1>2, <1>3

\* The bridge's group is read, for an addition ...
LEMMA GetMyGroupKeeps ==
    ASSUME BridgeInv, NEW i \in BridgeCall, GetMyGroup(i)
    PROVE  BridgeInv'
<1>1. PICK c \in Child : c = call[i].child
  BY CallKnows
<1>2. PICK e : e = IF home = NoHome THEN NoBridgeJob
                   ELSE [call[i] EXCEPT !.pc = "thing", !.group = home]
  OBVIOUS
<1>3. /\ e \in BridgeJob
      /\ home = NoHome => e.pc = "idle"
      /\ home # NoHome => /\ e.pc = "thing" /\ e.child = c
                          /\ e.localId = call[i].localId /\ e.group = home
  BY <1>1, <1>2, CallKnows, NoBridgeJobType DEF BridgeJob, CallPc
<1>4. call' = [call EXCEPT ![i] = e] /\ call'[i] = e /\ ~CallAt(i, "idle")
  BY <1>2, CallKnows DEF GetMyGroup, CallAt
<1>5. UNCHANGED <<home, childRow, childThing, childHome, cascades, fanout, rough>>
  BY DEF GetMyGroup
<1>6. ~rough => NoChild(c) /\ call[i].localId \in LocalId
  BY <1>1, <1>4, CallKnows DEF ChildOfCall, GetMyGroup, CallAt
<1>7. ~rough /\ home = NoHome => e.pc = "idle" /\ WholeChild(c)'
  BY <1>3, <1>5, <1>6 DEF WholeChild, NoChild
<1>8. ~rough /\ home # NoHome => e.pc # "idle" /\ e.child = c /\ ChildOfCall(i)'
  BY <1>3, <1>4, <1>5, <1>6 DEF ChildOfCall, NoChild
<1>9. ~rough /\ home = NoHome => childRow'[c] = NoLocal
  BY <1>5, <1>6 DEF NoChild
<1> QED BY <1>1, <1>3, <1>4, <1>5, <1>7, <1>8, <1>9, CallKnows, CallKeeps

\* ... and for a removal.
LEMMA GetMyGroupToRemoveKeeps ==
    ASSUME BridgeInv, NEW i \in BridgeCall, GetMyGroupToRemove(i)
    PROVE  BridgeInv'
<1>1. PICK c \in Child : c = call[i].child
  BY CallKnows
<1>2. PICK e : e = [call[i] EXCEPT !.group = home,
                       !.pc = IF home = NoHome THEN "unthing" ELSE "disassoc"]
  OBVIOUS
<1>3. /\ e \in BridgeJob /\ e.child = c /\ e.group = home
      /\ home = NoHome => e.pc = "unthing"
      /\ home # NoHome => e.pc = "disassoc"
  BY <1>1, <1>2, CallKnows DEF BridgeJob, CallPc
<1>4. call' = [call EXCEPT ![i] = e] /\ call'[i] = e /\ ~CallAt(i, "idle")
  <2>1. call' = [call EXCEPT ![i] = e]
    BY <1>2 DEF GetMyGroupToRemove
  <2> QED BY <2>1, CallKnows DEF GetMyGroupToRemove, CallAt
<1>5. UNCHANGED <<home, childRow, childThing, childHome, cascades, fanout, rough>>
  BY DEF GetMyGroupToRemove
<1>6. ~rough => WholeChild(c) /\ childRow[c] # NoLocal
  BY <1>1, <1>4, CallKnows DEF ChildOfCall, GetMyGroupToRemove, CallAt
<1>7. ~rough /\ home = NoHome => childRow[c] = NoLocal
  BY <1>1, <1>4, CallKnows
<1>8. ~rough => e.pc # "idle" /\ e.child = c /\ ChildOfCall(i)'
  BY <1>3, <1>4, <1>5, <1>6, <1>7 DEF ChildOfCall, WholeChild
<1> QED BY <1>1, <1>3, <1>4, <1>5, <1>7, <1>8, CallKnows, CallKeeps

\* A thing is made for the child.
LEMMA CreateThingKeeps ==
    ASSUME BridgeInv, NEW i \in BridgeCall, CreateThing(i)
    PROVE  BridgeInv'
<1>1. PICK c \in Child : c = call[i].child
  BY CallKnows
<1>2. /\ ~CallAt(i, "idle") /\ call[i].pc = "thing"
      /\ UNCHANGED <<home, childRow, childHome, cascades, fanout, rough>>
  BY DEF CreateThing, CallAt
<1>3. /\ call[i].localId \in LocalId \union {NoLocal}
      /\ ~rough => NoChild(c) /\ call[i].localId \in LocalId
                   /\ call[i].group = home /\ home # NoHome
  BY <1>1, <1>2, CallKnows DEF ChildOfCall, BridgeJob
<1>4. CASE childThing[c] \in {NoLocal, call[i].localId}
  <2>1. childThing' = [childThing EXCEPT ![c] = call[i].localId] /\ CallGoto(i, "row")
    BY <1>1, <1>4 DEF CreateThing
  <2>2. PICK e \in BridgeJob :
           /\ call' = [call EXCEPT ![i] = e] /\ e.pc = "row" /\ e.child = c
           /\ e.localId = call[i].localId /\ e.group = call[i].group
    BY <1>1, <2>1, CallMoves DEF CallPc, BridgeInv
  <2>3. call'[i] = e
    BY <2>2, CallKnows
  <2>4. ~rough => ChildOfCall(i)'
    BY <1>2, <1>3, <2>1, <2>2, <2>3, CallKnows DEF ChildOfCall, NoChild
  <2>5. /\ childThing' \in [Child -> LocalId \union {NoLocal}]
        /\ \A d \in Child : d # c => childThing'[d] = childThing[d]
    BY <1>3, <2>1, CallKnows
  <2> QED BY <1>1, <1>2, <1>3, <2>2, <2>4, <2>5, CallKnows, CallKeeps, ZenonT(40) DEF NoChild
<1>5. CASE childThing[c] \notin {NoLocal, call[i].localId}
  <2>1. UNCHANGED childThing /\ CallDone(i)
    BY <1>1, <1>5 DEF CreateThing
  <2>2. PICK e \in BridgeJob : call' = [call EXCEPT ![i] = e] /\ e.pc = "idle"
    BY <2>1, CallMoves DEF BridgeInv
  <2>3. rough
    BY <1>3, <1>5 DEF NoChild
  <2> QED BY <1>1, <1>2, <2>1, <2>2, <2>3, CallKnows, CallKeeps
<1> QED BY <1>4, <1>5

\* A row is made for the child, or its thing is to go.
LEMMA CreateRowKeeps ==
    ASSUME BridgeInv, NEW i \in BridgeCall, CreateRow(i)
    PROVE  BridgeInv'
<1>1. PICK c \in Child : c = call[i].child
  BY CallKnows
<1>2. /\ ~CallAt(i, "idle") /\ call[i].pc = "row"
      /\ UNCHANGED <<home, childThing, childHome, cascades, fanout, rough>>
  BY DEF CreateRow, CallAt
<1>3. /\ call[i].localId \in LocalId \union {NoLocal}
      /\ ~rough => /\ childRow[c] = NoLocal /\ childThing[c] = call[i].localId
                   /\ childHome[c] = NoHome /\ call[i].localId \in LocalId
                   /\ call[i].group = home /\ home # NoHome
  BY <1>1, <1>2, CallKnows DEF ChildOfCall, BridgeJob
<1>4. CASE childRow[c] = NoLocal
  <2>1. childRow' = [childRow EXCEPT ![c] = call[i].localId] /\ CallGoto(i, "place")
    BY <1>1, <1>4 DEF CreateRow
  <2>2. PICK e \in BridgeJob :
           /\ call' = [call EXCEPT ![i] = e] /\ e.pc = "place" /\ e.child = c
           /\ e.localId = call[i].localId /\ e.group = call[i].group
    BY <1>1, <2>1, CallMoves DEF CallPc, BridgeInv
  <2>3. call'[i] = e
    BY <2>2, CallKnows
  <2>4. ~rough => ChildOfCall(i)'
    BY <1>2, <1>3, <2>1, <2>2, <2>3, CallKnows DEF ChildOfCall
  <2>5. /\ childRow' \in [Child -> LocalId \union {NoLocal}]
        /\ \A d \in Child : d # c => childRow'[d] = childRow[d]
    BY <1>3, <2>1, CallKnows
  <2> QED BY <1>1, <1>2, <1>3, <2>2, <2>4, <2>5, CallKnows, CallKeeps, ZenonT(40)
<1>5. CASE childRow[c] # NoLocal
  <2>1. UNCHANGED childRow /\ CallGoto(i, "undoThing")
    BY <1>1, <1>5 DEF CreateRow
  <2>2. PICK e \in BridgeJob : call' = [call EXCEPT ![i] = e]
                              /\ e.pc = "undoThing" /\ e.child = c
    BY <1>1, <2>1, CallMoves DEF CallPc, BridgeInv
  <2> QED BY <1>1, <1>2, <1>3, <1>5, <2>1, <2>2, CallKnows, CallKeeps
<1> QED BY <1>4, <1>5

\* The child gets its place in the bridge's group.
LEMMA PlaceChildKeeps ==
    ASSUME BridgeInv, NEW i \in BridgeCall, PlaceChild(i)
    PROVE  BridgeInv'
<1>1. PICK c \in Child : c = call[i].child
  BY CallKnows
<1>2. /\ ~CallAt(i, "idle") /\ call[i].pc = "place" /\ CallDone(i)
      /\ childHome' = [childHome EXCEPT ![c] = call[i].group]
      /\ UNCHANGED <<home, childRow, childThing, cascades, fanout, rough>>
  BY <1>1 DEF PlaceChild, CallAt
<1>3. /\ call[i].group \in Home \union {NoHome}
      /\ ~rough => /\ childRow[c] = call[i].localId /\ childThing[c] = call[i].localId
                   /\ call[i].localId \in LocalId /\ call[i].group = home
                   /\ home # NoHome
  BY <1>1, <1>2, CallKnows DEF ChildOfCall, BridgeJob
<1>4. PICK e \in BridgeJob : call' = [call EXCEPT ![i] = e] /\ e.pc = "idle"
  BY <1>2, CallMoves DEF BridgeInv
<1>5. ~rough => WholeChild(c)'
  BY <1>2, <1>3, CallKnows, BridgeConstants DEF WholeChild
<1>6. /\ childHome' \in [Child -> Home \union {NoHome}]
      /\ \A d \in Child : d # c => childHome'[d] = childHome[d]
  BY <1>2, <1>3, CallKnows
<1>8. /\ childRow' \in [Child -> LocalId \union {NoLocal}]
      /\ childThing' \in [Child -> LocalId \union {NoLocal}]
      /\ childHome' \in [Child -> Home \union {NoHome}]
      /\ \A d \in Child : d # c =>
            /\ childRow'[d] = childRow[d] /\ childThing'[d] = childThing[d]
            /\ childHome'[d] = childHome[d]
  BY <1>2, <1>6, CallKnows
<1>9. ~rough /\ home = NoHome => childRow'[c] = NoLocal
  BY <1>2, <1>3
<1>10. ~CallAt(i, "idle") /\ UNCHANGED <<home, cascades, fanout, rough>>
  BY <1>2
<1> QED BY <1>1, <1>3, <1>4, <1>5, <1>6, <1>8, <1>9, <1>10, CallKeeps

\* What was made of the child is to be undone.
LEMMA FailuresKeep ==
    ASSUME BridgeInv, NEW i \in BridgeCall, PlaceFails(i) \/ CreateRowFails(i)
    PROVE  BridgeInv'
<1>1. PICK c \in Child : c = call[i].child
  BY CallKnows
<1>2. /\ ~CallAt(i, "idle") /\ call[i].pc \in {"place", "row"}
      /\ UNCHANGED <<home, childRow, childThing, childHome, cascades, fanout, rough>>
      /\ call[i].pc = "place" => CallGoto(i, "undoRow")
      /\ call[i].pc = "row" => CallGoto(i, "undoThing")
  BY DEF PlaceFails, CreateRowFails, CallAt
<1>3. PICK e \in BridgeJob :
         /\ call' = [call EXCEPT ![i] = e] /\ e.child = c
         /\ e.localId = call[i].localId
         /\ e.pc = IF call[i].pc = "place" THEN "undoRow" ELSE "undoThing"
  BY <1>1, <1>2, CallMoves DEF CallPc, BridgeInv
<1>4. call'[i] = e
  BY <1>3, CallKnows
<1>5. ~rough => ChildOfCall(i)
  BY <1>2, CallKnows
<1>6. ~rough => ChildOfCall(i)'
  BY <1>1, <1>2, <1>3, <1>4, <1>5 DEF ChildOfCall
<1>7. ~rough /\ home = NoHome => childRow'[c] = NoLocal
  BY <1>1, <1>2, CallKnows
<1> QED BY <1>1, <1>2, <1>3, <1>6, <1>7, CallKnows, CallKeeps

\* The child leaves the bridge's group.
LEMMA DisassocChildKeeps ==
    ASSUME BridgeInv, NEW i \in BridgeCall, DisassocChild(i)
    PROVE  BridgeInv'
<1>1. PICK c \in Child : c = call[i].child
  BY CallKnows
<1>2. /\ ~CallAt(i, "idle") /\ call[i].pc = "disassoc"
      /\ UNCHANGED <<home, childRow, childThing, cascades, fanout, rough>>
  BY DEF DisassocChild, CallAt
<1>3. ~rough => /\ WholeChild(c) /\ childRow[c] # NoLocal
                /\ call[i].group = home /\ home # NoHome
  BY <1>1, <1>2, CallKnows DEF ChildOfCall
<1>4. CASE childHome[c] = call[i].group
  <2>1. childHome' = [childHome EXCEPT ![c] = NoHome] /\ CallGoto(i, "unthing")
    BY <1>1, <1>4 DEF DisassocChild
  <2>2. PICK e \in BridgeJob : call' = [call EXCEPT ![i] = e]
                              /\ e.pc = "unthing" /\ e.child = c
    BY <1>1, <2>1, CallMoves DEF CallPc, BridgeInv
  <2>3. call'[i] = e
    BY <2>2, CallKnows
  <2>4. ChildOfCall(i)'
    BY <2>1, <2>2, <2>3, CallKnows DEF ChildOfCall
  <2>5. /\ childHome' \in [Child -> Home \union {NoHome}]
        /\ \A d \in Child : d # c => childHome'[d] = childHome[d]
    BY <2>1, CallKnows
  <2>8. /\ childRow' \in [Child -> LocalId \union {NoLocal}]
        /\ childThing' \in [Child -> LocalId \union {NoLocal}]
        /\ childHome' \in [Child -> Home \union {NoHome}]
        /\ \A d \in Child : d # c =>
              /\ childRow'[d] = childRow[d] /\ childThing'[d] = childThing[d]
              /\ childHome'[d] = childHome[d]
    BY <1>2, <2>5, CallKnows
  <2>9. ~rough /\ home = NoHome => childRow'[c] = NoLocal
    BY <1>3
  <2> QED BY <1>1, <1>2, <1>3, <2>2, <2>4, <2>5, <2>8, <2>9, CallKeeps
<1>5. CASE childHome[c] # call[i].group
  <2>1. UNCHANGED childHome /\ CallDone(i)
    BY <1>1, <1>5 DEF DisassocChild
  <2>2. PICK e \in BridgeJob : call' = [call EXCEPT ![i] = e] /\ e.pc = "idle"
    BY <2>1, CallMoves DEF BridgeInv
  <2>3. rough
    BY <1>3, <1>5 DEF WholeChild
  <2> QED BY <1>1, <1>2, <2>1, <2>2, <2>3, CallKnows, CallKeeps
<1> QED BY <1>4, <1>5

\* The thing goes, as the last call or as the last but one.
LEMMA DeleteThingKeeps ==
    ASSUME BridgeInv, NEW i \in BridgeCall, DeleteThing(i)
    PROVE  BridgeInv'
<1>1. PICK c \in Child : c = call[i].child
  BY CallKnows
<1>2. /\ ~CallAt(i, "idle") /\ call[i].pc \in {"unthing", "undoThing"}
      /\ childThing' = [childThing EXCEPT ![c] = NoLocal]
      /\ UNCHANGED <<home, childRow, childHome, cascades, fanout, rough>>
      /\ call[i].pc = "unthing" => CallGoto(i, "unrow")
      /\ call[i].pc = "undoThing" => CallDone(i)
  BY <1>1 DEF DeleteThing, WithoutThing, CallAt
<1>3. ~rough => /\ childHome[c] = NoHome
                /\ call[i].pc = "undoThing" => childRow[c] = NoLocal
  BY <1>1, <1>2, CallKnows DEF ChildOfCall
<1>4. /\ childThing' \in [Child -> LocalId \union {NoLocal}]
      /\ childThing'[c] = NoLocal
      /\ \A d \in Child : d # c => childThing'[d] = childThing[d]
  BY <1>2, CallKnows
<1>5. ~rough /\ home = NoHome => childRow'[c] = NoLocal
  BY <1>1, <1>2, CallKnows
<1>6. CASE call[i].pc = "unthing"
  <2>1. PICK e \in BridgeJob : call' = [call EXCEPT ![i] = e]
                              /\ e.pc = "unrow" /\ e.child = c
    BY <1>1, <1>2, <1>6, CallMoves DEF CallPc, BridgeInv
  <2>2. call'[i] = e
    BY <2>1, CallKnows
  <2>3. ~rough => ChildOfCall(i)'
    BY <1>2, <1>3, <1>4, <2>1, <2>2 DEF ChildOfCall
  <2>8. /\ childRow' \in [Child -> LocalId \union {NoLocal}]
        /\ childThing' \in [Child -> LocalId \union {NoLocal}]
        /\ childHome' \in [Child -> Home \union {NoHome}]
        /\ \A d \in Child : d # c =>
              /\ childRow'[d] = childRow[d] /\ childThing'[d] = childThing[d]
              /\ childHome'[d] = childHome[d]
    BY <1>2, <1>4, CallKnows
  <2>9. ~rough /\ home = NoHome => childRow'[c] = NoLocal
    BY <1>5
  <2>10. ~CallAt(i, "idle") /\ UNCHANGED <<home, cascades, fanout, rough>>
    BY <1>2
  <2> QED BY <1>1, <1>5, <2>1, <2>3, <2>8, <2>9, <2>10, CallKeeps
<1>7. CASE call[i].pc = "undoThing"
  <2>1. PICK e \in BridgeJob : call' = [call EXCEPT ![i] = e] /\ e.pc = "idle"
    BY <1>2, <1>7, CallMoves DEF BridgeInv
  <2>2. ~rough => WholeChild(c)'
    BY <1>2, <1>3, <1>4, <1>7 DEF WholeChild
  <2>8. /\ childRow' \in [Child -> LocalId \union {NoLocal}]
        /\ childThing' \in [Child -> LocalId \union {NoLocal}]
        /\ childHome' \in [Child -> Home \union {NoHome}]
        /\ \A d \in Child : d # c =>
              /\ childRow'[d] = childRow[d] /\ childThing'[d] = childThing[d]
              /\ childHome'[d] = childHome[d]
    BY <1>2, <1>4, CallKnows
  <2>9. ~rough /\ home = NoHome => childRow'[c] = NoLocal
    BY <1>5
  <2>10. ~CallAt(i, "idle") /\ UNCHANGED <<home, cascades, fanout, rough>>
    BY <1>2
  <2> QED BY <1>1, <1>5, <2>1, <2>2, <2>8, <2>9, <2>10, CallKeeps
<1> QED BY <1>2, <1>6, <1>7

\* The row goes, as the last call or before the thing.
LEMMA DeleteChildKeeps ==
    ASSUME BridgeInv, NEW i \in BridgeCall, DeleteChild(i)
    PROVE  BridgeInv'
<1>1. PICK c \in Child : c = call[i].child
  BY CallKnows
<1>2. /\ ~CallAt(i, "idle") /\ call[i].pc \in {"unrow", "undoRow"}
      /\ childRow' = [childRow EXCEPT ![c] = NoLocal]
      /\ UNCHANGED <<home, childThing, childHome, cascades, fanout, rough>>
      /\ call[i].pc = "undoRow" => CallGoto(i, "undoThing")
      /\ call[i].pc = "unrow" => CallDone(i)
  BY <1>1 DEF DeleteChild, CallAt
<1>3. ~rough => /\ childHome[c] = NoHome
                /\ call[i].pc = "unrow" => childThing[c] = NoLocal
  BY <1>1, <1>2, CallKnows DEF ChildOfCall
<1>4. /\ childRow' \in [Child -> LocalId \union {NoLocal}]
      /\ childRow'[c] = NoLocal
      /\ \A d \in Child : d # c => childRow'[d] = childRow[d]
  BY <1>2, CallKnows
<1>5. CASE call[i].pc = "undoRow"
  <2>1. PICK e \in BridgeJob : call' = [call EXCEPT ![i] = e]
                              /\ e.pc = "undoThing" /\ e.child = c
    BY <1>1, <1>2, <1>5, CallMoves DEF CallPc, BridgeInv
  <2>2. call'[i] = e
    BY <2>1, CallKnows
  <2>3. ~rough => ChildOfCall(i)'
    BY <1>2, <1>3, <1>4, <2>1, <2>2 DEF ChildOfCall
  <2>8. /\ childRow' \in [Child -> LocalId \union {NoLocal}]
        /\ childThing' \in [Child -> LocalId \union {NoLocal}]
        /\ childHome' \in [Child -> Home \union {NoHome}]
        /\ \A d \in Child : d # c =>
              /\ childRow'[d] = childRow[d] /\ childThing'[d] = childThing[d]
              /\ childHome'[d] = childHome[d]
    BY <1>2, <1>4, CallKnows
  <2>9. ~rough /\ home = NoHome => childRow'[c] = NoLocal
    BY <1>4
  <2>10. ~CallAt(i, "idle") /\ UNCHANGED <<home, cascades, fanout, rough>>
    BY <1>2
  <2> QED BY <1>1, <2>1, <2>3, <2>8, <2>9, <2>10, CallKeeps
<1>6. CASE call[i].pc = "unrow"
  <2>1. PICK e \in BridgeJob : call' = [call EXCEPT ![i] = e] /\ e.pc = "idle"
    BY <1>2, <1>6, CallMoves DEF BridgeInv
  <2>2. ~rough => WholeChild(c)'
    BY <1>2, <1>3, <1>4, <1>6 DEF WholeChild
  <2>8. /\ childRow' \in [Child -> LocalId \union {NoLocal}]
        /\ childThing' \in [Child -> LocalId \union {NoLocal}]
        /\ childHome' \in [Child -> Home \union {NoHome}]
        /\ \A d \in Child : d # c =>
              /\ childRow'[d] = childRow[d] /\ childThing'[d] = childThing[d]
              /\ childHome'[d] = childHome[d]
    BY <1>2, <1>4, CallKnows
  <2>9. ~rough /\ home = NoHome => childRow'[c] = NoLocal
    BY <1>4
  <2>10. ~CallAt(i, "idle") /\ UNCHANGED <<home, cascades, fanout, rough>>
    BY <1>2
  <2> QED BY <1>1, <2>1, <2>2, <2>8, <2>9, <2>10, CallKeeps
<1> QED BY <1>2, <1>5, <1>6

\* A call that fails where nothing is undone leaves things rough.
LEMMA CallAbortsKeeps ==
    ASSUME BridgeInv, NEW i \in BridgeCall, CallAborts(i)
    PROVE  BridgeInv'
<1>1. PICK e \in BridgeJob : call' = [call EXCEPT ![i] = e] /\ e.pc = "idle"
  BY CallMoves DEF CallAborts, BridgeInv
<1>2. /\ UNCHANGED <<home, childRow, childThing, childHome, cascades, fanout>>
      /\ rough' = TRUE
  BY DEF CallAborts
<1>3. BridgeTypeOK'
  BY <1>1, <1>2, CallTypeKept, CallKnows DEF BridgeInv
<1> QED BY <1>2, <1>3, RoughHolds

\* With nothing under way every child is whole; with an event under way no call is.
LEMMA BridgeKnows ==
    ASSUME BridgeInv, ~rough
    PROVE  /\ OneThing /\ ChildrenInOrder /\ BridgeTypeOK
           /\ Quiet => \A c \in Child : WholeChild(c)
           /\ \A g \in Home, c \in Child :
                 g \in cascades \/ fanout[g][c] # "none" =>
                    /\ cascades = {g} /\ \A i \in BridgeCall : CallAt(i, "idle")
                    /\ \A d \in Child : ChildOfCascade(g, d)
<1>1. OneThing /\ ChildrenInOrder /\ BridgeTypeOK
  BY DEF BridgeInv
<1>2. Quiet => \A c \in Child : WholeChild(c)
  BY <1>1 DEF ChildrenInOrder, Quiet
<1>3. ASSUME NEW g \in Home, NEW c \in Child, g \in cascades \/ fanout[g][c] # "none"
      PROVE  /\ cascades = {g} /\ \A i \in BridgeCall : CallAt(i, "idle")
             /\ \A d \in Child : ChildOfCascade(g, d)
  <2>1. g \in cascades
    BY <1>1, <1>3 DEF OneThing
  <2> QED BY <1>1, <2>1 DEF OneThing, ChildrenInOrder
<1> QED BY <1>1, <1>2, <1>3

\* No call is under way: only the events count.
LEMMA CascadeGoesOn ==
    ASSUME BridgeTypeOK', NEW g \in Home, UNCHANGED call, \A i \in BridgeCall : CallAt(i, "idle"),
           cascades' \subseteq {g},
           \A h \in Home, d \in Child : fanout'[h][d] # "none" => h \in cascades',
           g \in cascades' => \A d \in Child : ChildOfCascade(g, d)',
           g \notin cascades' => \A d \in Child : WholeChild(d)',
           g \notin cascades' /\ home' = NoHome => \A d \in Child : childRow'[d] = NoLocal
    PROVE  BridgeInv'
<1>1. \A i \in BridgeCall : CallAt(i, "idle")'
  BY DEF CallAt
<1>2. OneThing'
  BY <1>1 DEF OneThing
<1>3. \A i \in BridgeCall : ChildOfCall(i)'
  BY <1>1 DEF ChildOfCall, CallAt
<1>4. CASE g \in cascades'
  <2>1. \A h \in cascades' : h = g
    OBVIOUS
  <2>2. \A d \in Child : \A h \in cascades' : ChildOfCascade(h, d)'
    BY <1>4, <2>1
  <2>3. ChildrenInOrder'
    BY <1>3, <1>4, <2>2 DEF ChildrenInOrder
  <2> QED BY <1>2, <2>3 DEF BridgeInv
<1>5. CASE g \notin cascades'
  <2>1. cascades' = {}
    BY <1>5
  <2>2. ChildrenInOrder'
    BY <1>3, <1>5, <2>1 DEF ChildrenInOrder
  <2> QED BY <1>2, <2>2 DEF BridgeInv
<1> QED BY <1>4, <1>5

\* The bridge moves, and the event tells that it left.
LEMMA MoveBridgeKeeps ==
    ASSUME BridgeInv, NEW g \in Home \union {NoHome}, MoveBridge(g)
    PROVE  BridgeInv'
<1>1. /\ home # g /\ home' = g
      /\ UNCHANGED <<childRow, childThing, childHome, fanout, call>>
      /\ \/ /\ cascades' = IF home = NoHome THEN cascades ELSE cascades \union {home}
            /\ rough' = (rough \/ ~Quiet)
         \/ cascades' = cascades /\ rough' = TRUE
  BY DEF MoveBridge, Roughen
<1>2. BridgeTypeOK
  BY DEF BridgeInv
<1>3. BridgeTypeOK'
  BY <1>1, <1>2 DEF BridgeTypeOK
<1>4. CASE rough'
  BY <1>3, <1>4, RoughHolds
<1>5. CASE ~rough'
  <2>1. ~rough /\ Quiet /\ cascades' = IF home = NoHome THEN {} ELSE {home}
    BY <1>1, <1>5 DEF Quiet
  <2>2. /\ \A d \in Child : WholeChild(d)
        /\ \A h \in Home, d \in Child : fanout[h][d] = "none"
        /\ home = NoHome => \A d \in Child : childRow[d] = NoLocal
        /\ \A i \in BridgeCall : CallAt(i, "idle")
    BY <2>1, BridgeKnows DEF Quiet, OneThing, ChildrenInOrder
  <2>3. CASE home = NoHome
    <3>1. \A d \in Child : WholeChild(d)'
      BY <1>1, <2>2, <2>3 DEF WholeChild
    <3>2. g \in Home /\ home' # NoHome /\ cascades' = {}
      BY <1>1, <2>1, <2>3
    <3> QED BY <1>1, <1>3, <2>2, <3>1, <3>2, CascadeGoesOn
  <2>4. CASE home # NoHome
    <3>1. home \in Home /\ cascades' = {home}
      BY <1>2, <2>1, <2>4 DEF BridgeTypeOK
    <3>2. PICK h \in Home : h = home
      BY <3>1
    <3>3. ~Fanning(h)' /\ \A d \in Child : fanout'[h][d] = "none"
      BY <1>1, <2>2 DEF Fanning
    <3>4. \A d \in Child : ChildOfCascade(h, d)'
      BY <1>1, <2>2, <3>2, <3>3 DEF ChildOfCascade, WholeChild
    <3> QED BY <1>1, <1>3, <2>2, <3>1, <3>2, <3>4, CascadeGoesOn
  <2> QED BY <2>3, <2>4
<1> QED BY <1>4, <1>5

\* The children are listed, or there is none.
LEMMA StartCascadeKeeps ==
    ASSUME BridgeInv, NEW g \in Home, StartCascade(g)
    PROVE  BridgeInv'
<1>1. /\ g \in cascades /\ ~Fanning(g)
      /\ UNCHANGED <<home, childRow, childThing, childHome, call, rough>>
  BY DEF StartCascade
<1>2. PICK f : f = [c \in Child |-> IF childRow[c] = NoLocal THEN "none" ELSE "disassoc"]
  OBVIOUS
<1>3. f \in [Child -> Stage]
  BY <1>2 DEF Stage
<1>4. \/ /\ \E c \in Child : childRow[c] # NoLocal
         /\ fanout' = [fanout EXCEPT ![g] = f] /\ cascades' = cascades
      \/ /\ \A c \in Child : childRow[c] = NoLocal
         /\ fanout' = fanout /\ cascades' = cascades \ {g}
  BY <1>2 DEF StartCascade
<1>5. BridgeTypeOK
  BY DEF BridgeInv
<1>6. BridgeTypeOK'
  BY <1>1, <1>3, <1>4, <1>5 DEF BridgeTypeOK
<1>7. CASE rough'
  BY <1>6, <1>7, RoughHolds
<1>8. CASE ~rough'
  <2>0. \E c \in Child : TRUE
    BY BridgeConstants
  <2>1. /\ cascades = {g} /\ \A i \in BridgeCall : CallAt(i, "idle")
        /\ \A d \in Child : ChildOfCascade(g, d)
    BY <1>1, <1>8, <2>0, BridgeKnows
  <2>2. \A d \in Child : childThing[d] = childRow[d]
                       /\ childHome[d] = IF childRow[d] = NoLocal THEN NoHome ELSE g
    BY <1>1, <2>1 DEF ChildOfCascade
  <2>3. \A h \in Home, d \in Child : fanout[h][d] # "none" => h = g
    BY <1>1, <1>8, <2>1, BridgeKnows DEF OneThing
  <2>4. \A d \in Child : fanout[g][d] = "none"
    BY <1>1 DEF Fanning
  <2>5. CASE \A c \in Child : childRow[c] = NoLocal
    <3>1. fanout' = fanout /\ cascades' = {}
      BY <1>4, <2>1, <2>5
    <3>2. \A d \in Child : WholeChild(d)'
      BY <1>1, <2>2, <2>5 DEF WholeChild
    <3> QED BY <1>1, <1>6, <2>1, <2>3, <2>4, <2>5, <3>1, <3>2, CascadeGoesOn
  <2>6. CASE \E c \in Child : childRow[c] # NoLocal
    <3>1. fanout' = [fanout EXCEPT ![g] = f] /\ cascades' = {g}
      BY <1>4, <2>1, <2>6
    <3>2. /\ fanout'[g] = f
          /\ \A h \in Home : h # g => fanout'[h] = fanout[h]
      BY <1>5, <3>1 DEF BridgeTypeOK
    <3>3. \A h \in Home, d \in Child : fanout'[h][d] # "none" => h \in cascades'
      BY <2>3, <3>1, <3>2
    <3>4. /\ Fanning(g)'
          /\ \A d \in Child : fanout'[g][d] =
                   IF childRow[d] = NoLocal THEN "none" ELSE "disassoc"
      BY <1>2, <2>6, <3>2 DEF Fanning
    <3>5. \A d \in Child : ChildOfCascade(g, d)'
      BY <1>1, <2>2, <3>4 DEF ChildOfCascade, NoChild
    <3> QED BY <1>1, <1>6, <2>1, <3>1, <3>3, <3>5, CascadeGoesOn
  <2> QED BY <2>5, <2>6
<1> QED BY <1>7, <1>8

\* The fan-out of an event goes on with one child, or ends.
LEMMA FanKeeps ==
    ASSUME BridgeInv, NEW g \in Home, NEW c \in Child, fanout[g][c] # "none",
           NEW stage \in Stage, Fan(g, c, stage), UNCHANGED <<home, call, rough>>,
           childRow' \in [Child -> LocalId \union {NoLocal}],
           childThing' \in [Child -> LocalId \union {NoLocal}],
           childHome' \in [Child -> Home \union {NoHome}],
           \A d \in Child : d # c =>
               /\ childRow'[d] = childRow[d] /\ childThing'[d] = childThing[d]
               /\ childHome'[d] = childHome[d],
           childRow[c] = NoLocal => childRow'[c] = NoLocal,
           stage # "disassoc",
           ~rough => /\ stage = "none" => NoChild(c)'
                     /\ stage \in {"thing", "row"} => childHome'[c] = NoHome
                     /\ stage = "row" => childThing'[c] = NoLocal
    PROVE  BridgeInv'
<1>1. PICK f : f = [fanout[g] EXCEPT ![c] = stage]
  OBVIOUS
<1>2. BridgeTypeOK
  BY DEF BridgeInv
<1>3. fanout[g] \in [Child -> Stage]
  BY <1>2 DEF BridgeTypeOK
<1>4. /\ f \in [Child -> Stage] /\ f[c] = stage
      /\ \A d \in Child : d # c => f[d] = fanout[g][d]
  BY <1>1, <1>3
<1>5. /\ fanout' = [fanout EXCEPT ![g] = f]
      /\ cascades' = IF stage = "none" /\ \A d \in Child \ {c} : fanout[g][d] = "none"
                     THEN cascades \ {g} ELSE cascades
  BY <1>1 DEF Fan
<1>6. fanout' \in [Home -> [Child -> Stage]] /\ cascades' \subseteq Home
  BY <1>2, <1>4, <1>5 DEF BridgeTypeOK
<1>7. BridgeTypeOK'
  BY <1>2, <1>6 DEF BridgeTypeOK
<1>8. CASE rough'
  BY <1>7, <1>8, RoughHolds
<1>9. CASE ~rough'
  <2>1. /\ cascades = {g} /\ \A i \in BridgeCall : CallAt(i, "idle")
        /\ \A d \in Child : ChildOfCascade(g, d)
    BY <1>9, BridgeKnows
  <2>2. \A h \in Home, d \in Child : fanout[h][d] # "none" => h = g
    BY <1>9, <2>1, BridgeKnows DEF OneThing
  <2>3. fanout'[g] = f /\ \A h \in Home : h # g => fanout'[h] = fanout[h]
    BY <1>2, <1>5 DEF BridgeTypeOK
  <2>4. Fanning(g)
    BY DEF Fanning
  <2>5. CASE stage = "none" /\ \A d \in Child \ {c} : fanout[g][d] = "none"
    <3>1. \A d \in Child : d # c => NoChild(d)
      BY <2>1, <2>4, <2>5 DEF ChildOfCascade
    <3>2. \A d \in Child : NoChild(d)'
      <4>1. NoChild(c)'
        BY <1>9, <2>5
      <4> QED BY <3>1, <4>1 DEF NoChild
    <3>3. \A d \in Child : WholeChild(d)' /\ childRow'[d] = NoLocal
      BY <3>2 DEF NoChild, WholeChild
    <3>4. cascades' = {}
      BY <1>5, <2>1, <2>5
    <3>5. \A h \in Home, d \in Child : fanout'[h][d] = "none"
      BY <1>4, <2>2, <2>3, <2>5
    <3> QED BY <1>7, <2>1, <3>3, <3>4, <3>5, CascadeGoesOn
  <2>6. CASE ~(stage = "none" /\ \A d \in Child \ {c} : fanout[g][d] = "none")
    <3>1. cascades' = {g}
      BY <1>5, <2>1, <2>6
    <3>2. \A h \in Home, d \in Child : fanout'[h][d] # "none" => h \in cascades'
      BY <2>2, <2>3, <3>1
    <3>3. Fanning(g)'
      BY <1>4, <2>3, <2>6 DEF Fanning
    <3>4. ChildOfCascade(g, c)'
      BY <1>4, <1>9, <2>3, <3>3 DEF ChildOfCascade
    <3>5. \A d \in Child : d # c => ChildOfCascade(g, d)'
      BY <1>4, <2>1, <2>3, <2>4, <3>3 DEF ChildOfCascade, NoChild
    <3> QED BY <1>7, <2>1, <3>1, <3>2, <3>4, <3>5, CascadeGoesOn
  <2> QED BY <2>5, <2>6
<1> QED BY <1>8, <1>9

\* One call of the fan-out, for one child.
LEMMA CascadeKeeps ==
    ASSUME BridgeInv, NEW g \in Home, NEW c \in Child, CascadeStep(g, c)
    PROVE  BridgeInv'
<1>1. BridgeTypeOK
  BY DEF BridgeInv
<1>2. ~rough /\ fanout[g][c] # "none" => ChildOfCascade(g, c)
  BY BridgeKnows
<1>3. CASE CascadeDisassoc(g, c)
  <2>1. /\ fanout[g][c] = "disassoc" /\ Fan(g, c, "thing")
        /\ UNCHANGED <<home, childRow, childThing, call, rough>>
    BY <1>3 DEF CascadeDisassoc
  <2>2. /\ childHome' \in [Child -> Home \union {NoHome}]
        /\ \A d \in Child : d # c => childHome'[d] = childHome[d]
    BY <1>1, <1>3 DEF CascadeDisassoc, BridgeTypeOK
  <2>3. ~rough => childHome'[c] = NoHome
    BY <1>1, <1>2, <1>3, <2>1 DEF CascadeDisassoc, ChildOfCascade, BridgeTypeOK
  <2> QED BY <1>1, <2>1, <2>2, <2>3, FanKeeps DEF BridgeTypeOK, Stage
<1>4. CASE CascadeDeleteThing(g, c)
  <2>1. /\ fanout[g][c] = "thing" /\ Fan(g, c, "row")
        /\ UNCHANGED <<home, childRow, childHome, call, rough>>
    BY <1>4 DEF CascadeDeleteThing
  <2>2. /\ childThing' \in [Child -> LocalId \union {NoLocal}]
        /\ childThing'[c] = NoLocal
        /\ \A d \in Child : d # c => childThing'[d] = childThing[d]
    BY <1>1, <1>4 DEF CascadeDeleteThing, WithoutThing, BridgeTypeOK
  <2>3. ~rough => childHome'[c] = NoHome
    BY <1>2, <2>1 DEF ChildOfCascade
  <2> QED BY <1>1, <2>1, <2>2, <2>3, FanKeeps DEF BridgeTypeOK, Stage
<1>5. CASE CascadeDeleteRow(g, c)
  <2>1. /\ fanout[g][c] = "row" /\ Fan(g, c, "none")
        /\ UNCHANGED <<home, childThing, childHome, call, rough>>
    BY <1>5 DEF CascadeDeleteRow
  <2>2. /\ childRow' \in [Child -> LocalId \union {NoLocal}]
        /\ childRow'[c] = NoLocal
        /\ \A d \in Child : d # c => childRow'[d] = childRow[d]
    BY <1>1, <1>5 DEF CascadeDeleteRow, BridgeTypeOK
  <2>3. ~rough => NoChild(c)'
    BY <1>2, <2>1, <2>2 DEF ChildOfCascade, NoChild
  <2> QED BY <1>1, <2>1, <2>2, <2>3, FanKeeps DEF BridgeTypeOK, Stage
<1> QED BY <1>3, <1>4, <1>5 DEF CascadeStep

\* A call of the fan-out that fails leaves things rough.
LEMMA CascadeFailsKeeps ==
    ASSUME BridgeInv, NEW g \in Home, NEW c \in Child, CascadeCallFails(g, c)
    PROVE  BridgeInv'
<1>1. PICK stage \in Stage : Fan(g, c, stage)
  BY DEF CascadeCallFails, Stage
<1>2. rough' = TRUE /\ UNCHANGED <<home, childRow, childThing, childHome, call>>
  BY DEF CascadeCallFails
<1>3. BridgeTypeOK
  BY DEF BridgeInv
<1>4. [fanout[g] EXCEPT ![c] = stage] \in [Child -> Stage]
  BY <1>3 DEF BridgeTypeOK
<1>5. fanout' \in [Home -> [Child -> Stage]] /\ cascades' \subseteq Home
  BY <1>1, <1>3, <1>4 DEF BridgeTypeOK, Fan
<1>6. BridgeTypeOK'
  BY <1>2, <1>3, <1>5 DEF BridgeTypeOK
<1> QED BY <1>2, <1>6, RoughHolds

\* Every step keeps the invariant.
LEMMA BridgeStepKeeps ==
    ASSUME BridgeInv, [BridgeNext]_bridgeVars
    PROVE  BridgeInv'
<1>1. ASSUME NEW g \in Home \union {NoHome}, MoveBridge(g)
      PROVE  BridgeInv'
  BY <1>1, MoveBridgeKeeps
<1>2. ASSUME NEW i \in BridgeCall, CallStep(i)
      PROVE  BridgeInv'
  BY <1>2, GetMyGroupKeeps, CreateThingKeeps, CreateRowKeeps, PlaceChildKeeps,
     GetMyGroupToRemoveKeeps, DisassocChildKeeps, DeleteThingKeeps, DeleteChildKeeps
     DEF CallStep
<1>3. ASSUME NEW i \in BridgeCall, PlaceFails(i) \/ CreateRowFails(i) \/ CallAborts(i)
      PROVE  BridgeInv'
  BY <1>3, FailuresKeep, CallAbortsKeeps
<1>4. ASSUME NEW i \in BridgeCall, NEW c \in Child,
             RemoveChild(i, c) \/ \E l \in LocalId : AddChild(i, c, l)
      PROVE  BridgeInv'
  BY <1>4, RequestKeeps
<1>5. ASSUME NEW g \in Home, StartCascade(g)
      PROVE  BridgeInv'
  BY <1>5, StartCascadeKeeps
<1>6. ASSUME NEW g \in Home, NEW c \in Child, CascadeStep(g, c) \/ CascadeCallFails(g, c)
      PROVE  BridgeInv'
  BY <1>6, CascadeKeeps, CascadeFailsKeeps
<1>7. CASE UNCHANGED bridgeVars
  <2>1. UNCHANGED <<home, childRow, childThing, childHome, cascades, fanout, call, rough>>
    BY <1>7 DEF bridgeVars
  <2>2. BridgeTypeOK'
    BY <2>1 DEF BridgeInv, BridgeTypeOK
  <2>3. OneThing => OneThing'
    BY <2>1 DEF OneThing, CallAt
  <2>4. \A c \in Child : (WholeChild(c) => WholeChild(c)') /\ (NoChild(c) => NoChild(c)')
    BY <2>1 DEF WholeChild, NoChild
  <2>5. \A i \in BridgeCall : ChildOfCall(i) => ChildOfCall(i)'
    BY <2>1 DEF ChildOfCall, WholeChild, NoChild
  <2>6. \A g \in Home, c \in Child : ChildOfCascade(g, c) => ChildOfCascade(g, c)'
    BY <2>1 DEF ChildOfCascade, Fanning, NoChild
  <2>7. cascades \subseteq Home
    BY DEF BridgeInv, BridgeTypeOK
  <2>8. ChildrenInOrder => ChildrenInOrder'
    BY <2>1, <2>4, <2>5, <2>6, <2>7 DEF ChildrenInOrder, CallAt
  <2> QED BY <2>1, <2>2, <2>3, <2>8 DEF BridgeInv
<1> QED BY <1>1, <1>2, <1>3, <1>4, <1>5, <1>6, <1>7 DEF BridgeNext

\* A bridge starts in no group, without children.
LEMMA BridgeInitial == ASSUME BridgeInit PROVE BridgeInv
<1>1. BridgeTypeOK
  BY NoBridgeJobType DEF BridgeInit, BridgeTypeOK, Stage
<1>2. \A i \in BridgeCall : CallAt(i, "idle")
  BY NoBridgeJobType DEF BridgeInit, CallAt
<1>3. OneThing
  BY <1>2 DEF BridgeInit, OneThing
<1>4. \A c \in Child : WholeChild(c)
  BY DEF BridgeInit, WholeChild
<1>5. \A i \in BridgeCall : ChildOfCall(i)
  BY <1>2 DEF ChildOfCall, CallAt
<1>6. ChildrenInOrder
  BY <1>4, <1>5 DEF ChildrenInOrder, BridgeInit
<1> QED BY <1>1, <1>3, <1>6 DEF BridgeInv

\* After operations that did not overlap and did not fail halfway, a child of
\* a bridge is whole, or nothing of it is left: row, thing and place agree.
THEOREM ChildrenAreWhole == BridgeSpec => []WholeChildren
<1>1. BridgeInit => BridgeInv
  BY BridgeInitial
<1>2. BridgeInv /\ [BridgeNext]_bridgeVars => BridgeInv'
  BY BridgeStepKeeps
<1>3. BridgeInv => WholeChildren
  BY BridgeKnows DEF WholeChildren, WholeChild
<1> QED BY <1>1, <1>2, <1>3, PTL DEF BridgeSpec

\* A child is in a group its bridge is not in only while the event of the
\* bridge's leaving that group is on its way, or is being dealt with.
StragglersAreFetched ==
    ~rough => \A g \in Home, c \in Child :
        home # g /\ childHome[c] = g => g \in cascades

\* Operations that did not overlap never leave a child behind with nothing
\* under way to fetch it (OnNodeLeftGroup's event, cascade_delete): the half
\* of ChildrenFollow that needs no fairness.
THEOREM ChildrenAreFetched == BridgeSpec => []StragglersAreFetched
<1>1. BridgeInv => StragglersAreFetched
  <2> SUFFICES ASSUME BridgeInv, ~rough, NEW g \in Home, NEW c \in Child,
                      home # g, childHome[c] = g
               PROVE  g \in cascades
    BY DEF StragglersAreFetched
  <2>1. ChildrenInOrder /\ BridgeTypeOK /\ g # NoHome
    BY BridgeConstants DEF BridgeInv
  <2>2. ~WholeChild(c) /\ ~NoChild(c)
    BY <2>1 DEF WholeChild, NoChild
  <2>3. CASE cascades = {}
    <3>1. PICK i \in BridgeCall : ~CallAt(i, "idle") /\ call[i].child = c
      BY <2>1, <2>2, <2>3 DEF ChildrenInOrder
    <3>2. ChildOfCall(i) /\ call[i].pc \in CallPc
      BY <2>1, <3>1, CallTypes DEF ChildrenInOrder
    <3>3. ~NoChild(call[i].child) /\ ~WholeChild(call[i].child) /\ childHome[call[i].child] # NoHome
      BY <2>1, <2>2, <3>1
    <3>4. call[i].pc = "thing"
      BY <3>1, <3>2, <3>3 DEF ChildOfCall, CallPc, CallAt
    <3> QED BY <3>2, <3>3, <3>4 DEF ChildOfCall
  <2>4. ASSUME NEW h \in cascades
        PROVE  h = g
    <3>1. ChildOfCascade(h, c) /\ h \in Home
      BY <2>1, <2>4 DEF ChildrenInOrder, BridgeTypeOK
    <3>2. fanout[h][c] \in Stage
      BY <2>1, <3>1 DEF BridgeTypeOK
    <3> QED BY <2>1, <2>2, <3>1, <3>2 DEF ChildOfCascade, Stage
  <2> QED BY <2>3, <2>4
<1>2. BridgeInv /\ [BridgeNext]_bridgeVars => BridgeInv'
  BY BridgeStepKeeps
<1> QED BY <1>1, <1>2, BridgeInitial, PTL DEF BridgeSpec

---------------------------------------------------------------------------
(* NodePresence: the connection on record is safe *)

\* The versions that ended are those of connections that are over.
EndedInv ==
    /\ link \in [version : Nat, up : BOOLEAN]
    /\ \A v \in ended : v <= link.version /\ (link.up => v < link.version)
    /\ ended \subseteq Nat

\* Every step keeps EndedInv.
LEMMA EndedStep == ASSUME EndedInv, [PresenceNext]_presenceVars PROVE EndedInv'
<1> USE DEF EndedInv
<1>1. CASE Connect
  BY <1>1 DEF Connect
<1>2. CASE Disconnect
  <2>1. link'.version = link.version /\ link'.up = FALSE /\ link' \in [version : Nat, up : BOOLEAN]
    BY <1>2 DEF Disconnect
  <2> QED BY <1>2, <2>1 DEF Disconnect
<1>3. CASE RecordSession \/ PresenceStep
  BY <1>3 DEF RecordSession, PresenceStep, HandleDisconnected, WriteDisconnectShadows
<1>4. CASE \E c \in Kid : KidAdded(c) \/ KidRemoved(c)
  BY <1>4 DEF KidAdded, KidRemoved
<1>5. CASE UNCHANGED presenceVars
  BY <1>5 DEF presenceVars
<1> QED BY <1>1, <1>2, <1>3, <1>4, <1>5 DEF PresenceNext

\* Once the connection a node is on is on record, no event of an earlier one
\* is found current (SessionMatches), in whatever order events come: it is the
\* moment before the record that an old event can still take the node offline.
THEOREM RecordedStaysOnline == PresenceSpec => RecordedIsSafe
<1>1. PresenceInit => EndedInv
  BY DEF PresenceInit, EndedInv
<1>2. EndedInv /\ [PresenceNext]_presenceVars => EndedInv'
  BY EndedStep
<1>3. EndedInv /\ [PresenceNext]_presenceVars =>
        [link.up /\ session = link.version => checked' \subseteq checked]_presenceVars
  <2> SUFFICES ASSUME EndedInv, PresenceNext, link.up, session = link.version
               PROVE  checked' \subseteq checked
    OBVIOUS
  <2>1. ASSUME NEW v \in 1 .. MaxVersion, HandleDisconnected(v)
        PROVE  checked' \subseteq checked
    <3>1. v # session
      BY <2>1 DEF EndedInv, HandleDisconnected
    <3> QED BY <2>1, <3>1 DEF HandleDisconnected, SessionMatches
  <2> QED BY <2>1 DEF PresenceNext, PresenceStep, Connect, RecordSession, Disconnect,
                      WriteDisconnectShadows, KidAdded, KidRemoved
<1> QED BY <1>1, <1>2, <1>3, PTL DEF PresenceSpec, RecordedIsSafe

---------------------------------------------------------------------------
(* NodePresence: who is away and shown online has an event under way *)

\* A connection has a version, counted from 1; who is shown online is there.
PresenceInv ==
    /\ PresenceTypeOK
    /\ link.up => link.version >= 1
    /\ online \subseteq {"node"} \union kids

\* Who is away and still shown online, the node or a child, has an event of the
\* last connection waiting to be handled or to be written.
AwayIsNoticed ==
    ~link.up /\ online # {} => link.version \in ended \union checked

\* Where a connection is on record before it ends, the last one stays on record
\* once it has ended.
AwayInv == (~link.up => session = link.version) /\ AwayIsNoticed

\* Every step keeps the types.
LEMMA PresenceStepTyped ==
    ASSUME PresenceInv, [PresenceNext]_presenceVars
    PROVE  PresenceInv'
<1> USE DEF PresenceInv, PresenceTypeOK
<1>1. CASE Connect
  <2>1. link.version \in 0 .. MaxVersion /\ link.version + 1 \in 0 .. MaxVersion
    BY <1>1, PresenceConstants DEF Connect
  <2>2. link' = [version |-> link.version + 1, up |-> TRUE]
    BY <1>1 DEF Connect
  <2>3. /\ link' \in [version : 0 .. MaxVersion, up : BOOLEAN]
        /\ link'.version >= 1
    BY <2>1, <2>2
  <2> QED BY <1>1, <2>3 DEF Connect
<1>2. CASE Disconnect
  <2>1. link.version \in 1 .. MaxVersion
    BY <1>2, PresenceConstants DEF Disconnect
  <2>2. link' \in [version : 0 .. MaxVersion, up : BOOLEAN] /\ ~link'.up
    BY <1>2 DEF Disconnect
  <2> QED BY <1>2, <2>1, <2>2 DEF Disconnect
<1>3. CASE RecordSession
  BY <1>3 DEF RecordSession
<1>4. CASE PresenceStep
  BY <1>4 DEF PresenceStep, HandleDisconnected, WriteDisconnectShadows
<1>5. CASE \E c \in Kid : KidAdded(c) \/ KidRemoved(c)
  BY <1>5 DEF KidAdded, KidRemoved
<1>6. CASE UNCHANGED presenceVars
  BY <1>6 DEF presenceVars
<1> QED BY <1>1, <1>2, <1>3, <1>4, <1>5, <1>6 DEF PresenceNext

\* No one is shown online at first.
LEMMA PresenceInitial == ASSUME PresenceInit PROVE PresenceInv /\ AwayInv
BY PresenceConstants DEF PresenceInit, PresenceInv, PresenceTypeOK, AwayInv, AwayIsNoticed

\* Every step keeps AwayInv.
LEMMA AwayStep ==
    ASSUME EventsInOrder, PresenceInv, AwayInv, [PresenceNext]_presenceVars
    PROVE  AwayInv'
<1> USE DEF AwayInv, AwayIsNoticed
<1>1. CASE Connect
  BY <1>1 DEF Connect
<1>2. CASE Disconnect
  <2>1. link'.version = link.version /\ session' = link.version
    BY <1>2 DEF Disconnect, PresenceInv, PresenceTypeOK
  <2> QED BY <1>2, <2>1 DEF Disconnect
<1>3. CASE RecordSession
  BY <1>3 DEF RecordSession
<1>4. ASSUME NEW v \in 1 .. MaxVersion, HandleDisconnected(v)
      PROVE  AwayInv'
  BY <1>4 DEF HandleDisconnected, SessionMatches
<1>5. ASSUME NEW v \in 1 .. MaxVersion, WriteDisconnectShadows(v)
      PROVE  AwayInv'
  <2>1. online' = {}
    BY <1>5 DEF WriteDisconnectShadows, PresenceInv
  <2> QED BY <1>5, <2>1 DEF WriteDisconnectShadows
<1>6. CASE \E c \in Kid : KidAdded(c) \/ KidRemoved(c)
  BY <1>6 DEF KidAdded, KidRemoved
<1>7. CASE UNCHANGED presenceVars
  BY <1>7 DEF presenceVars
<1> QED BY <1>1, <1>2, <1>3, <1>4, <1>5, <1>6, <1>7 DEF PresenceNext, PresenceStep

\* Where a connection is on record before it ends, nobody is shown online for
\* good: the event that will take them offline is under way, and the session on
\* record is still its own, so that it is found current.  It is the half of
\* GoneIsOffline that needs no fairness.
THEOREM AwayUnderWay ==
    EventsInOrder => (PresenceSpec => []AwayInv)
<1> SUFFICES ASSUME EventsInOrder PROVE PresenceSpec => []AwayInv
  OBVIOUS
<1>1. PresenceInv /\ [PresenceNext]_presenceVars => PresenceInv'
  BY PresenceStepTyped
<1>2. PresenceInv /\ AwayInv /\ [PresenceNext]_presenceVars => AwayInv'
  BY AwayStep
<1> QED BY <1>1, <1>2, PresenceInitial, PTL DEF PresenceSpec

---------------------------------------------------------------------------
(* NodeServices: the version tells the set *)

\* A row, or the set and version a device, a message or an answer holds.
RowType == [set : ScheduleSet, version : 0 .. LastSecond, voice : BOOLEAN]

\* The sets that calls and the answer under way hold are sets.
ServicesInv ==
    /\ ServicesTypeOK
    /\ DOMAIN calls = Client
    /\ \A c \in Client : calls[c].at \in {"change", "pushAgain"} => calls[c].set \in ScheduleSet
    /\ serving.at = "answer" => serving.events \subseteq Events /\ serving.row \in RowType

\* A copy of the set with its version: not ahead of the row, and the row's set
\* if it has the row's version.
IsCopy(set, version) ==
    /\ version <= nodeRow.version
    /\ version = nodeRow.version => set = nodeRow.set

Busy(c) == calls[c].at \notin {"new", "done"}

\* While calls do not overlap: a push under way has what the row has.
CopiesInv ==
    /\ IsCopy(device.set, device.version)
    /\ \A m \in toDevice : m.event = "getSchedDetails" => IsCopy(m.set, m.version)
    /\ serving.at = "answer" => IsCopy(serving.row.set, serving.row.version)
    /\ \A c, d \in Client : Busy(c) /\ Busy(d) => c = d
    /\ \A c \in Client : calls[c].at = "pushAgain" => calls[c].set = nodeRow.set

\* A row with another set, as of now.
LEMMA RowStored ==
    ASSUME ServicesTypeOK, NEW set \in ScheduleSet
    PROVE  /\ Stored(set) \in RowType /\ Stored(set).set = set
           /\ Stored(set).version = second
           /\ Empty \in ScheduleSet /\ Deleted = Stored(Empty)
<1>1. LastSecond \in Nat /\ second \in 0 .. LastSecond
  BY ServicesConstants DEF ServicesTypeOK
<1>2. nodeRow \in RowType
  BY DEF ServicesTypeOK, RowType
<1>3. PICK r : r = [nodeRow EXCEPT !.set = set, !.version = second]
  OBVIOUS
<1>4. r \in RowType /\ r.set = set /\ r.version = second
  BY <1>1, <1>2, <1>3 DEF RowType
<1>5. Empty \in ScheduleSet
  BY DEF Empty, ScheduleSet
<1> QED BY <1>3, <1>4, <1>5 DEF Stored, Deleted

\* The messages to the device are messages.
LEMMA MessagesAre ==
    /\ \A set \in ScheduleSet, v \in 0 .. LastSecond :
          [event |-> "getSchedDetails", set |-> set, version |-> v] \in Message
    /\ \A v \in 0 .. LastSecond : [event |-> "getSchedVer", version |-> v] \in Message
    /\ \A b \in BOOLEAN : [event |-> "getAlexaEn", enabled |-> b] \in Message
    /\ \A m \in Message :
          /\ m.event \in Events
          /\ m.event = "getSchedDetails" => m.set \in ScheduleSet /\ m.version \in 0 .. LastSecond
          /\ m.event = "getSchedVer" => m.version \in 0 .. LastSecond
          /\ m.event = "getAlexaEn" => m.enabled \in BOOLEAN
BY DEF Message, Events

\* An answer is a message, of the row that was read.
LEMMA AnswersAre ==
    ASSUME NEW r \in RowType, NEW e \in Events
    PROVE  /\ Answer(e, r) \in Message
           /\ Answer(e, r).event = "getSchedDetails" =>
                 Answer(e, r).set = r.set /\ Answer(e, r).version = r.version
<1>1. r.set \in ScheduleSet /\ r.version \in 0 .. LastSecond /\ r.voice \in BOOLEAN
  BY DEF RowType
<1>2. CASE e = "getSchedVer"
  <2>1. Answer(e, r) = [event |-> "getSchedVer", version |-> r.version]
    BY <1>2 DEF Answer, VersionAnswer
  <2> QED BY <1>1, <2>1, MessagesAre
<1>3. CASE e = "getSchedDetails"
  <2>1. Answer(e, r) = [event |-> "getSchedDetails", set |-> r.set, version |-> r.version]
    BY <1>3 DEF Answer, DetailsAnswer
  <2> QED BY <1>1, <2>1, MessagesAre
<1>4. CASE e = "getAlexaEn"
  <2>1. Answer(e, r) = [event |-> "getAlexaEn", enabled |-> r.voice]
    BY <1>4 DEF Answer, VoiceAnswer
  <2> QED BY <1>1, <2>1, MessagesAre
<1> QED BY <1>2, <1>3, <1>4 DEF Events

\* A client's call goes on.
LEMMA ClientTyped ==
    ASSUME ServicesInv, NEW c \in Client, NEW k, Moves(c, k),
           k.at \in {"change", "push", "pushAgain", "done"},
           k.at \in {"change", "pushAgain"} => k.set \in ScheduleSet
    PROVE  /\ DOMAIN calls' = Client /\ calls'[c] = k
           /\ \A d \in Client \ {c} : calls'[d] = calls[d]
           /\ \A d \in Client :
                 /\ calls'[d].at \in {"new", "change", "push", "pushAgain", "done"}
                 /\ calls'[d].at \in {"change", "pushAgain"} => calls'[d].set \in ScheduleSet
BY DEF ServicesInv, ServicesTypeOK, Moves

\* A client writes the row.
ClientWrites(c) ==
    (\E set \in ScheduleSet : PutsSet(c, set)) \/ DeletesSet(c) \/ AssistWrites(c)

\* The row written is a set as of now, later than the row where the constants
\* say so, and the call goes on to its push.
LEMMA WritesAre ==
    ASSUME ServicesInv, NEW c \in Client, ClientWrites(c)
    PROVE  /\ \E set \in ScheduleSet : nodeRow' = Stored(set)
           /\ Moves(c, [at |-> "push"])
           /\ MayStart(c) \/ Busy(c)
           /\ SameSecond \/ second > nodeRow.version
           /\ UNCHANGED <<second, toDevice, toCloud, serving, device, connected, lost>>
<1>1. CASE \E set \in ScheduleSet : PutsSet(c, set)
  BY <1>1 DEF PutsSet, MayStart
<1>2. CASE DeletesSet(c)
  <2>1. Empty \in ScheduleSet /\ Deleted = Stored(Empty)
    BY RowStored DEF ServicesInv, Empty, ScheduleSet
  <2> QED BY <1>2, <2>1 DEF DeletesSet, MayStart
<1>3. CASE AssistWrites(c)
  <2>1. calls[c].set \in ScheduleSet
    BY <1>3 DEF AssistWrites, ServicesInv
  <2>2. Operation(calls[c].set) \subseteq ScheduleSet
    BY <2>1 DEF Operation, ScheduleSet
  <2> QED BY <1>3, <2>2 DEF AssistWrites, Busy
<1> QED BY <1>1, <1>2, <1>3 DEF ClientWrites

\* A client's other steps leave the row, and publish what it was read to be.
ClientOther(c) == AssistReads(c) \/ PushReadsSet(c) \/ PushSends(c) \/ PushFails(c)

\* What each of them changes.
LEMMA OthersAre ==
    ASSUME ServicesInv, NEW c \in Client, ClientOther(c)
    PROVE  /\ UNCHANGED <<second, nodeRow, toCloud, serving, device, connected, lost>>
           /\ \E k : /\ Moves(c, k)
                     /\ k.at \in {"change", "pushAgain", "done"}
                     /\ k.at \in {"change", "pushAgain"} => k.set = nodeRow.set
                     /\ k.at \in {"pushAgain", "done"} => Busy(c)
                     /\ k.at = "change" => MayStart(c)
           /\ \/ toDevice' = toDevice
              \/ /\ calls[c].at = "pushAgain"
                 /\ toDevice' = toDevice \union
                       {[event |-> "getSchedDetails", set |-> calls[c].set,
                         version |-> nodeRow.version]}
<1>1. CASE AssistReads(c)
  BY <1>1 DEF AssistReads
<1>2. CASE PushReadsSet(c)
  BY <1>2 DEF PushReadsSet, Busy
<1>3. CASE PushSends(c)
  BY <1>3 DEF PushSends, Busy
<1>4. CASE PushFails(c)
  BY <1>4 DEF PushFails, Busy
<1> QED BY <1>1, <1>2, <1>3, <1>4 DEF ClientOther

\* The steps of the next-state relation by who takes them.
LEMMA ServicesSteps ==
    ASSUME [ServicesNext]_servicesVars
    PROVE  \/ \E c \in Client : ClientWrites(c) \/ ClientOther(c)
           \/ VoiceDiscovers
           \/ Ticks \/ Connects \/ Disconnects \/ Restarts \/ UNCHANGED servicesVars
           \/ Serves \/ Answers \/ \E m \in toDevice : DeviceReceives(m) \/ Loses(m)
BY DEF ServicesNext, FromCloud, ClientWrites, ClientOther

\* Every client's step keeps the types.
LEMMA ClientStepTyped ==
    ASSUME ServicesInv, NEW c \in Client, ClientWrites(c) \/ ClientOther(c)
    PROVE  ServicesInv'
<1>1. CASE ClientWrites(c)
  <2>1. PICK set \in ScheduleSet : nodeRow' = Stored(set)
    BY <1>1, WritesAre
  <2>2. nodeRow' \in RowType
    BY <2>1, RowStored DEF ServicesInv
  <2>3. /\ UNCHANGED <<second, toDevice, toCloud, serving, device, connected, lost>>
        /\ Moves(c, [at |-> "push"])
    BY <1>1, WritesAre
  <2>4. PICK k : k = [at |-> "push"]
    OBVIOUS
  <2>5. /\ DOMAIN calls' = Client
        /\ \A d \in Client :
              /\ calls'[d].at \in {"new", "change", "push", "pushAgain", "done"}
              /\ calls'[d].at \in {"change", "pushAgain"} => calls'[d].set \in ScheduleSet
    <3>1. k.at = "push" /\ Moves(c, k)
      BY <2>3, <2>4
    <3> QED BY <3>1, ClientTyped
  <2> QED BY <2>2, <2>3, <2>5 DEF ServicesInv, ServicesTypeOK, RowType
<1>2. CASE ClientOther(c)
  <2>1. UNCHANGED <<second, nodeRow, toCloud, serving, device, connected, lost>>
    BY <1>2, OthersAre
  <2>2. PICK k : /\ Moves(c, k) /\ k.at \in {"change", "pushAgain", "done"}
                 /\ k.at \in {"change", "pushAgain"} => k.set = nodeRow.set
    BY <1>2, OthersAre
  <2>3. nodeRow.set \in ScheduleSet /\ nodeRow.version \in 0 .. LastSecond
    BY DEF ServicesInv, ServicesTypeOK
  <2>4. /\ DOMAIN calls' = Client
        /\ \A d \in Client :
              /\ calls'[d].at \in {"new", "change", "push", "pushAgain", "done"}
              /\ calls'[d].at \in {"change", "pushAgain"} => calls'[d].set \in ScheduleSet
    BY <2>2, <2>3, ClientTyped
  <2>5. toDevice' \subseteq Message
    <3>1. calls[c].at = "pushAgain" =>
            [event |-> "getSchedDetails", set |-> calls[c].set,
             version |-> nodeRow.version] \in Message
      BY <2>3, MessagesAre DEF ServicesInv
    <3> QED BY <1>2, <3>1, OthersAre DEF ServicesInv, ServicesTypeOK
  <2> QED BY <2>1, <2>4, <2>5 DEF ServicesInv, ServicesTypeOK
<1> QED BY <1>1, <1>2

\* Every step keeps the types.
LEMMA ServicesStepTyped ==
    ASSUME ServicesInv, [ServicesNext]_servicesVars
    PROVE  ServicesInv'
<1>1. ASSUME NEW c \in Client, ClientWrites(c) \/ ClientOther(c)
      PROVE  ServicesInv'
  BY <1>1, ClientStepTyped
<1>2. CASE VoiceDiscovers
  <2>1. nodeRow' \in RowType
    BY <1>2 DEF VoiceDiscovers, ServicesInv, ServicesTypeOK, RowType
  <2>2. toDevice' \subseteq Message
    BY <1>2, MessagesAre DEF VoiceDiscovers, ServicesInv, ServicesTypeOK
  <2> QED BY <1>2, <2>1, <2>2 DEF VoiceDiscovers, ServicesInv, ServicesTypeOK, RowType
<1>3. CASE Ticks
  <2>1. second' \in 1 .. LastSecond
    BY <1>3, ServicesConstants DEF Ticks, ServicesInv, ServicesTypeOK
  <2> QED BY <1>3, <2>1 DEF Ticks, ServicesInv, ServicesTypeOK
<1>4. CASE Disconnects
  <2>1. lost' \in 0 .. MaxLost
    BY <1>4, ServicesConstants DEF Disconnects, ServicesInv, ServicesTypeOK
  <2> QED BY <1>4, <2>1 DEF Disconnects, ServicesInv, ServicesTypeOK
<1>5. CASE Connects \/ Restarts
  BY <1>5 DEF Connects, Restarts, ServicesInv, ServicesTypeOK, Events
<1>6. CASE Serves
  <2>1. nodeRow \in RowType /\ toCloud \subseteq Events
    BY DEF ServicesInv, ServicesTypeOK, RowType
  <2> QED BY <1>6, <2>1 DEF Serves, ServicesInv, ServicesTypeOK
<1>7. CASE Answers
  <2>1. serving.events \subseteq Events /\ serving.row \in RowType
    BY <1>7 DEF Answers, ServicesInv
  <2>2. toDevice' \subseteq Message
    BY <1>7, <2>1, AnswersAre DEF Answers, ServicesInv, ServicesTypeOK
  <2> QED BY <1>7, <2>2 DEF Answers, ServicesInv, ServicesTypeOK
<1>8. ASSUME NEW m \in toDevice, DeviceReceives(m)
      PROVE  ServicesInv'
  <2>1. m \in Message /\ device \in RowType
    BY DEF ServicesInv, ServicesTypeOK, RowType
  <2>2. device' \in RowType
    BY <1>8, <2>1, MessagesAre DEF DeviceReceives, RowType
  <2>3. toCloud' \subseteq Events
    BY <1>8 DEF DeviceReceives, ServicesInv, ServicesTypeOK, Events
  <2> QED BY <1>8, <2>2, <2>3 DEF DeviceReceives, ServicesInv, ServicesTypeOK, RowType
<1>9. ASSUME NEW m \in toDevice, Loses(m)
      PROVE  ServicesInv'
  BY <1>9 DEF Loses, ServicesInv, ServicesTypeOK
<1>10. CASE UNCHANGED servicesVars
  BY <1>10 DEF servicesVars, ServicesInv, ServicesTypeOK
<1> QED BY <1>1, <1>2, <1>3, <1>4, <1>5, <1>6, <1>7, <1>8, <1>9, <1>10, ServicesSteps

\* The node's row is empty at first, and so is what the device holds.
LEMMA ServicesInitial == ASSUME ServicesInit PROVE ServicesInv /\ CopiesInv
<1>1. Empty \in ScheduleSet
  BY DEF Empty, ScheduleSet
<1>2. ServicesInv
  BY <1>1, ServicesConstants DEF ServicesInit, ServicesInv, ServicesTypeOK
<1>3. CopiesInv
  BY DEF ServicesInit, CopiesInv, IsCopy, Busy
<1> QED BY <1>2, <1>3

\* The row, the device, the messages and the answer under way keep their copies
\* while the row only moves on to a later version.
LEMMA RowMovesOn ==
    ASSUME ServicesInv, ServicesInv', CopiesInv, nodeRow'.version > nodeRow.version,
           UNCHANGED <<toDevice, serving, device>>
    PROVE  /\ IsCopy(device.set, device.version)'
           /\ \A m \in toDevice' : m.event = "getSchedDetails" => IsCopy(m.set, m.version)'
           /\ serving'.at = "answer" => IsCopy(serving.row.set, serving.row.version)'
<1>1. /\ nodeRow.version \in Nat /\ nodeRow'.version \in Nat /\ device.version \in Nat
      /\ \A m \in toDevice : m.event = "getSchedDetails" => m.version \in Nat
      /\ serving.at = "answer" => serving.row.version \in Nat
  <2>1. \A m \in toDevice : m.event = "getSchedDetails" => m.version \in 0 .. LastSecond
    BY MessagesAre DEF ServicesInv, ServicesTypeOK
  <2> QED BY <2>1 DEF ServicesInv, ServicesTypeOK, RowType
<1>2. ASSUME NEW v \in Nat, v <= nodeRow.version
      PROVE  v <= nodeRow'.version /\ v # nodeRow'.version
  BY <1>1, <1>2
<1> QED BY <1>1, <1>2 DEF CopiesInv, IsCopy

\* At most one call is at work, and a call starts only when none is.
LEMMA OneCall ==
    ASSUME ~WritesOverlap, ServicesInv, CopiesInv, NEW c \in Client,
           MayStart(c) \/ Busy(c)
    PROVE  \A d \in Client \ {c} : ~Busy(d)
BY DEF CopiesInv, MayStart, Busy

\* Every client's step keeps the copies.
LEMMA ClientStepCopies ==
    ASSUME ~WritesOverlap, ~SameSecond, ServicesInv, ServicesInv', CopiesInv,
           NEW c \in Client, ClientWrites(c) \/ ClientOther(c)
    PROVE  CopiesInv'
<1>1. CASE ClientWrites(c)
  <2>1. PICK set \in ScheduleSet : nodeRow' = Stored(set)
    BY <1>1, WritesAre
  <2>2. second > nodeRow.version /\ (MayStart(c) \/ Busy(c))
    BY <1>1, WritesAre
  <2>3. nodeRow'.version > nodeRow.version
    BY <2>1, <2>2, RowStored DEF ServicesInv
  <2>4. /\ UNCHANGED <<toDevice, serving, device>>
        /\ Moves(c, [at |-> "push"])
    BY <1>1, WritesAre
  <2>5. PICK k : k = [at |-> "push"]
    OBVIOUS
  <2>6. k.at = "push" /\ Moves(c, k)
    BY <2>4, <2>5
  <2>7. calls'[c] = k /\ \A d \in Client \ {c} : calls'[d] = calls[d]
    BY <2>6, ClientTyped
  <2>8. \A d \in Client \ {c} : ~Busy(d)
    BY <2>2, OneCall
  <2>9. \A d \in Client \ {c} : ~Busy(d)' /\ calls'[d].at # "pushAgain"
    BY <2>7, <2>8 DEF Busy
  <2>10. calls'[c].at # "pushAgain"
    BY <2>6, <2>7
  <2> QED BY <2>3, <2>4, <2>9, <2>10, RowMovesOn DEF CopiesInv
<1>2. CASE ClientOther(c)
  <2>1. UNCHANGED <<nodeRow, serving, device>>
    BY <1>2, OthersAre
  <2>2. PICK k : /\ Moves(c, k)
                 /\ k.at \in {"change", "pushAgain", "done"}
                 /\ k.at \in {"change", "pushAgain"} => k.set = nodeRow.set
                 /\ k.at \in {"pushAgain", "done"} => Busy(c)
                 /\ k.at = "change" => MayStart(c)
    BY <1>2, OthersAre
  <2>3. nodeRow.set \in ScheduleSet
    BY DEF ServicesInv, ServicesTypeOK
  <2>4. calls'[c] = k /\ \A d \in Client \ {c} : calls'[d] = calls[d]
    BY <2>2, <2>3, ClientTyped
  <2>5. \A d \in Client \ {c} : ~Busy(d)
    BY <2>2, OneCall
  <2>6. \A d \in Client \ {c} : ~Busy(d)' /\ calls'[d].at # "pushAgain"
    BY <2>4, <2>5 DEF Busy
  <2>7. \A m \in toDevice' : m.event = "getSchedDetails" => IsCopy(m.set, m.version)
    <3>1. CASE toDevice' = toDevice
      BY <3>1 DEF CopiesInv
    <3>2. CASE /\ calls[c].at = "pushAgain"
               /\ toDevice' = toDevice \union
                     {[event |-> "getSchedDetails", set |-> calls[c].set,
                       version |-> nodeRow.version]}
      <4>1. calls[c].set = nodeRow.set /\ nodeRow.version <= nodeRow.version
        BY <3>2 DEF CopiesInv, ServicesInv, ServicesTypeOK
      <4>2. IsCopy(calls[c].set, nodeRow.version)
        BY <4>1 DEF IsCopy
      <4> QED BY <3>2, <4>2 DEF CopiesInv
    <3> QED BY <1>2, <3>1, <3>2, OthersAre
  <2>8. /\ IsCopy(device.set, device.version)'
        /\ \A m \in toDevice' : m.event = "getSchedDetails" => IsCopy(m.set, m.version)'
        /\ serving'.at = "answer" => IsCopy(serving.row.set, serving.row.version)'
    BY <2>1, <2>7 DEF CopiesInv, IsCopy
  <2> QED BY <2>1, <2>2, <2>4, <2>6, <2>8 DEF CopiesInv
<1> QED BY <1>1, <1>2

\* What a step leaves alone keeps its copies.
LEMMA CopiesStay ==
    ASSUME CopiesInv, calls' = calls,
           nodeRow'.set = nodeRow.set, nodeRow'.version = nodeRow.version
    PROVE  /\ \A set, v : IsCopy(set, v) => IsCopy(set, v)'
           /\ \A c, d \in Client : (Busy(c) /\ Busy(d))' => c = d
           /\ \A c \in Client : calls'[c].at = "pushAgain" => calls'[c].set = nodeRow'.set
BY DEF CopiesInv, IsCopy, Busy

\* What the steps that are no client's leave alone.
LEMMA OutsideLeaves ==
    ASSUME \/ VoiceDiscovers
           \/ Ticks \/ Connects \/ Disconnects \/ Restarts \/ UNCHANGED servicesVars
           \/ Serves \/ Answers \/ \E m \in toDevice : DeviceReceives(m) \/ Loses(m)
    PROVE  /\ calls' = calls
           /\ nodeRow' = nodeRow \/ VoiceDiscovers
           /\ toDevice' \subseteq toDevice \/ VoiceDiscovers \/ Answers
           /\ serving' = serving \/ Serves \/ Answers
<1>1. CASE VoiceDiscovers
  BY <1>1 DEF VoiceDiscovers
<1>2. CASE Ticks \/ UNCHANGED servicesVars
  BY <1>2 DEF Ticks, servicesVars
<1>3. CASE Connects \/ Disconnects \/ Restarts
  BY <1>3 DEF Connects, Disconnects, Restarts
<1>4. CASE Serves
  BY <1>4 DEF Serves
<1>5. CASE Answers
  BY <1>5 DEF Answers
<1>6. ASSUME NEW m \in toDevice, DeviceReceives(m)
      PROVE  /\ calls' = calls /\ nodeRow' = nodeRow /\ serving' = serving
             /\ toDevice' \subseteq toDevice
  <2>1. toDevice' = toDevice \ {m}
    BY <1>6 DEF DeviceReceives
  <2>2. UNCHANGED <<second, nodeRow, calls, serving, connected, lost>>
    BY <1>6, Zenon DEF DeviceReceives
  <2> QED BY <2>1, <2>2
<1>7. ASSUME NEW m \in toDevice, Loses(m)
      PROVE  /\ calls' = calls /\ nodeRow' = nodeRow /\ serving' = serving
             /\ toDevice' \subseteq toDevice
  BY <1>7 DEF Loses
<1>8. CASE \E m \in toDevice : DeviceReceives(m) \/ Loses(m)
  <2>1. PICK m \in toDevice : DeviceReceives(m) \/ Loses(m)
    BY <1>8
  <2>2. /\ calls' = calls /\ nodeRow' = nodeRow /\ serving' = serving
        /\ toDevice' \subseteq toDevice
    BY <1>6, <1>7, <2>1
  <2> QED BY <2>2
<1> QED BY <1>1, <1>2, <1>3, <1>4, <1>5, <1>8

\* Every step keeps the copies.
LEMMA CopiesStep ==
    ASSUME ~WritesOverlap, ~SameSecond, ServicesInv, ServicesInv', CopiesInv,
           [ServicesNext]_servicesVars
    PROVE  CopiesInv'
<1>1. ASSUME NEW c \in Client, ClientWrites(c) \/ ClientOther(c)
      PROVE  CopiesInv'
  BY <1>1, ClientStepCopies
<1>2. CASE ~\E c \in Client : ClientWrites(c) \/ ClientOther(c)
  <2>1. \/ VoiceDiscovers
        \/ Ticks \/ Connects \/ Disconnects \/ Restarts \/ UNCHANGED servicesVars
        \/ Serves \/ Answers \/ \E m \in toDevice : DeviceReceives(m) \/ Loses(m)
    BY <1>2, ServicesSteps
  <2>2. calls' = calls
    BY <2>1, OutsideLeaves
  <2>3. nodeRow'.set = nodeRow.set /\ nodeRow'.version = nodeRow.version
    <3>1. CASE VoiceDiscovers
      BY <3>1 DEF VoiceDiscovers, ServicesInv, ServicesTypeOK
    <3> QED BY <2>1, <3>1, OutsideLeaves
  <2>4. IsCopy(device'.set, device'.version)
    <3>1. device \in RowType /\ toDevice \subseteq Message
      BY DEF ServicesInv, ServicesTypeOK, RowType
    <3>2. ASSUME NEW m \in toDevice, DeviceReceives(m)
          PROVE  IsCopy(device'.set, device'.version)
      <4>1. CASE m.event = "getSchedDetails"
        <5>1. device' = [device EXCEPT !.set = m.set, !.version = m.version]
          BY <3>2, <4>1 DEF DeviceReceives
        <5>2. device'.set = m.set /\ device'.version = m.version
          BY <3>1, <5>1 DEF RowType
        <5> QED BY <4>1, <5>2 DEF CopiesInv
      <4>2. CASE m.event # "getSchedDetails"
        <5>1. device'.set = device.set /\ device'.version = device.version
          BY <3>1, <3>2, <4>2 DEF DeviceReceives, RowType
        <5> QED BY <5>1 DEF CopiesInv
      <4> QED BY <4>1, <4>2
    <3>3. CASE device' = device
      BY <3>3 DEF CopiesInv
    <3> QED BY <2>1, <3>2, <3>3 DEF VoiceDiscovers, Ticks, Connects, Disconnects, Restarts,
                servicesVars, Serves, Answers, Loses
  <2>5. \A m \in toDevice' : m.event = "getSchedDetails" => IsCopy(m.set, m.version)
    <3>1. CASE Answers
      <4>1. serving.events \subseteq Events /\ serving.row \in RowType
        BY <3>1 DEF Answers, ServicesInv
      <4>2. IsCopy(serving.row.set, serving.row.version)
        BY <3>1 DEF Answers, CopiesInv
      <4>3. ASSUME NEW e \in serving.events, Answer(e, serving.row).event = "getSchedDetails"
            PROVE  IsCopy(Answer(e, serving.row).set, Answer(e, serving.row).version)
        BY <4>1, <4>2, <4>3, AnswersAre
      <4> QED BY <3>1, <4>3 DEF Answers, CopiesInv
    <3>2. CASE VoiceDiscovers
      BY <3>2 DEF VoiceDiscovers, CopiesInv
    <3>3. CASE toDevice' \subseteq toDevice
      BY <3>3 DEF CopiesInv
    <3> QED BY <2>1, <3>1, <3>2, <3>3, OutsideLeaves
  <2>6. serving'.at = "answer" => IsCopy(serving'.row.set, serving'.row.version)
    <3>1. CASE Serves
      <4>1. serving'.row = nodeRow /\ nodeRow.version <= nodeRow.version
        BY <3>1 DEF Serves, ServicesInv, ServicesTypeOK
      <4> QED BY <4>1 DEF IsCopy
    <3>2. CASE Answers
      BY <3>2 DEF Answers
    <3>3. CASE serving' = serving
      BY <3>3 DEF CopiesInv
    <3> QED BY <2>1, <3>1, <3>2, <3>3, OutsideLeaves
  <2> QED BY <2>2, <2>3, <2>4, <2>5, <2>6, CopiesStay DEF CopiesInv, IsCopy
<1> QED BY <1>1, <1>2

\* "A device detects whether the set it stored is stale" (schedules.md:103) is
\* so as long as calls that change the set do not overlap and no two of them
\* fall in one second, which is what the version counts: a device that holds
\* the row's version holds its set, whatever pushes are lost, delayed or pass
\* each other.  Without the one or the other TLC shows it is not so.
THEOREM VersionsTell ==
    ~WritesOverlap /\ ~SameSecond => (ServicesSpec => []VersionTells)
<1> SUFFICES ASSUME ~WritesOverlap, ~SameSecond PROVE ServicesSpec => []VersionTells
  OBVIOUS
<1>1. ServicesInv /\ [ServicesNext]_servicesVars => ServicesInv'
  BY ServicesStepTyped
<1>2. ServicesInv /\ ServicesInv' /\ CopiesInv /\ [ServicesNext]_servicesVars => CopiesInv'
  BY CopiesStep
<1>3. CopiesInv => VersionTells
  BY DEF CopiesInv, IsCopy, VersionTells
<1> QED BY <1>1, <1>2, <1>3, ServicesInitial, PTL DEF ServicesSpec

---------------------------------------------------------------------------
(* MCNodeLife: the four together.  A behaviour of it is one of one component *)
(* while the others stay where they start, so what holds of each component's *)
(* every step holds of it.                                                   *)

\* Each component starts, and steps or stays, as its own specification says.
LEMMA LifeSteps ==
    /\ LifeInit => PlacementInit /\ BridgeInit /\ PresenceInit /\ ServicesInit
    /\ [LifeNext]_lifeVars =>
          /\ [PlacementNext]_placementVars /\ [BridgeNext]_bridgeVars
          /\ [PresenceNext]_presenceVars /\ [ServicesNext]_servicesVars
<1>1. LifeInit => PlacementInit /\ BridgeInit /\ PresenceInit /\ ServicesInit
  BY DEF LifeInit
<1>2. LifeNext =>
          /\ [PlacementNext]_placementVars /\ [BridgeNext]_bridgeVars
          /\ [PresenceNext]_presenceVars /\ [ServicesNext]_servicesVars
  BY DEF LifeNext
<1>3. lifeVars' = lifeVars =>
          /\ placementVars' = placementVars /\ bridgeVars' = bridgeVars
          /\ presenceVars' = presenceVars /\ servicesVars' = servicesVars
  BY DEF lifeVars
<1> QED BY <1>1, <1>2, <1>3

\* Every component of the run of MCNodeLife follows its own specification
\* (its fairness apart): a step of one is no step of another.
THEOREM LifeOfEach ==
    LifeSpec =>
        /\ PlacementInit /\ [][PlacementNext]_placementVars
        /\ BridgeInit /\ [][BridgeNext]_bridgeVars
        /\ PresenceInit /\ [][PresenceNext]_presenceVars
        /\ ServicesInit /\ [][ServicesNext]_servicesVars
BY LifeSteps, PTL DEF LifeSpec

\* Nodes, children, presence and services keep their types: whatever node a
\* row, a queued job, an event or an answer names is one of those there are.
THEOREM LifeTypes == LifeSpec => []LifeTypeOK
<1>1. PlacementInv /\ [PlacementNext]_placementVars => PlacementInv'
  BY PlacementStepTyped
<1>2. BridgeInv /\ [BridgeNext]_bridgeVars => BridgeInv'
  BY BridgeStepKeeps
<1>3. PresenceInv /\ [PresenceNext]_presenceVars => PresenceInv'
  BY PresenceStepTyped
<1>4. ServicesInv /\ [ServicesNext]_servicesVars => ServicesInv'
  BY ServicesStepTyped
<1>5. PlacementInit /\ BridgeInit /\ PresenceInit /\ ServicesInit =>
          PlacementInv /\ BridgeInv /\ PresenceInv /\ ServicesInv
  BY PlacementTyped, BridgeInitial, PresenceInitial, ServicesInitial
<1>6. PlacementInv /\ BridgeInv /\ PresenceInv /\ ServicesInv => LifeTypeOK
  BY DEF PlacementInv, BridgeInv, PresenceInv, ServicesInv, LifeTypeOK
<1> QED BY <1>1, <1>2, <1>3, <1>4, <1>5, <1>6, LifeOfEach, PTL

=============================================================================
