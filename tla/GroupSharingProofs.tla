------------------------ MODULE GroupSharingProofs ------------------------
(***************************************************************************)
(* Proofs about GroupSharing and GroupListing, for every value of their    *)
(* constants.                                                              *)
(*                                                                         *)
(* Types come first, then what a step can write (RowChange, InviteChange,  *)
(* HistoryChange).  Scope needs one strengthening: only a group invite     *)
(* names no subgroup.  That access was shared needs more (SharedInv): what *)
(* a lagging read returns and what an invocation still holds to write must *)
(* have been given too.  Both survive a step because what was given stays  *)
(* given (Steady, GivenStays), so each write is justified by the reads it  *)
(* rests on, however old they are.                                         *)
(*                                                                         *)
(* The theorems about GroupListing follow from what these know of rows     *)
(* (RowsInv), since its readers change nothing.                            *)
(***************************************************************************)
EXTENDS GroupListing, TLAPS

---------------------------------------------------------------------------
(* Types *)

\* The lists of subgroups a request can hold.
Todo == SUBSET (User \X SUBSET (Sub \union {NoSub}))

\* An invocation knows whose row it writes and which invite it claimed.
GoodWork(w) ==
    /\ w \in Work
    /\ w.pc \in {"found", "confirm", "overwrite", "append", "remove"} =>
          w.user \in User
    /\ w.pc \in {"confirm", "overwrite", "append", "discard"} =>
          w.invite \in Invite

TypeInv == TypeOK /\ \A r \in Request : GoodWork(work[r])

\* A slot without an invocation is well-formed.
LEMMA IdleType == GoodWork(Idle)
BY DEF GoodWork, Idle, Work, Pc

\* Writing the record of one invocation keeps all of them good.
LEMMA WorkType ==
    ASSUME TypeInv, NEW r \in Request, NEW STATE w, GoodWork(w),
           work' = [work EXCEPT ![r] = w]
    PROVE  work' \in [Request -> Work] /\ \A q \in Request : GoodWork(work'[q])
<1>1. work \in [Request -> Work] /\ \A q \in Request : GoodWork(work[q])
  BY DEF TypeInv, TypeOK
<1>2. w \in Work
  BY DEF GoodWork
<1>3. \A q \in Request : work'[q] = IF q = r THEN w ELSE work[q]
  BY <1>1
<1> QED BY <1>1, <1>2, <1>3

\* An invocation that ends leaves a well-formed slot.
LEMMA FinishType ==
    ASSUME TypeInv, NEW r \in Request, Finish(r)
    PROVE  work' \in [Request -> Work] /\ \A q \in Request : GoodWork(work'[q])
BY WorkType, IdleType DEF Finish

\* An invocation that goes on to its next call stays well-formed.
LEMMA GotoType ==
    ASSUME TypeInv, NEW r \in Request, NEW pc \in Pc, Goto(r, pc),
           GoodWork([work[r] EXCEPT !.pc = pc])
    PROVE  work' \in [Request -> Work] /\ \A q \in Request : GoodWork(work'[q])
<1> DEFINE w == [work[r] EXCEPT !.pc = pc]
<1>1. work' = [work EXCEPT ![r] = w]
  BY DEF Goto
<1> HIDE DEF w
<1> QED BY <1>1, WorkType DEF w

\* So does one that works through a list.
LEMMA ContinueType ==
    ASSUME TypeInv, NEW r \in Request, NEW pc \in {"scrub", "drop"},
           NEW todo \in Todo, Continue(r, pc, todo)
    PROVE  work' \in [Request -> Work] /\ \A q \in Request : GoodWork(work'[q])
<1>1. CASE todo = {}
  BY <1>1, FinishType DEF Continue
<1>2. CASE todo # {}
  <2> DEFINE w == [work[r] EXCEPT !.pc = pc, !.todo = todo]
  <2>1. work[r] \in Work
    BY DEF TypeInv, TypeOK
  <2>2. GoodWork(w)
    BY <2>1 DEF GoodWork, Work, Pc, Todo
  <2>3. work' = [work EXCEPT ![r] = w]
    BY <1>2 DEF Continue
  <2> HIDE DEF w
  <2> QED BY <2>2, <2>3, WorkType
<1> QED BY <1>1, <1>2

\* The members' table stays typed when one row is written.
LEMMA WriteRowType ==
    ASSUME TypeInv, NEW u, NEW row \in Row, WriteRow(u, row)
    PROVE  mapping' \in [User -> Row] /\ lagged' \in [User -> Row]
BY DEF TypeInv, TypeOK, WriteRow

\* The row of somebody who is no member is well-formed.
LEMMA AbsentType == Absent \in Row
BY DEF Row

\* A listing returns for each member a row that a read could return.
LEMMA ListingRows ==
    ASSUME NEW list \in Listings
    PROVE  \A u \in User : list[u] \in Seen(u)
BY DEF Listings, Seen

\* What a read returns is a row.
LEMMA SeenType ==
    ASSUME TypeInv, NEW u \in User, NEW row \in Seen(u)
    PROVE  row \in Row
BY DEF TypeInv, TypeOK, Seen

\* A row's list of subgroups.
LEMMA RowSubs ==
    ASSUME NEW row \in Row
    PROVE  row.subs \in SUBSET (Sub \union {NoSub})
BY DEF Row, Absent

\* Writing a list of subgroups back yields a row.
LEMMA RestType ==
    ASSUME TypeInv, NEW u \in User, NEW rest \in SUBSET (Sub \union {NoSub})
    PROVE  RestOf(u, rest) \in Row
<1>1. mapping[u] \in Row
  BY DEF TypeInv, TypeOK
<1>2. There(mapping[u]) => mapping[u].access \in Access
  BY <1>1 DEF There, Row, Absent
<1> QED BY <1>2, AbsentType DEF RestOf, Row, Access

\* The initial tables and slots are typed.
LEMMA TypeInit == Init => TypeInv
BY IdleType, AbsentType DEF Init, TypeInv, TypeOK, GoodWork, Phase,
    NoInviteRow, InviteRow

\* The invites stay typed when one is spent.
LEMMA SpendType ==
    ASSUME TypeInv, NEW i \in Invite, Spend(i)
    PROVE  invite' \in [Invite -> InviteRow]
<1>1. invite \in [Invite -> InviteRow]
  BY DEF TypeInv, TypeOK
<1>2. [invite[i] EXCEPT !.st = "gone", !.to = Nobody] \in InviteRow
  BY <1>1 DEF InviteRow
<1> QED BY <1>1, <1>2 DEF Spend

\* The tables and history have their types, and work has them again.
LEMMA TypeFrame ==
    ASSUME TypeInv, UNCHANGED <<tables, history>>,
           work' \in [Request -> Work], \A q \in Request : GoodWork(work'[q])
    PROVE  TypeInv'
BY DEF TypeInv, TypeOK, tables, history

\* Approving or refusing an invite keeps types (createUserGroupEntry,
\* ApproveSharingRequest).
LEMMA InviteTypes ==
    ASSUME TypeInv, NEW r \in Request, InviteStep(r)
    PROVE  TypeInv'
<1>0. /\ mapping \in [User -> Row] /\ invite \in [Invite -> InviteRow]
      /\ approvals \subseteq User \X Invite
      /\ work[r] \in Work /\ GoodWork(work[r])
  BY DEF TypeInv, TypeOK
<1>1. ASSUME NEW u \in User, NEW i \in Invite, Approve(r, u, i) PROVE TypeInv'
  <2> DEFINE w == [Idle EXCEPT !.pc = "confirm", !.user = u, !.invite = i]
  <2>1. GoodWork(w)
    BY DEF GoodWork, Idle, Work, Pc
  <2>2. work' = [work EXCEPT ![r] = w]
    BY <1>1 DEF Approve
  <2> HIDE DEF w
  <2> QED BY <2>1, <2>2, <1>1, WorkType, TypeFrame DEF Approve
<1>2. ASSUME NEW u \in User, NEW row \in Seen(u), Confirm(r, u, row)
      PROVE  TypeInv'
  <2> DEFINE pc == Decide(row, invite[work[r].invite].access,
                          invite[work[r].invite].sub)
  <2>1. pc \in {"discard", "overwrite", "append"}
    BY DEF Decide
  <2>2. pc \in Pc /\ GoodWork([work[r] EXCEPT !.pc = pc])
    BY <1>0, <1>2, <2>1 DEF Confirm, IsAt, GoodWork, Work, Pc
  <2>3. Goto(r, pc)
    BY <1>2 DEF Confirm
  <2> HIDE DEF pc
  <2> QED BY <2>2, <2>3, <1>2, GotoType, TypeFrame DEF Confirm
<1>3. ASSUME Overwrite(r) PROVE TypeInv'
  <2>1. work[r].user \in User /\ work[r].invite \in Invite
    BY <1>0, <1>3 DEF Overwrite, IsAt, GoodWork
  <2> DEFINE i == invite[work[r].invite]
             row == [access |-> i.access,
                     subs |-> IF i.sub = NoSub THEN {} ELSE {i.sub}]
  <2>2. row \in Row
    BY <1>0, <2>1 DEF InviteRow, Row, Access
  <2>3. WriteRow(work[r].user, row)
    BY <1>3 DEF Overwrite
  <2> HIDE DEF row
  <2>4. mapping' \in [User -> Row] /\ lagged' \in [User -> Row]
    BY <2>2, <2>3, WriteRowType
  <2>5. approvals' \subseteq User \X Invite
    BY <1>0, <1>3, <2>1 DEF Overwrite
  <2>6. GoodWork([work[r] EXCEPT !.pc = "discard"])
    BY <1>0, <2>1 DEF GoodWork, Work, Pc
  <2>7. work' \in [Request -> Work] /\ \A q \in Request : GoodWork(work'[q])
    BY <1>3, <2>6, GotoType DEF Overwrite, Pc
  <2> QED BY <1>3, <2>4, <2>5, <2>7 DEF Overwrite, TypeInv, TypeOK
<1>4. ASSUME Append(r) PROVE TypeInv'
  <2> DEFINE u == work[r].user
             i == invite[work[r].invite]
  <2>1. u \in User /\ work[r].invite \in Invite
    BY <1>0, <1>4 DEF Append, IsAt, GoodWork
  <2>2. /\ mapping' \in [User -> Row] /\ lagged' \in [User -> Row]
        /\ approvals' \subseteq User \X Invite
    <3>1. CASE Appendable(u)
      <4> DEFINE row == [mapping[u] EXCEPT !.subs = @ \union {i.sub}]
      <4>1. row \in Row
        BY <1>0, <2>1, <3>1 DEF Appendable, There, InviteRow, Row, Access, Absent
      <4>2. WriteRow(u, row) /\ approvals' = approvals \union {<<u, work[r].invite>>}
        BY <1>4, <3>1 DEF Append
      <4> HIDE DEF row, u
      <4> QED BY <1>0, <4>1, <4>2, <2>1, WriteRowType
    <3>2. CASE ~Appendable(u)
      BY <1>4, <3>2 DEF Append, TypeInv, TypeOK
    <3> QED BY <3>1, <3>2
  <2>3. GoodWork([work[r] EXCEPT !.pc = "discard"])
    BY <1>0, <2>1 DEF GoodWork, Work, Pc
  <2>4. work' \in [Request -> Work] /\ \A q \in Request : GoodWork(work'[q])
    BY <1>4, <2>3, GotoType DEF Append, Pc
  <2> QED BY <1>4, <2>2, <2>4 DEF Append, TypeInv, TypeOK
<1>5. ASSUME ConfirmFails(r) PROVE TypeInv'
  <2>1. GoodWork([work[r] EXCEPT !.pc = "discard"])
    BY <1>0, <1>5 DEF ConfirmFails, GoodWork, Work, Pc
  <2> QED BY <1>5, <2>1, GotoType, TypeFrame DEF ConfirmFails, Pc
<1>6. ASSUME Discard(r) PROVE TypeInv'
  <2>1. invite' \in [Invite -> InviteRow]
    BY <1>0, <1>6, SpendType DEF Discard, IsAt, GoodWork
  <2>2. work' \in [Request -> Work] /\ \A q \in Request : GoodWork(work'[q])
    BY <1>6, FinishType DEF Discard
  <2> QED BY <1>6, <2>1, <2>2 DEF Discard, TypeInv, TypeOK, history
<1> QED BY <1>1, <1>2, <1>3, <1>4, <1>5, <1>6 DEF InviteStep

\* Removing a member keeps types (UnshareUserGroup, removeSubGroupFromUser).
LEMMA RemovalTypes ==
    ASSUME TypeInv, NEW r \in Request, RemovalStep(r)
    PROVE  TypeInv'
<1>0. work[r] \in Work /\ work[r].todo \in Todo /\ GoodWork(work[r])
  BY DEF TypeInv, TypeOK, Work, Todo
<1>1. ASSUME NEW u \in User, NEW row \in Seen(u), Unshare(r, u, row)
      PROVE  TypeInv'
  <2>1. PICK target \in User : work' = [work EXCEPT ![r] =
            [Idle EXCEPT !.pc = "remove", !.user = target]]
    BY <1>1 DEF Unshare
  <2> DEFINE w == [Idle EXCEPT !.pc = "remove", !.user = target]
  <2>2. GoodWork(w)
    BY DEF GoodWork, Idle, Work, Pc
  <2>3. work' = [work EXCEPT ![r] = w]
    BY <2>1
  <2> HIDE DEF w
  <2> QED BY <2>2, <2>3, <1>1, WorkType, TypeFrame DEF Unshare
<1>2. ASSUME NEW u \in User, NEW row \in Seen(u), NEW s \in Sub,
             UnshareSub(r, u, row, s)
      PROVE  TypeInv'
  <2>1. PICK target \in User : \E held \in Seen(target) :
            work' = [work EXCEPT ![r] = [Idle EXCEPT
                !.pc = "scrub", !.sub = s, !.todo = {<<target, held.subs>>}]]
    BY <1>2 DEF UnshareSub
  <2>2. PICK held \in Seen(target) :
            work' = [work EXCEPT ![r] = [Idle EXCEPT
                !.pc = "scrub", !.sub = s, !.todo = {<<target, held.subs>>}]]
    BY <2>1
  <2> DEFINE w == [Idle EXCEPT
                !.pc = "scrub", !.sub = s, !.todo = {<<target, held.subs>>}]
  <2>3. {<<target, held.subs>>} \in Todo
    BY SeenType, RowSubs DEF Todo
  <2>4. GoodWork(w)
    BY <2>3 DEF GoodWork, Idle, Work, Pc, Todo
  <2>5. work' = [work EXCEPT ![r] = w]
    BY <2>2
  <2> HIDE DEF w
  <2> QED BY <2>4, <2>5, <1>2, WorkType, TypeFrame DEF UnshareSub
<1>3. ASSUME RemoveMember(r) PROVE TypeInv'
  <2>1. mapping' \in [User -> Row] /\ lagged' \in [User -> Row]
    BY <1>3, AbsentType, WriteRowType DEF RemoveMember
  <2>2. work' \in [Request -> Work] /\ \A q \in Request : GoodWork(work'[q])
    BY <1>3, FinishType DEF RemoveMember
  <2> QED BY <1>3, <2>1, <2>2 DEF RemoveMember, TypeInv, TypeOK, history
<1>4. ASSUME NEW t \in work[r].todo, Scrub(r, t) PROVE TypeInv'
  <2>1. t[1] \in User /\ t[2] \in SUBSET (Sub \union {NoSub})
    BY <1>0 DEF Todo
  <2>2. RestOf(t[1], t[2] \ {work[r].sub}) \in Row
    BY <2>1, RestType
  <2>3. mapping' \in [User -> Row] /\ lagged' \in [User -> Row]
    BY <1>4, <2>2, WriteRowType DEF Scrub
  <2>4. work[r].todo \ {t} \in Todo /\ work[r].pc = "scrub"
    BY <1>0, <1>4 DEF Todo, Scrub, IsAt
  <2>5. work' \in [Request -> Work] /\ \A q \in Request : GoodWork(work'[q])
    BY <1>4, <2>4, ContinueType DEF Scrub
  <2> QED BY <1>4, <2>3, <2>5 DEF Scrub, TypeInv, TypeOK, history
<1>5. ASSUME NEW t \in work[r].todo, ScrubFails(r, t) PROVE TypeInv'
  <2>1. work[r].todo \ {t} \in Todo /\ work[r].pc = "scrub"
    BY <1>0, <1>5 DEF Todo, ScrubFails, IsAt
  <2> QED BY <1>5, <2>1, ContinueType, TypeFrame DEF ScrubFails
<1> QED BY <1>1, <1>2, <1>3, <1>4, <1>5 DEF RemovalStep

\* Founding the group, its subgroups' and its own end keep types
\* (CreateGroupForUserWithOptions, DeleteSubGroup, DeleteGroup).
LEMMA GroupTypes ==
    ASSUME TypeInv, NEW r \in Request, GroupStep(r)
    PROVE  TypeInv'
<1>0. /\ sub \in [Sub -> Phase] /\ group \in Phase
      /\ work[r] \in Work /\ work[r].todo \in Todo /\ GoodWork(work[r])
  BY DEF TypeInv, TypeOK, Work, Todo
<1>1. ASSUME NEW u \in User, CreateGroup(r, u) PROVE TypeInv'
  <2> DEFINE w == [Idle EXCEPT !.pc = "found", !.user = u]
  <2>1. GoodWork(w)
    BY DEF GoodWork, Idle, Work, Pc
  <2>2. work' = [work EXCEPT ![r] = w]
    BY <1>1 DEF CreateGroup
  <2> HIDE DEF w
  <2>3. work' \in [Request -> Work] /\ \A q \in Request : GoodWork(work'[q])
    BY <2>1, <2>2, WorkType
  <2> QED BY <2>3, <1>1 DEF CreateGroup, TypeInv, TypeOK, Phase
<1>2. ASSUME FoundMapping(r) PROVE TypeInv'
  <2> DEFINE row == [access |-> "primary", subs |-> {}]
  <2>1. row \in Row /\ WriteRow(work[r].user, row)
    BY <1>2 DEF FoundMapping, Row, Access
  <2> HIDE DEF row
  <2>2. mapping' \in [User -> Row] /\ lagged' \in [User -> Row]
    BY <2>1, WriteRowType
  <2>3. work' \in [Request -> Work] /\ \A q \in Request : GoodWork(work'[q])
    BY <1>2, FinishType DEF FoundMapping
  <2> QED BY <1>2, <2>2, <2>3 DEF FoundMapping, TypeInv, TypeOK, history
<1>3. ASSUME FoundMappingFails(r) PROVE TypeInv'
  <2>1. GoodWork([work[r] EXCEPT !.pc = "rollback"])
    BY <1>0 DEF GoodWork, Work, Pc
  <2> QED BY <2>1, <1>3, GotoType, TypeFrame DEF FoundMappingFails, Pc
<1>4. ASSUME Rollback(r) PROVE TypeInv'
  <2>1. GoodWork([work[r] EXCEPT !.pc = "failed"])
    BY <1>0 DEF GoodWork, Work, Pc
  <2>2. work' \in [Request -> Work] /\ \A q \in Request : GoodWork(work'[q])
    BY <2>1, <1>4, GotoType DEF Rollback, Pc
  <2> QED BY <1>0, <1>4, <2>2 DEF Rollback, TypeInv, TypeOK, history, Phase
<1>5. ASSUME NEW u \in User, NEW s \in Sub, NEW row \in Seen(u),
             DeleteSubGroup(r, u, row, s)
      PROVE  TypeInv'
  <2> DEFINE w == [Idle EXCEPT !.pc = "holders", !.sub = s]
  <2>1. GoodWork(w)
    BY DEF GoodWork, Idle, Work, Pc
  <2>2. work' = [work EXCEPT ![r] = w]
    BY <1>5 DEF DeleteSubGroup
  <2> HIDE DEF w
  <2>3. work' \in [Request -> Work] /\ \A q \in Request : GoodWork(work'[q])
    BY <2>1, <2>2, WorkType
  <2> QED BY <1>0, <2>3, <1>5
          DEF DeleteSubGroup, TypeInv, TypeOK, Phase, history
<1>6. ASSUME NEW list \in Listings, ListHolders(r, list) PROVE TypeInv'
  <2> DEFINE todo == {<<u, list[u].subs>> :
                         u \in {x \in User : work[r].sub \in list[x].subs}}
  <2>1. todo \in Todo
    BY ListingRows, SeenType, RowSubs DEF Todo
  <2>2. Continue(r, "scrub", todo)
    BY <1>6 DEF ListHolders
  <2> HIDE DEF todo
  <2> QED BY <1>6, <2>1, <2>2, ContinueType, TypeFrame DEF ListHolders
<1>7. ASSUME NEW list \in Listings, ListMembers(r, list) PROVE TypeInv'
  <2> DEFINE todo == {<<u, {}>> : u \in {x \in User : There(list[x])}}
  <2>1. todo \in Todo
    BY DEF Todo
  <2>2. Continue(r, "drop", todo)
    BY <1>7 DEF ListMembers
  <2> HIDE DEF todo
  <2> QED BY <1>7, <2>1, <2>2, ContinueType, TypeFrame DEF ListMembers
<1>8. ASSUME NEW u \in User, NEW row \in Seen(u), DeleteGroup(r, u, row)
      PROVE  TypeInv'
  <2> DEFINE w == [Idle EXCEPT !.pc = "rows"]
  <2>1. GoodWork(w)
    BY DEF GoodWork, Idle, Work, Pc
  <2>2. work' = [work EXCEPT ![r] = w]
    BY <1>8 DEF DeleteGroup
  <2> HIDE DEF w
  <2> QED BY <2>1, <2>2, <1>8, WorkType, TypeFrame DEF DeleteGroup
<1>9. ASSUME NEW missed \in SUBSET Sub, DropRows(r, missed) PROVE TypeInv'
  <2>1. GoodWork([work[r] EXCEPT !.pc = "members"])
    BY <1>0 DEF GoodWork, Work, Pc
  <2>2. work' \in [Request -> Work] /\ \A q \in Request : GoodWork(work'[q])
    BY <2>1, <1>9, GotoType DEF DropRows, Pc
  <2> QED BY <1>0, <1>9, <2>2
          DEF DropRows, TypeInv, TypeOK, history, Phase
<1>10. ASSUME NEW t \in work[r].todo, DropMapping(r, t) PROVE TypeInv'
  <2>1. mapping' \in [User -> Row] /\ lagged' \in [User -> Row]
    BY <1>10, AbsentType, WriteRowType DEF DropMapping
  <2>2. work[r].todo \ {t} \in Todo /\ work[r].pc = "drop"
    BY <1>0, <1>10 DEF Todo, DropMapping, IsAt
  <2>3. work' \in [Request -> Work] /\ \A q \in Request : GoodWork(work'[q])
    BY <1>10, <2>2, ContinueType DEF DropMapping
  <2> QED BY <1>10, <2>1, <2>3 DEF DropMapping, TypeInv, TypeOK, history
<1> QED BY <1>1, <1>2, <1>3, <1>4, <1>5, <1>6, <1>7, <1>8, <1>9, <1>10
        DEF GroupStep

\* Requests of one write, and the environment, keep types.
LEMMA AtomicTypes ==
    ASSUME TypeInv, AtomicStep
    PROVE  TypeInv'
<1>0. /\ sub \in [Sub -> Phase] /\ invite \in [Invite -> InviteRow]
      /\ mapping \in [User -> Row] /\ lagged \in [User -> Row]
  BY DEF TypeInv, TypeOK
<1>1. ASSUME NEW u \in User, NEW i \in Invite, NEW row \in Seen(u),
             Share(u, row, i)
      PROVE  TypeInv'
  <2>1. Offers(u) \subseteq InviteRow
    BY DEF Offers, InviteRow
  <2>2. invite' \in [Invite -> InviteRow]
    BY <1>0, <1>1, <2>1 DEF Share
  <2> QED BY <1>1, <2>2 DEF Share, TypeInv, TypeOK, history
<1>2. ASSUME NEW u \in User, NEW i \in Invite, Reject(u, i) PROVE TypeInv'
  BY <1>2, SpendType DEF Reject, TypeInv, TypeOK, history
<1>3. ASSUME NEW u \in User, NEW s \in Sub, NEW row \in Seen(u),
             CreateSubGroup(u, row, s)
      PROVE  TypeInv'
  BY <1>0, <1>3 DEF CreateSubGroup, TypeInv, TypeOK, history, Phase
<1>4. ASSUME NEW i \in Invite, InviteExpires(i) PROVE TypeInv'
  BY <1>4, SpendType DEF InviteExpires, TypeInv, TypeOK, history
<1>5. ASSUME NEW u \in User, CatchUp(u) PROVE TypeInv'
  BY <1>0, <1>5 DEF CatchUp, TypeInv, TypeOK, history
<1> QED BY <1>1, <1>2, <1>3, <1>4, <1>5 DEF AtomicStep

\* TypeInv is inductive.
LEMMA TypeStep == TypeInv /\ [Next]_vars => TypeInv'
<1> SUFFICES ASSUME TypeInv, [Next]_vars PROVE TypeInv'
  OBVIOUS
<1>1. CASE UNCHANGED vars
  BY <1>1 DEF vars, TypeInv, TypeOK
<1>2. ASSUME NEW r \in Request, Abandon(r) PROVE TypeInv'
  BY <1>2, FinishType, TypeFrame DEF Abandon
<1> QED BY <1>1, <1>2, InviteTypes, RemovalTypes, GroupTypes, AtomicTypes
        DEF Next

\* Every variable keeps its type, and an invocation knows its member and its
\* invite wherever it needs them.
THEOREM TypeInvariance == Spec => []TypeInv
BY TypeInit, TypeStep, PTL DEF Spec

\* Every row, invite and invocation record stays of its type: in particular
\* no append gives a list of subgroups to a row that is not there.
THEOREM TypeCorrect == Spec => []TypeOK
<1>1. TypeInv => TypeOK
  BY DEF TypeInv
<1> QED BY <1>1, TypeInvariance, PTL

---------------------------------------------------------------------------
(* What a step can write *)

\* A step leaves the members' rows alone, writes one of them, or lets a
\* lagging read catch up.
LEMMA RowChange ==
    ASSUME TypeInv, [Next]_vars
    PROVE  \/ UNCHANGED <<mapping, lagged>>
           \/ \E u \in User : CatchUp(u)
           \/ \E u \in User : WriteRow(u, Absent)
           \/ \E r \in Request : \/ FoundMapping(r)
                                 \/ Overwrite(r)
                                 \/ Append(r)
                                 \/ \E t \in work[r].todo : Scrub(r, t)
<1> DEFINE Goal == \/ UNCHANGED <<mapping, lagged>>
                   \/ \E u \in User : CatchUp(u)
                   \/ \E u \in User : WriteRow(u, Absent)
                   \/ \E r \in Request :
                         \/ FoundMapping(r)
                         \/ Overwrite(r)
                         \/ Append(r)
                         \/ \E t \in work[r].todo : Scrub(r, t)
<1>1. CASE UNCHANGED vars
  BY <1>1 DEF vars
<1>2. ASSUME NEW r \in Request, InviteStep(r) PROVE Goal
  BY <1>2 DEF InviteStep, Approve, Confirm, ConfirmFails, Discard, tables
<1>3. ASSUME NEW r \in Request, RemovalStep(r) PROVE Goal
  <2>1. CASE RemoveMember(r)
    BY <2>1 DEF RemoveMember, TypeInv, GoodWork, IsAt
  <2> QED BY <1>3, <2>1 DEF RemovalStep, Unshare, UnshareSub, ScrubFails,
            tables
<1>4. ASSUME NEW r \in Request, GroupStep(r) PROVE Goal
  <2>1. ASSUME NEW t \in work[r].todo, DropMapping(r, t) PROVE Goal
    <3>1. t[1] \in User
      BY DEF TypeInv, TypeOK, Work
    <3> QED BY <2>1, <3>1 DEF DropMapping
  <2> QED BY <1>4, <2>1 DEF GroupStep, CreateGroup, FoundMappingFails,
            Rollback, DeleteSubGroup, ListHolders, ListMembers, DeleteGroup,
            DropRows, tables
<1>5. ASSUME AtomicStep PROVE Goal
  BY <1>5 DEF AtomicStep, Share, Reject, CreateSubGroup, InviteExpires
<1>6. ASSUME NEW r \in Request, Abandon(r) PROVE Goal
  BY <1>6 DEF Abandon, tables
<1> QED BY <1>1, <1>2, <1>3, <1>4, <1>5, <1>6 DEF Next

\* An invite that was pending, or that an invocation claimed, is spent.
Spent(i) ==
    /\ Spend(i)
    /\ \/ invite[i].st = "pending"
       \/ \E r \in Request : IsAt(r, "discard") /\ work[r].invite = i

\* An invite is offered once, and spent; nothing else changes it.
LEMMA InviteChange ==
    ASSUME TypeInv, [Next]_vars
    PROVE  \/ UNCHANGED invite
           \/ \E i \in Invite : Spent(i)
           \/ \E u \in User, i \in Invite : \E row \in Seen(u) :
                 Share(u, row, i)
<1> DEFINE Goal == \/ UNCHANGED invite
                   \/ \E i \in Invite : Spent(i)
                   \/ \E u \in User, i \in Invite : \E row \in Seen(u) :
                         Share(u, row, i)
<1>1. CASE UNCHANGED vars
  BY <1>1 DEF vars
<1>2. ASSUME NEW r \in Request, InviteStep(r) PROVE Goal
  <2>1. CASE Discard(r)
    BY <2>1 DEF Discard, Spent, TypeInv, GoodWork, IsAt
  <2> QED BY <1>2, <2>1 DEF InviteStep, Approve, Confirm, Overwrite, Append,
            ConfirmFails, tables
<1>3. ASSUME NEW r \in Request, RemovalStep(r) PROVE Goal
  BY <1>3 DEF RemovalStep, Unshare, UnshareSub, RemoveMember, Scrub,
      ScrubFails, tables
<1>4. ASSUME NEW r \in Request, GroupStep(r) PROVE Goal
  BY <1>4 DEF GroupStep, CreateGroup, FoundMapping, FoundMappingFails,
      Rollback, DeleteSubGroup, ListHolders, ListMembers, DeleteGroup,
      DropRows, DropMapping, tables
<1>5. ASSUME AtomicStep PROVE Goal
  BY <1>5 DEF AtomicStep, Reject, Claimable, CreateSubGroup, InviteExpires,
      Spent, CatchUp
<1>6. ASSUME NEW r \in Request, Abandon(r) PROVE Goal
  BY <1>6 DEF Abandon, tables
<1> QED BY <1>1, <1>2, <1>3, <1>4, <1>5, <1>6 DEF Next

\* Only founding names a founder, and only a confirmed write an approval.
LEMMA HistoryChange ==
    ASSUME TypeInv, [Next]_vars
    PROVE  /\ \/ UNCHANGED approvals
              \/ \E r \in Request : Overwrite(r) \/ Append(r)
           /\ \/ UNCHANGED founder
              \/ \E r \in Request, u \in User : CreateGroup(r, u)
<1> DEFINE Goal == /\ \/ UNCHANGED approvals
                      \/ \E r \in Request : Overwrite(r) \/ Append(r)
                   /\ \/ UNCHANGED founder
                      \/ \E r \in Request, u \in User : CreateGroup(r, u)
<1>1. CASE UNCHANGED vars
  BY <1>1 DEF vars
<1>2. ASSUME NEW r \in Request, InviteStep(r) PROVE Goal
  <2>1. CASE Overwrite(r) \/ Append(r)
    BY <2>1 DEF Overwrite, Append
  <2> QED BY <1>2, <2>1 DEF InviteStep, Approve, Confirm, ConfirmFails,
            Discard, history
<1>3. ASSUME NEW r \in Request, RemovalStep(r) PROVE Goal
  BY <1>3 DEF RemovalStep, Unshare, UnshareSub, RemoveMember, Scrub,
      ScrubFails, history
<1>4. ASSUME NEW r \in Request, GroupStep(r) PROVE Goal
  <2>1. ASSUME NEW u \in User, CreateGroup(r, u) PROVE Goal
    BY <2>1 DEF CreateGroup
  <2> QED BY <1>4, <2>1 DEF GroupStep, FoundMapping, FoundMappingFails,
            Rollback, DeleteSubGroup, ListHolders, ListMembers, DeleteGroup,
            DropRows, DropMapping, history
<1>5. ASSUME AtomicStep PROVE Goal
  BY <1>5 DEF AtomicStep, Share, Reject, CreateSubGroup, InviteExpires,
      CatchUp, history
<1>6. ASSUME NEW r \in Request, Abandon(r) PROVE Goal
  BY <1>6 DEF Abandon, history
<1> QED BY <1>1, <1>2, <1>3, <1>4, <1>5, <1>6 DEF Next

---------------------------------------------------------------------------
(* Scope *)

\* ScopedAccess made inductive: only a group invite names no subgroup.
ScopedInv ==
    /\ ScopedAccess
    /\ \A i \in Invite : invite[i].sub = NoSub =>
          invite[i].access \in {"primary", "secondary"}

\* A row written for a scoped reason keeps every row scoped.
LEMMA ScopedWrite ==
    ASSUME TypeInv, ScopedAccess, NEW u \in User, NEW row, WriteRow(u, row),
           Whole(row) => row.access \in {"primary", "secondary"}
    PROVE  ScopedAccess'
BY DEF TypeInv, TypeOK, ScopedAccess, WriteRow

\* ScopedInv is inductive.
LEMMA ScopedStep == TypeInv /\ ScopedInv /\ [Next]_vars => ScopedInv'
<1> SUFFICES ASSUME TypeInv, ScopedInv, [Next]_vars PROVE ScopedInv'
  OBVIOUS
<1>0. /\ mapping \in [User -> Row] /\ invite \in [Invite -> InviteRow]
      /\ \A r \in Request : GoodWork(work[r]) /\ work[r] \in Work
  BY DEF TypeInv, TypeOK
<1>1. ScopedAccess'
  <2>1. CASE UNCHANGED <<mapping, lagged>>
    BY <2>1 DEF ScopedInv, ScopedAccess, Whole
  <2>2. ASSUME NEW u \in User, CatchUp(u) PROVE ScopedAccess'
    BY <2>2 DEF CatchUp, ScopedInv, ScopedAccess, Whole
  <2>3. ASSUME NEW u \in User, WriteRow(u, Absent) PROVE ScopedAccess'
    BY <2>3, ScopedWrite DEF ScopedInv, Whole, There, Absent
  <2>4. ASSUME NEW r \in Request, FoundMapping(r) PROVE ScopedAccess'
    <3>1. work[r].user \in User
      BY <1>0, <2>4 DEF FoundMapping, IsAt, GoodWork
    <3> QED BY <2>4, <3>1, ScopedWrite DEF FoundMapping, ScopedInv
  <2>5. ASSUME NEW r \in Request, Overwrite(r) PROVE ScopedAccess'
    <3>1. work[r].user \in User /\ work[r].invite \in Invite
      BY <1>0, <2>5 DEF Overwrite, IsAt, GoodWork
    <3> DEFINE i == invite[work[r].invite]
               row == [access |-> i.access,
                       subs |-> IF i.sub = NoSub THEN {} ELSE {i.sub}]
    <3>2. Whole(row) => row.access \in {"primary", "secondary"}
      BY <3>1 DEF ScopedInv, Whole
    <3>3. WriteRow(work[r].user, row)
      BY <2>5 DEF Overwrite
    <3> HIDE DEF row
    <3> QED BY <3>1, <3>2, <3>3, ScopedWrite DEF ScopedInv
  <2>6. ASSUME NEW r \in Request, Append(r) PROVE ScopedAccess'
    <3> DEFINE u == work[r].user
               row == [mapping[u] EXCEPT
                          !.subs = @ \union {invite[work[r].invite].sub}]
    <3>1. u \in User
      BY <1>0, <2>6 DEF Append, IsAt, GoodWork
    <3>2. CASE Appendable(u)
      <4>1. row.subs # {}
        BY <1>0, <3>1, <3>2 DEF Row, Absent
      <4>2. WriteRow(u, row)
        BY <2>6, <3>2 DEF Append
      <4> HIDE DEF row, u
      <4> QED BY <3>1, <4>1, <4>2, ScopedWrite DEF ScopedInv, Whole
    <3>3. CASE ~Appendable(u)
      BY <2>6, <3>3 DEF Append, ScopedInv, ScopedAccess, Whole
    <3> QED BY <3>2, <3>3
  <2>7. ASSUME NEW r \in Request, NEW t \in work[r].todo, Scrub(r, t)
        PROVE  ScopedAccess'
    <3> DEFINE row == RestOf(t[1], t[2] \ {work[r].sub})
    <3>1. t[1] \in User
      BY <1>0 DEF Work
    <3>2. ~Whole(row)
      BY DEF RestOf, Whole, There, Absent
    <3>3. WriteRow(t[1], row)
      BY <2>7 DEF Scrub
    <3> HIDE DEF row
    <3> QED BY <3>1, <3>2, <3>3, ScopedWrite DEF ScopedInv
  <2> QED BY <2>1, <2>2, <2>3, <2>4, <2>5, <2>6, <2>7, RowChange
<1>2. (\A i \in Invite : invite[i].sub = NoSub =>
          invite[i].access \in {"primary", "secondary"})'
  <2>1. CASE UNCHANGED invite
    BY <2>1 DEF ScopedInv
  <2>2. ASSUME NEW i \in Invite, Spent(i)
        PROVE  \A j \in Invite : /\ invite'[j].sub = invite[j].sub
                                 /\ invite'[j].access = invite[j].access
    BY <1>0, <2>2 DEF Spent, Spend, InviteRow
  <2>3. ASSUME NEW u \in User, NEW i \in Invite, NEW row \in Seen(u),
               Share(u, row, i)
        PROVE  \A j \in Invite : invite'[j].sub = NoSub =>
                  invite'[j].access \in {"primary", "secondary"}
    <3>1. PICK offer \in Offers(u) : invite' = [invite EXCEPT ![i] = offer]
      BY <2>3 DEF Share
    <3>2. offer.sub = NoSub => offer.access \in {"primary", "secondary"}
      BY SharingSentinels DEF Offers
    <3> QED BY <1>0, <3>1, <3>2 DEF ScopedInv
  <2> QED BY <2>1, <2>2, <2>3, InviteChange DEF ScopedInv
<1> QED BY <1>1, <1>2 DEF ScopedInv

\* However approvals and removals interleave on a row, none that is read as
\* the whole group carries less than secondary access.
THEOREM ScopedRows == Spec => []ScopedAccess
<1>1. Init => ScopedInv
  BY DEF Init, ScopedInv, ScopedAccess, Whole, There, Absent, NoInviteRow
<1>2. ScopedInv => ScopedAccess
  BY DEF ScopedInv
<1> QED BY <1>1, <1>2, TypeInvariance, ScopedStep, PTL DEF Spec

---------------------------------------------------------------------------
(* No access without a share *)

GivenSub(u, s) == \E i \in Invite : Approved(u, i) /\ invite[i].sub = s

RowGiven(u, row) ==
    /\ row.access \in {"primary", "secondary", "subentity"} =>
          WasGiven(u, row.access)
    /\ \A s \in row.subs : GivenSub(u, s)

\* What an invocation holds that it may still write.
HeldGiven(w) ==
    /\ w.pc = "found" => w.user = founder
    /\ w.pc \in {"confirm", "overwrite", "append", "discard"} =>
          invite[w.invite].st # "unborn"
    /\ \A t \in w.todo : \A s \in t[2] : GivenSub(t[1], s)

\* AccessWasShared made inductive: lagging reads and lists read earlier were
\* given too, an offer is never made twice under one identifier, and the
\* group has no founder before it is founded.
SharedInv ==
    /\ \A u \in User : RowGiven(u, mapping[u]) /\ RowGiven(u, lagged[u])
    /\ \A i \in Invite : invite[i].st # "unborn" =>
          invite[i].by \in User /\ WasGiven(invite[i].by, "primary")
    /\ \A u \in User, i \in Invite :
          Approved(u, i) => invite[i].st # "unborn"
    /\ \A r \in Request : HeldGiven(work[r])
    /\ group = "unborn" => founder = Nobody

Fixed(i) ==
    /\ invite'[i].st # "unborn"
    /\ invite'[i].access = invite[i].access
    /\ invite'[i].sub = invite[i].sub
    /\ invite'[i].by = invite[i].by

\* History only grows, and what an invite offered does not change.
Steady ==
    /\ approvals \subseteq approvals'
    /\ founder \in User => founder' = founder
    /\ \A i \in Invite : invite[i].st # "unborn" => Fixed(i)

\* Every step is steady.
LEMMA SteadyStep ==
    ASSUME TypeInv, SharedInv, [Next]_vars
    PROVE  Steady
<1>0. invite \in [Invite -> InviteRow]
  BY DEF TypeInv, TypeOK
<1>1. approvals \subseteq approvals' /\ (founder \in User => founder' = founder)
  BY HistoryChange, SharingSentinels
     DEF SharedInv, CreateGroup, Overwrite, Append
<1>2. ASSUME NEW i \in Invite, invite[i].st # "unborn"
      PROVE  Fixed(i)
  <2>1. CASE UNCHANGED invite
    BY <1>2, <2>1 DEF Fixed
  <2>2. ASSUME NEW j \in Invite, Spent(j) PROVE Fixed(i)
    BY <1>0, <1>2, <2>2 DEF Spent, Spend, InviteRow, Fixed
  <2>3. ASSUME NEW u \in User, NEW j \in Invite, NEW row \in Seen(u),
               Share(u, row, j)
        PROVE  Fixed(i)
    <3>1. invite'[i] = invite[i]
      BY <1>0, <1>2, <2>3 DEF Share
    <3> QED BY <3>1, <1>2 DEF Fixed
  <2> QED BY <2>1, <2>2, <2>3, InviteChange
<1> QED BY <1>1, <1>2 DEF Steady

\* What was given stays given.
LEMMA GivenStays ==
    ASSUME TypeInv, SharedInv, Steady, NEW u \in User
    PROVE  /\ \A a : WasGiven(u, a) => WasGiven(u, a)'
           /\ \A s : GivenSub(u, s) => GivenSub(u, s)'
BY DEF SharedInv, Steady, Fixed, WasGiven, GivenSub, Approved

\* So a row that was given stays given ...
LEMMA RowStays ==
    ASSUME TypeInv, SharedInv, Steady, NEW u \in User, NEW row,
           RowGiven(u, row)
    PROVE  RowGiven(u, row)'
BY GivenStays DEF RowGiven

\* ... and so does what an invocation holds.
LEMMA HeldStays ==
    ASSUME TypeInv, SharedInv, Steady, NEW w, GoodWork(w), HeldGiven(w)
    PROVE  HeldGiven(w)'
<1>1. w.pc = "found" => w.user \in User
  BY DEF GoodWork
<1>2. w.pc \in {"confirm", "overwrite", "append", "discard"} =>
          w.invite \in Invite
  BY DEF GoodWork
<1>3. \A t \in w.todo : t[1] \in User
  BY DEF GoodWork, Work
<1> QED BY <1>1, <1>2, <1>3, GivenStays DEF HeldGiven, Steady, Fixed

RowsGiven == \A u \in User : RowGiven(u, mapping[u]) /\ RowGiven(u, lagged[u])

\* Rows that a step leaves alone stay given.
LEMMA RowsStay ==
    ASSUME TypeInv, SharedInv, Steady, NEW u \in User
    PROVE  \A row \in {mapping[u], lagged[u]} : RowGiven(u, row)'
<1> SUFFICES ASSUME NEW row \in {mapping[u], lagged[u]}
             PROVE  RowGiven(u, row)'
  OBVIOUS
<1>1. RowGiven(u, row)
  BY DEF SharedInv
<1> QED BY <1>1, RowStays

\* Writing a row that was given keeps all of them given.
LEMMA WriteGiven ==
    ASSUME TypeInv, SharedInv, Steady, NEW u \in User, NEW row,
           WriteRow(u, row), RowGiven(u, row)'
    PROVE  RowsGiven'
<1> SUFFICES ASSUME NEW v \in User
             PROVE  RowGiven(v, mapping[v])' /\ RowGiven(v, lagged[v])'
  BY DEF RowsGiven
<1>1. PICK new : new = mapping'[v]
  OBVIOUS
<1>2. PICK old : old = lagged'[v]
  OBVIOUS
<1>3. new \in {mapping[v], lagged[v]} \/ (v = u /\ new = row)
  BY <1>1 DEF WriteRow, TypeInv, TypeOK
<1>4. old \in {mapping[v], lagged[v]} \/ (v = u /\ old = row)
  BY <1>2 DEF WriteRow, TypeInv, TypeOK
<1>5. RowGiven(v, new)' /\ RowGiven(v, old)'
  BY <1>3, <1>4, RowsStay
<1> QED BY <1>1, <1>2, <1>5 DEF RowGiven

\* Every row that a step writes was given.
LEMMA RowsStep ==
    ASSUME TypeInv, SharedInv, [Next]_vars, Steady
    PROVE  RowsGiven'
<1>0. /\ mapping \in [User -> Row] /\ invite \in [Invite -> InviteRow]
      /\ \A r \in Request : GoodWork(work[r]) /\ work[r] \in Work
      /\ \A r \in Request : HeldGiven(work[r])
  BY DEF TypeInv, TypeOK, SharedInv
<1>1. CASE UNCHANGED <<mapping, lagged>>
  <2> SUFFICES ASSUME NEW v \in User
               PROVE  RowGiven(v, mapping[v])' /\ RowGiven(v, lagged[v])'
    BY DEF RowsGiven
  <2>1. PICK new, old : new = mapping[v] /\ old = lagged[v]
    OBVIOUS
  <2>2. RowGiven(v, new)' /\ RowGiven(v, old)'
    BY <2>1, RowsStay
  <2> QED BY <1>1, <2>1, <2>2 DEF RowGiven
<1>2. ASSUME NEW u \in User, CatchUp(u) PROVE RowsGiven'
  <2> SUFFICES ASSUME NEW v \in User
               PROVE  RowGiven(v, mapping[v])' /\ RowGiven(v, lagged[v])'
    BY DEF RowsGiven
  <2>1. PICK new, old : new = mapping'[v] /\ old = lagged'[v]
    OBVIOUS
  <2>2. {new, old} \subseteq {mapping[v], lagged[v]}
    BY <1>2, <2>1 DEF CatchUp, TypeInv, TypeOK
  <2>3. RowGiven(v, new)' /\ RowGiven(v, old)'
    BY <2>2, RowsStay
  <2> QED BY <2>1, <2>3 DEF RowGiven
<1>3. ASSUME NEW u \in User, WriteRow(u, Absent) PROVE RowsGiven'
  <2>1. RowGiven(u, Absent)'
    BY DEF RowGiven, Absent
  <2>2. PICK row : row = Absent
    OBVIOUS
  <2> QED BY <1>3, <2>1, <2>2, WriteGiven DEF Absent
<1>4. ASSUME NEW r \in Request, FoundMapping(r) PROVE RowsGiven'
  <2>1. PICK u \in User : u = work[r].user
    BY <1>0, <1>4 DEF FoundMapping, IsAt, GoodWork
  <2>2. PICK row : row = [access |-> "primary", subs |-> {}]
    OBVIOUS
  <2>3. WasGiven(u, "primary")
    BY <1>0, <1>4, <2>1 DEF FoundMapping, IsAt, HeldGiven, WasGiven
  <2>4. RowGiven(u, row)
    BY <2>2, <2>3 DEF RowGiven
  <2>5. RowGiven(u, row)' /\ WriteRow(u, row)
    BY <1>4, <2>1, <2>2, <2>4, RowStays DEF FoundMapping
  <2> QED BY <2>5, WriteGiven
<1>5. ASSUME NEW r \in Request, Overwrite(r) PROVE RowsGiven'
  <2>1. PICK u \in User : u = work[r].user
    BY <1>0, <1>5 DEF Overwrite, IsAt, GoodWork
  <2>2. PICK i \in Invite : i = work[r].invite
    BY <1>0, <1>5 DEF Overwrite, IsAt, GoodWork
  <2>3. PICK row : row = [access |-> invite[i].access,
                          subs |-> IF invite[i].sub = NoSub THEN {}
                                   ELSE {invite[i].sub}]
    OBVIOUS
  <2>4. /\ Approved(u, i)'
        /\ invite'[i].access = invite[i].access
        /\ invite'[i].sub = invite[i].sub
    BY <1>0, <1>5, <2>1, <2>2
       DEF Overwrite, IsAt, Approved, HeldGiven, Steady, Fixed
  <2>5. RowGiven(u, row)'
    BY <2>3, <2>4 DEF RowGiven, WasGiven, GivenSub
  <2>6. WriteRow(u, row)
    BY <1>5, <2>1, <2>2, <2>3 DEF Overwrite
  <2> QED BY <2>5, <2>6, WriteGiven
<1>6. ASSUME NEW r \in Request, Append(r) PROVE RowsGiven'
  <2>1. PICK u \in User : u = work[r].user
    BY <1>0, <1>6 DEF Append, IsAt, GoodWork
  <2>2. PICK i \in Invite : i = work[r].invite
    BY <1>0, <1>6 DEF Append, IsAt, GoodWork
  <2>3. PICK old : old = mapping[u]
    OBVIOUS
  <2>4. PICK row : row = [old EXCEPT !.subs = @ \union {invite[i].sub}]
    OBVIOUS
  <2>5. CASE Appendable(u)
    <3>1. /\ Approved(u, i)'
          /\ invite'[i].sub = invite[i].sub
          /\ WriteRow(u, row)
      BY <1>0, <1>6, <2>1, <2>2, <2>3, <2>4, <2>5
         DEF Append, IsAt, Approved, HeldGiven, Steady, Fixed
    <3>2. RowGiven(u, old)'
      BY <2>3, RowsStay
    <3>3. row.access = old.access /\ row.subs = old.subs \union {invite[i].sub}
      BY <1>0, <2>3, <2>4 DEF Row, Absent
    <3>4. RowGiven(u, row)'
      BY <3>1, <3>2, <3>3 DEF RowGiven, GivenSub
    <3> QED BY <3>1, <3>4, WriteGiven
  <2>6. CASE ~Appendable(u)
    <3>1. UNCHANGED <<mapping, lagged>>
      BY <1>6, <2>1, <2>6 DEF Append
    <3> QED BY <3>1, <1>1
  <2> QED BY <2>5, <2>6
<1>7. ASSUME NEW r \in Request, NEW t \in work[r].todo, Scrub(r, t)
      PROVE  RowsGiven'
  <2>1. PICK u \in User : u = t[1]
    BY <1>0 DEF Work
  <2>2. PICK rest : rest = t[2] \ {work[r].sub}
    OBVIOUS
  <2>3. PICK row : row = RestOf(u, rest)
    OBVIOUS
  <2>4. \A s \in rest : GivenSub(u, s)
    BY <1>0, <2>1, <2>2 DEF HeldGiven
  <2>5. RowGiven(u, mapping[u])
    BY DEF SharedInv
  <2>6. RowGiven(u, row)
    BY <2>3, <2>4, <2>5 DEF RowGiven, RestOf, Absent
  <2>7. WriteRow(u, row)
    BY <1>7, <2>1, <2>2, <2>3 DEF Scrub
  <2> QED BY <2>6, <2>7, RowStays, WriteGiven
<1> QED BY <1>1, <1>2, <1>3, <1>4, <1>5, <1>6, <1>7, RowChange

\* Only a member who was given primary access has an invite out.
LEMMA InvitesStep ==
    ASSUME TypeInv, SharedInv, [Next]_vars, Steady, NEW i \in Invite,
           invite'[i].st # "unborn"
    PROVE  invite'[i].by \in User /\ WasGiven(invite[i].by, "primary")'
<1>0. /\ invite \in [Invite -> InviteRow] /\ mapping \in [User -> Row]
      /\ lagged \in [User -> Row]
  BY DEF TypeInv, TypeOK
<1>1. CASE invite[i].st # "unborn"
  <2>1. PICK by \in User : by = invite[i].by
    BY <1>1 DEF SharedInv
  <2>2. WasGiven(by, "primary")
    BY <1>1, <2>1 DEF SharedInv
  <2>3. WasGiven(by, "primary")'
    BY <2>2, GivenStays
  <2>4. invite'[i].by = by
    BY <1>1, <2>1 DEF Steady, Fixed
  <2> QED BY <2>3, <2>4 DEF WasGiven
<1>2. CASE invite[i].st = "unborn"
  <2>1. PICK u \in User, j \in Invite :
            \E row \in Seen(u) : Share(u, row, j)
    <3>1. ASSUME NEW j \in Invite, Spent(j) PROVE FALSE
      <4>1. invite[j].st # "unborn"
        BY <3>1 DEF Spent, SharedInv, HeldGiven, IsAt
      <4>2. invite'[i] = invite[i]
        BY <1>0, <1>2, <3>1, <4>1 DEF Spent, Spend
      <4> QED BY <4>2, <1>2
    <3> QED BY <1>2, <3>1, InviteChange
  <2>2. PICK row \in Seen(u) : Share(u, row, j)
    BY <2>1
  <2>3. row.access = "primary"
    BY <2>2 DEF Share, Can, GetGroupPermissions
  <2>4. WasGiven(u, "primary")
    BY <2>3 DEF Seen, SharedInv, RowGiven
  <2>5. PICK offer \in Offers(u) : invite' = [invite EXCEPT ![j] = offer]
    BY <2>2 DEF Share
  <2>6. i = j /\ invite'[i].by = u
    BY <1>0, <1>2, <2>5 DEF Offers
  <2>7. WasGiven(u, "primary")'
    BY <2>4, GivenStays
  <2> QED BY <2>6, <2>7 DEF WasGiven
<1> QED BY <1>1, <1>2

\* Only an invite that was sent is approved.
LEMMA ApprovalsStep ==
    ASSUME TypeInv, SharedInv, [Next]_vars, Steady, NEW u \in User,
           NEW i \in Invite, Approved(u, i)'
    PROVE  invite'[i].st # "unborn"
<1>1. CASE Approved(u, i)
  BY <1>1 DEF SharedInv, Steady, Fixed
<1>2. CASE ~Approved(u, i)
  <2>1. PICK r \in Request : Overwrite(r) \/ Append(r)
    BY <1>2, HistoryChange DEF Approved
  <2>2. work[r].invite = i /\ work[r].pc \in {"overwrite", "append"}
    BY <1>2, <2>1 DEF Overwrite, Append, Approved, IsAt
  <2> QED BY <2>2 DEF SharedInv, HeldGiven, Steady, Fixed
<1> QED BY <1>1, <1>2

WorkGiven == \A r \in Request : HeldGiven(work[r])

\* What invocations hold stays given when one of them writes what it may hold.
LEMMA HeldWrite ==
    ASSUME TypeInv, SharedInv, Steady, TypeInv', NEW r \in Request, NEW w,
           work' = [work EXCEPT ![r] = w], HeldGiven(w) \/ HeldGiven(w)'
    PROVE  WorkGiven'
<1>0. work \in [Request -> Work]
  BY DEF TypeInv, TypeOK
<1> SUFFICES ASSUME NEW q \in Request PROVE HeldGiven(work[q])'
  BY DEF WorkGiven
<1>1. PICK held : held = work'[q]
  OBVIOUS
<1>2. HeldGiven(held) \/ HeldGiven(held)'
  <2>1. CASE q = r
    BY <1>0, <1>1, <2>1
  <2>2. CASE q # r
    BY <1>0, <1>1, <2>2 DEF SharedInv
  <2> QED BY <2>1, <2>2
<1>3. GoodWork(held)
  BY <1>1 DEF TypeInv, GoodWork
<1>4. HeldGiven(held)'
  BY <1>2, <1>3, HeldStays
<1> QED BY <1>1, <1>4 DEF HeldGiven

\* An invocation that ends holds nothing.
LEMMA HeldFinish ==
    ASSUME TypeInv, SharedInv, Steady, TypeInv', NEW r \in Request, Finish(r)
    PROVE  WorkGiven'
<1>1. PICK w : w = Idle
  OBVIOUS
<1>2. HeldGiven(w)
  BY <1>1 DEF HeldGiven, Idle
<1> QED BY <1>1, <1>2, HeldWrite DEF Finish

\* Nor does one that goes on to a call it may make with what it holds.
LEMMA HeldGoto ==
    ASSUME TypeInv, SharedInv, Steady, TypeInv', NEW r \in Request,
           NEW pc \in Pc \ {"found"}, Goto(r, pc),
           pc \in {"confirm", "overwrite", "append", "discard"} =>
              invite[work[r].invite].st # "unborn"
    PROVE  WorkGiven'
<1>0. work[r] \in Work /\ HeldGiven(work[r])
  BY DEF TypeInv, TypeOK, SharedInv
<1>1. PICK w : w = [work[r] EXCEPT !.pc = pc]
  OBVIOUS
<1>2. w.pc = pc /\ w.invite = work[r].invite /\ w.todo = work[r].todo
  BY <1>0, <1>1 DEF Work
<1>3. HeldGiven(w)
  BY <1>0, <1>2 DEF HeldGiven
<1>4. work' = [work EXCEPT ![r] = w]
  BY <1>1 DEF Goto
<1> QED BY <1>3, <1>4, HeldWrite

\* A list that was given may be worked through.
LEMMA HeldContinue ==
    ASSUME TypeInv, SharedInv, Steady, TypeInv', NEW r \in Request,
           NEW pc \in {"scrub", "drop"}, NEW todo, Continue(r, pc, todo),
           \A t \in todo : \A s \in t[2] : GivenSub(t[1], s)
    PROVE  WorkGiven'
<1>0. work[r] \in Work
  BY DEF TypeInv, TypeOK
<1>1. CASE todo = {}
  BY <1>1, HeldFinish DEF Continue
<1>2. CASE todo # {}
  <2>1. PICK w : w = [work[r] EXCEPT !.pc = pc, !.todo = todo]
    OBVIOUS
  <2>2. w.pc = pc /\ w.todo = todo
    BY <1>0, <2>1 DEF Work
  <2>3. HeldGiven(w)
    BY <2>2 DEF HeldGiven
  <2>4. work' = [work EXCEPT ![r] = w]
    BY <1>2, <2>1 DEF Continue
  <2> QED BY <2>3, <2>4, HeldWrite
<1> QED BY <1>1, <1>2

\* Whatever an invocation holds and may still write was given.
LEMMA HeldStep ==
    ASSUME TypeInv, SharedInv, [Next]_vars, Steady, TypeInv'
    PROVE  WorkGiven'
<1>0. /\ \A r \in Request : work[r] \in Work /\ HeldGiven(work[r])
      /\ \A r \in Request : GoodWork(work[r])
      /\ \A u \in User : \A row \in Seen(u) : \A s \in row.subs : GivenSub(u, s)
  BY DEF TypeInv, TypeOK, SharedInv, Seen, RowGiven
<1>1. ASSUME UNCHANGED work PROVE WorkGiven'
  <2> SUFFICES ASSUME NEW q \in Request PROVE HeldGiven(work[q])'
    BY DEF WorkGiven
  <2>1. PICK held : held = work[q]
    OBVIOUS
  <2>2. HeldGiven(held)'
    BY <1>0, <2>1, HeldStays
  <2> QED BY <1>1, <2>1, <2>2 DEF HeldGiven
<1>2. ASSUME NEW r \in Request, InviteStep(r) PROVE WorkGiven'
  <2>1. ASSUME NEW u \in User, NEW i \in Invite, Approve(r, u, i)
        PROVE  WorkGiven'
    <3>1. PICK w : w = [Idle EXCEPT !.pc = "confirm", !.user = u, !.invite = i]
      OBVIOUS
    <3>2. HeldGiven(w)
      BY <2>1, <3>1 DEF Approve, Claimable, HeldGiven, Idle
    <3> QED BY <2>1, <3>1, <3>2, HeldWrite DEF Approve
  <2>2. ASSUME NEW u \in User, NEW row \in Seen(u), Confirm(r, u, row)
        PROVE  WorkGiven'
    <3>1. PICK pc : pc = Decide(row, invite[work[r].invite].access,
                                invite[work[r].invite].sub)
      OBVIOUS
    <3>2. pc \in {"discard", "overwrite", "append"} /\ Goto(r, pc)
      BY <2>2, <3>1 DEF Confirm, Decide
    <3>3. invite[work[r].invite].st # "unborn"
      BY <1>0, <2>2 DEF Confirm, IsAt, HeldGiven
    <3> QED BY <3>2, <3>3, HeldGoto DEF Pc
  <2>3. CASE Overwrite(r) \/ Append(r) \/ ConfirmFails(r)
    <3>1. invite[work[r].invite].st # "unborn"
      BY <1>0, <2>3 DEF Overwrite, Append, ConfirmFails, IsAt, HeldGiven
    <3>2. Goto(r, "discard")
      BY <2>3 DEF Overwrite, Append, ConfirmFails
    <3> QED BY <3>1, <3>2, HeldGoto DEF Pc
  <2>4. CASE Discard(r)
    BY <2>4, HeldFinish DEF Discard
  <2> QED BY <1>2, <2>1, <2>2, <2>3, <2>4 DEF InviteStep
<1>3. ASSUME NEW r \in Request, RemovalStep(r) PROVE WorkGiven'
  <2>1. ASSUME NEW u \in User, NEW row \in Seen(u), Unshare(r, u, row)
        PROVE  WorkGiven'
    <3>1. PICK target \in User : work' = [work EXCEPT ![r] =
              [Idle EXCEPT !.pc = "remove", !.user = target]]
      BY <2>1 DEF Unshare
    <3>2. PICK w : w = [Idle EXCEPT !.pc = "remove", !.user = target]
      OBVIOUS
    <3>3. HeldGiven(w)
      BY <3>2 DEF HeldGiven, Idle
    <3> QED BY <3>1, <3>2, <3>3, HeldWrite
  <2>2. ASSUME NEW u \in User, NEW row \in Seen(u), NEW s \in Sub,
               UnshareSub(r, u, row, s)
        PROVE  WorkGiven'
    <3>1. PICK target \in User : \E held \in Seen(target) :
              work' = [work EXCEPT ![r] = [Idle EXCEPT
                  !.pc = "scrub", !.sub = s, !.todo = {<<target, held.subs>>}]]
      BY <2>2 DEF UnshareSub
    <3>2. PICK held \in Seen(target) :
              work' = [work EXCEPT ![r] = [Idle EXCEPT
                  !.pc = "scrub", !.sub = s, !.todo = {<<target, held.subs>>}]]
      BY <3>1
    <3>3. PICK w : w = [Idle EXCEPT !.pc = "scrub", !.sub = s,
                                    !.todo = {<<target, held.subs>>}]
      OBVIOUS
    <3>4. w.pc = "scrub" /\ w.todo = {<<target, held.subs>>}
      BY <3>3 DEF Idle
    <3>5. HeldGiven(w)
      BY <1>0, <3>4 DEF HeldGiven
    <3> QED BY <3>2, <3>3, <3>5, HeldWrite
  <2>3. CASE RemoveMember(r)
    BY <2>3, HeldFinish DEF RemoveMember
  <2>4. ASSUME NEW t \in work[r].todo, Scrub(r, t) \/ ScrubFails(r, t)
        PROVE  WorkGiven'
    <3>1. PICK todo : todo = work[r].todo \ {t}
      OBVIOUS
    <3>2. Continue(r, "scrub", todo)
      BY <2>4, <3>1 DEF Scrub, ScrubFails, IsAt
    <3>3. \A x \in todo : \A s \in x[2] : GivenSub(x[1], s)
      BY <1>0, <3>1 DEF HeldGiven
    <3> QED BY <3>2, <3>3, HeldContinue
  <2> QED BY <1>3, <2>1, <2>2, <2>3, <2>4 DEF RemovalStep
<1>4. ASSUME NEW r \in Request, GroupStep(r) PROVE WorkGiven'
  <2>1. ASSUME NEW u \in User, CreateGroup(r, u) PROVE WorkGiven'
    <3>1. PICK w : w = [Idle EXCEPT !.pc = "found", !.user = u]
      OBVIOUS
    <3>2. HeldGiven(w)'
      BY <2>1, <3>1 DEF CreateGroup, HeldGiven, Idle
    <3> QED BY <2>1, <3>1, <3>2, HeldWrite DEF CreateGroup
  <2>2. CASE FoundMapping(r)
    BY <2>2, HeldFinish DEF FoundMapping
  <2>3. CASE FoundMappingFails(r)
    BY <2>3, HeldGoto DEF FoundMappingFails, Pc
  <2>4. CASE Rollback(r)
    BY <2>4, HeldGoto DEF Rollback, Pc
  <2>5. ASSUME NEW u \in User, NEW s \in Sub, NEW row \in Seen(u),
               DeleteSubGroup(r, u, row, s)
        PROVE  WorkGiven'
    <3>1. PICK w : w = [Idle EXCEPT !.pc = "holders", !.sub = s]
      OBVIOUS
    <3>2. HeldGiven(w)
      BY <3>1 DEF HeldGiven, Idle
    <3> QED BY <2>5, <3>1, <3>2, HeldWrite DEF DeleteSubGroup
  <2>6. ASSUME NEW list \in Listings, ListHolders(r, list) PROVE WorkGiven'
    <3>1. PICK todo : todo = {<<u, list[u].subs>> :
              u \in {x \in User : work[r].sub \in list[x].subs}}
      OBVIOUS
    <3>2. Continue(r, "scrub", todo)
      BY <2>6, <3>1 DEF ListHolders
    <3>3. \A t \in todo : \A s \in t[2] : GivenSub(t[1], s)
      BY <1>0, <3>1, ListingRows
    <3> QED BY <3>2, <3>3, HeldContinue
  <2>7. ASSUME NEW list \in Listings, ListMembers(r, list) PROVE WorkGiven'
    <3>1. PICK todo : todo = {<<u, {}>> : u \in {x \in User : There(list[x])}}
      OBVIOUS
    <3>2. Continue(r, "drop", todo)
      BY <2>7, <3>1 DEF ListMembers
    <3>3. \A t \in todo : t[2] = {}
      BY <3>1
    <3> QED BY <3>2, <3>3, HeldContinue
  <2>8. ASSUME NEW u \in User, NEW row \in Seen(u), DeleteGroup(r, u, row)
        PROVE  WorkGiven'
    <3>1. PICK w : w = [Idle EXCEPT !.pc = "rows"]
      OBVIOUS
    <3>2. HeldGiven(w)
      BY <3>1 DEF HeldGiven, Idle
    <3> QED BY <2>8, <3>1, <3>2, HeldWrite DEF DeleteGroup
  <2>9. ASSUME NEW missed \in SUBSET Sub, DropRows(r, missed) PROVE WorkGiven'
    BY <2>9, HeldGoto DEF DropRows, Pc
  <2>10. ASSUME NEW t \in work[r].todo, DropMapping(r, t) PROVE WorkGiven'
    <3>1. PICK todo : todo = work[r].todo \ {t}
      OBVIOUS
    <3>2. Continue(r, "drop", todo)
      BY <2>10, <3>1 DEF DropMapping, IsAt
    <3>3. \A x \in todo : \A s \in x[2] : GivenSub(x[1], s)
      BY <1>0, <3>1 DEF HeldGiven
    <3> QED BY <3>2, <3>3, HeldContinue
  <2> QED BY <1>4, <2>1, <2>2, <2>3, <2>4, <2>5, <2>6, <2>7, <2>8, <2>9, <2>10
          DEF GroupStep
<1>5. CASE AtomicStep
  BY <1>1, <1>5 DEF AtomicStep, Share, Reject, CreateSubGroup, InviteExpires,
      CatchUp
<1>6. ASSUME NEW r \in Request, Abandon(r) PROVE WorkGiven'
  BY <1>6, HeldFinish DEF Abandon
<1>7. CASE UNCHANGED vars
  BY <1>1, <1>7 DEF vars
<1> QED BY <1>2, <1>3, <1>4, <1>5, <1>6, <1>7 DEF Next

\* Until it is founded the group has no founder.
LEMMA FoundingStep ==
    ASSUME TypeInv, SharedInv, [Next]_vars
    PROVE  group' = "unborn" => founder' = Nobody
<1> DEFINE Goal == group' = "unborn" => founder' = Nobody
<1>1. CASE UNCHANGED vars
  BY <1>1 DEF vars, SharedInv
<1>2. ASSUME NEW r \in Request, InviteStep(r) PROVE Goal
  BY <1>2 DEF InviteStep, Approve, Confirm, Overwrite, Append, ConfirmFails,
      Discard, tables, history, SharedInv
<1>3. ASSUME NEW r \in Request, RemovalStep(r) PROVE Goal
  BY <1>3 DEF RemovalStep, Unshare, UnshareSub, RemoveMember, Scrub,
      ScrubFails, tables, history, SharedInv
<1>4. ASSUME NEW r \in Request, GroupStep(r) PROVE Goal
  <2>1. CASE Rollback(r)
    BY <2>1 DEF Rollback, history, SharedInv
  <2> QED BY <1>4, <2>1 DEF GroupStep, CreateGroup, FoundMapping,
            FoundMappingFails, DeleteSubGroup, ListHolders, ListMembers,
            DeleteGroup, DropRows, DropMapping, tables, history, SharedInv
<1>5. ASSUME AtomicStep PROVE Goal
  BY <1>5 DEF AtomicStep, Share, Reject, CreateSubGroup, InviteExpires,
      CatchUp, history, SharedInv
<1>6. ASSUME NEW r \in Request, Abandon(r) PROVE Goal
  BY <1>6 DEF Abandon, tables, history, SharedInv
<1> QED BY <1>1, <1>2, <1>3, <1>4, <1>5, <1>6 DEF Next

\* SharedInv is inductive.
LEMMA SharedStep == TypeInv /\ SharedInv /\ [Next]_vars => SharedInv'
<1> SUFFICES ASSUME TypeInv, SharedInv, [Next]_vars PROVE SharedInv'
  OBVIOUS
<1>1. Steady /\ TypeInv'
  BY SteadyStep, TypeStep
<1>2. RowsGiven'
  BY <1>1, RowsStep
<1>3. WorkGiven'
  BY <1>1, HeldStep
<1>4. \A i \in Invite : invite'[i].st # "unborn" =>
          invite'[i].by \in User /\ WasGiven(invite[i].by, "primary")'
  BY <1>1, InvitesStep
<1>5. \A u \in User, i \in Invite : Approved(u, i)' => invite'[i].st # "unborn"
  BY <1>1, ApprovalsStep
<1>6. group' = "unborn" => founder' = Nobody
  BY FoundingStep
<1> QED BY <1>2, <1>3, <1>4, <1>5, <1>6 DEF SharedInv, RowsGiven, WorkGiven

\* Initially nobody holds anything.
LEMMA SharedInit == Init => SharedInv
BY DEF Init, SharedInv, RowGiven, HeldGiven, Absent, Idle, NoInviteRow,
    Approved

\* No access appears that was not handed on: every row comes from the
\* founding or from an invite its holder approved, and every invite from a
\* member who had been given primary access, whatever stale lists are
\* written back and whichever calls fail.
THEOREM SharedAccess == Spec => []AccessWasShared
<1>1. SharedInv => AccessWasShared
  BY DEF SharedInv, AccessWasShared, RowGiven, GivenSub
<1> QED BY <1>1, SharedInit, SharedStep, TypeInvariance, PTL DEF Spec

---------------------------------------------------------------------------
(* GroupListing: what a row lets its holder see or reach is read off the   *)
(* row, so both theorems rest on what was shown of the rows: one without a *)
(* list is a primary's or a secondary's (ScopedInv), and whatever a row    *)
(* says was given to its holder (SharedInv).                               *)

\* The rows, as the proofs of sharing know them.
RowsInv == TypeInv /\ ScopedInv /\ SharedInv

\* RowsInv holds of every reachable state.
LEMMA RowsInvariance == Spec => []RowsInv
<1>1. Init => ScopedInv
  BY DEF Init, ScopedInv, ScopedAccess, Whole, There, Absent, NoInviteRow
<1>2. Init => RowsInv
  BY <1>1, TypeInit, SharedInit DEF RowsInv
<1>3. RowsInv /\ [Next]_vars => RowsInv'
  BY TypeStep, ScopedStep, SharedStep DEF RowsInv
<1> QED BY <1>2, <1>3, PTL DEF Spec

---------------------------------------------------------------------------
(* The three routes agree *)

\* A row reaches the nodes of the whole group, or of the subgroups it lists.
LEMMA RouteToTopics ==
    ASSUME NEW row, NEW at, NEW n \in Member
    PROVE  n \in Reached(row, at) <=>
              There(row) /\ (row.subs = {} \/ n \in InOne(row.subs, at))
BY DEF Reached, GroupAccess, Accessible, InOne

\* So do the files of a node, where no subentity row lists nothing.
LEMMA RouteToFiles ==
    ASSUME NEW row, NEW at, NEW n \in Member,
           Whole(row) => row.access # "subentity"
    PROVE  n \in ServicesReached(row, n, at) <=>
              There(row) /\ (row.subs = {} \/ n \in InOne(row.subs, at))
BY DEF ServicesReached, ServicesGiven, Whole

\* And the notifications.
LEMMA RouteToNotices ==
    ASSUME NEW row, NEW at, NEW n \in Member
    PROVE  Notified(row, n, at) <=>
              There(row) /\ (row.subs = {} \/ n \in InOne(row.subs, at))
BY DEF Notified

\* The keys to a node's topics, those to its files and streams and its
\* notifications go to the same members, though they read the rows differently
\* (ListUserAccessibleGroups, authorizeNodeAccess, ListUsersForGroupOrSubGroup).
THEOREM RoutesAlwaysAgree == Spec => []RoutesAgree
<1>1. RowsInv => RoutesAgree
  <2> SUFFICES ASSUME RowsInv, NEW u \in User, NEW at \in Placements,
                      NEW n \in Member
               PROVE  LET row == mapping[u] IN
                      /\ n \in Credentials(row, n, at)
                            <=> n \in Credentials(row, ForGroup, at)
                      /\ Notified(row, n, at)
                            <=> n \in Credentials(row, ForGroup, at)
    BY DEF RoutesAgree
  <2> DEFINE row == mapping[u]
  <2>1. Whole(row) => row.access # "subentity"
    BY DEF RowsInv, ScopedInv, ScopedAccess
  <2> HIDE DEF row
  <2>2. Credentials(row, ForGroup, at) = Reached(row, at)
    BY DEF Credentials
  <2>3. \/ Credentials(row, n, at) = Reached(row, at)
        \/ Credentials(row, n, at) = ServicesReached(row, n, at)
    BY DEF Credentials
  <2> QED BY <2>1, <2>2, <2>3, RouteToTopics, RouteToFiles, RouteToNotices
         DEF row
<1> QED BY <1>1, RowsInvariance, PTL

---------------------------------------------------------------------------
(* Only what was shared is shown *)

\* The row of a member who was never given the whole group: limited to
\* subgroups, all of them given.
Limited(u, row) ==
    /\ There(row)
    /\ row.access \in {"none", "subentity"}
    /\ row.subs # {}
    /\ row.subs \subseteq GivenSubs(u)

\* Such a member holds such a row.
LEMMA LimitedRow ==
    ASSUME RowsInv, NEW u \in User, There(mapping[u]), ~GivenWhole(u)
    PROVE  Limited(u, mapping[u])
<1>0. mapping[u] \in Row /\ invite \in [Invite -> InviteRow]
  BY DEF RowsInv, TypeInv, TypeOK
<1>1. mapping[u].access \notin {"primary", "secondary"}
  BY DEF RowsInv, SharedInv, RowGiven, GivenWhole
<1>2. mapping[u].access \in {"none", "subentity"}
  BY <1>0, <1>1 DEF Row, Access, Absent, There
<1>3. mapping[u].subs # {}
  BY <1>1 DEF RowsInv, ScopedInv, ScopedAccess, Whole
<1>4. ASSUME NEW s \in mapping[u].subs PROVE s \in GivenSubs(u)
  <2>1. PICK i \in Invite : Approved(u, i) /\ invite[i].sub = s
    BY DEF RowsInv, SharedInv, RowGiven, GivenSub
  <2>2. invite[i].access \notin {"primary", "secondary"}
    BY <2>1 DEF GivenWhole, WasGiven
  <2>3. invite[i].sub # NoSub
    BY <2>2 DEF RowsInv, ScopedInv
  <2>4. s \in Sub
    BY <1>0, <2>1, <2>3 DEF InviteRow
  <2> QED BY <2>1, <2>4 DEF GivenSubs
<1> QED BY <1>2, <1>3, <1>4 DEF Limited

\* More subgroups hold no fewer nodes.
LEMMA InOneGrows ==
    ASSUME NEW at, NEW few, NEW many, few \subseteq many
    PROVE  InOne(few, at) \subseteq InOne(many, at)
BY DEF InOne

\* A limited row lists none of the secrets, and only what was given.
LEMMA LimitedListing ==
    ASSUME NEW u \in User, NEW row, Limited(u, row)
    PROVE  /\ ~ListsSecrets(row)
           /\ Lists(row) => row.access = "subentity"
           /\ Lists(row) => ListedSubGroups(row) \subseteq GivenSubs(u)
           /\ \A at : Lists(row) =>
                 ListedNodes(row, at) \subseteq InOne(GivenSubs(u), at)
<1>1. ~ListsSecrets(row) /\ (Lists(row) => row.access = "subentity")
  BY DEF Limited, ListsSecrets, Lists, ListPermissions
<1>2. ASSUME Lists(row)
      PROVE  {s \in Sub : IsConditionMatch(row, s)} \subseteq GivenSubs(u)
  BY <1>1, <1>2 DEF IsConditionMatch, Limited
<1>3. ASSUME NEW at, Lists(row)
      PROVE  ListedNodes(row, at) \subseteq InOne(GivenSubs(u), at)
  <2>1. ListedNodes(row, at) = InOne({s \in Sub : IsConditionMatch(row, s)}, at)
    BY <1>1 DEF ListedNodes, ListsSecrets
  <2> QED BY <1>2, <1>3, <2>1, InOneGrows
<1> QED BY <1>1, <1>2, <1>3 DEF ListedSubGroups

\* Nor do its credentials reach further.
LEMMA LimitedReach ==
    ASSUME NEW u \in User, NEW row, Limited(u, row), NEW at, NEW path
    PROVE  Credentials(row, path, at) \subseteq InOne(GivenSubs(u), at)
<1>1. InOne(row.subs, at) \subseteq InOne(GivenSubs(u), at)
  BY InOneGrows DEF Limited
<1>2. Reached(row, at) = InOne(row.subs, at)
  BY DEF Reached, GroupAccess, Accessible, Limited
<1>3. ServicesReached(row, path, at) \subseteq InOne(row.subs, at)
  BY DEF ServicesReached, ServicesGiven, Limited
<1> QED BY <1>1, <1>2, <1>3 DEF Credentials

\* Nobody who was never given the whole group is shown its secrets, or finds
\* members or reaches nodes outside the subgroups they joined
\* (ListRowsWithGroupID, ListGroupNodesWithDBEntry, ListAllUsersForGroup).
THEOREM ShownIsShared == Spec => []ShownWasShared
<1>1. RowsInv => ShownWasShared
  <2> SUFFICES ASSUME RowsInv, NEW u \in User, There(mapping[u]), ~GivenWhole(u)
      PROVE  LET row == mapping[u] mine == GivenSubs(u) IN
             /\ ~ListsSecrets(row)
             /\ FoundInGroup(u) = {}
             /\ \A s \in Sub \ mine : FoundInSubGroup(u, s) = {}
             /\ Lists(row) => ListedSubGroups(row) \subseteq mine
             /\ \A at \in Placements :
                   /\ Lists(row) => ListedNodes(row, at) \subseteq InOne(mine, at)
                   /\ \A path \in Member \union {ForGroup} :
                         Credentials(row, path, at) \subseteq InOne(mine, at)
    BY DEF ShownWasShared
  <2>1. Limited(u, mapping[u])
    BY LimitedRow
  <2>2. FoundInGroup(u) = {}
    BY <2>1 DEF FoundInGroup, Limited
  <2>3. ASSUME NEW s \in Sub \ GivenSubs(u) PROVE FoundInSubGroup(u, s) = {}
    BY <2>1 DEF FoundInSubGroup, Limited
  <2> QED BY <2>1, <2>2, <2>3, LimitedListing, LimitedReach
<1> QED BY <1>1, RowsInvariance, PTL
===========================================================================
