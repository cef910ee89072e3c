--------------------------- MODULE GroupSharing ---------------------------
(***************************************************************************)
(* Who may act on one group: its members' rows, its subgroups and the      *)
(* invitations to it (rmneo/group, rmneo/db/user_group_db,                 *)
(* rmneo/db/sharing_request_db, rmneo/db/group_db, utils/actions.go).      *)
(*                                                                         *)
(* A row's access type decides what its holder may do; its list of         *)
(* subgroups decides where.  The empty list stands for the whole group.    *)
(* A request reads rows and writes them later, with no condition on what   *)
(* it read: every write is an action of its own, together with the reads   *)
(* before it that nothing depends on.  A read, by key or through the index *)
(* by group, may return a row as it was before its latest writes.          *)
(***************************************************************************)
EXTENDS Integers, FiniteSets

CONSTANTS
    User,
    Sub,                \* subgroup identifiers
    Invite,             \* sharing-request identifiers
    Request,            \* concurrent invocations
    Nobody,             \* the addressee of an unclaimed (QR code) invite
    NoSub, NoInvite,
    ReadsMayLag,        \* may a read miss the latest writes?
    StorageMayFail      \* may a single call fail while the request goes on?

ASSUME SharingSentinels ==
    /\ Nobody \notin User
    /\ NoSub \notin Sub
    /\ NoInvite \notin Invite

VARIABLES
    group,              \* phase of the group's own row
    sub,                \* [Sub -> phase of the subgroup's row]
    mapping,            \* [User -> user-group row]
    lagged,             \* [User -> the row a lagging read returns]
    invite,             \* [Invite -> sharing request]
    founder,            \* history: who created the group
    approvals,          \* history: <<user, invite>> that were approved
    work                \* [Request -> what the invocation holds]

tables == <<group, sub, mapping, lagged, invite>>
history == <<founder, approvals>>
vars == <<group, sub, mapping, lagged, invite, founder, approvals, work>>

---------------------------------------------------------------------------
(* Rows *)

Phase == {"unborn", "live", "gone"}

\* GroupAccessType.  A row written without one has access "none".
Access == {"none", "primary", "secondary", "subentity"}

Absent == [access |-> "absent", subs |-> {}]

Row == [access : Access, subs : SUBSET (Sub \union {NoSub})]
           \union {Absent}

InviteRow ==
    [st : {"unborn", "pending", "gone"},
     access : {"primary", "secondary", "subentity"},
     sub : Sub \union {NoSub}, by : User \union {Nobody},
     to : User \union {Nobody}]

\* A request that is gone keeps, as history, what it offered and who sent it.
NoInviteRow ==
    [st |-> "unborn", access |-> "secondary", sub |-> NoSub, by |-> Nobody,
     to |-> Nobody]

(***************************************************************************)
(* What an invocation holds: pc names its next call, user whose row it     *)
(* will write, invite the request it claimed, sub the subgroup it removes, *)
(* and todo the rows still to write, each with the list its read returned. *)
(***************************************************************************)
Pc == {"idle", "found", "rollback", "failed", "confirm", "overwrite",
       "append", "discard", "remove", "holders", "scrub", "rows", "members",
       "drop"}

Work ==
    [pc : Pc, user : User \union {Nobody}, invite : Invite \union {NoInvite},
     sub : Sub \union {NoSub},
     todo : SUBSET (User \X SUBSET (Sub \union {NoSub}))]

Idle ==
    [pc |-> "idle", user |-> Nobody, invite |-> NoInvite, sub |-> NoSub,
     todo |-> {}]

Init ==
    /\ group = "unborn"
    /\ sub = [s \in Sub |-> "unborn"]
    /\ mapping = [u \in User |-> Absent]
    /\ lagged = [u \in User |-> Absent]
    /\ invite = [i \in Invite |-> NoInviteRow]
    /\ founder = Nobody
    /\ approvals = {}
    /\ work = [r \in Request |-> Idle]

---------------------------------------------------------------------------
(* Helpers *)

\* The actions of utils/actions.go that guard a step of this module.
Action == {"share", "delete", "createsubgroup", "deletesubgroup"}

\* Mutant: secondary members may share.
PermissionsWithShare(access) ==
    IF access \in {"primary", "secondary"} THEN Action ELSE {}

GetGroupPermissions(access) ==
    CASE access = "primary" -> Action
      [] access = "secondary" -> {"createsubgroup", "deletesubgroup"}
      [] OTHER -> {}

\* What a read of u's row may return.
Seen(u) == {mapping[u], lagged[u]}

\* A listing through the index returns each row as one read would.
Listings == {[u \in User |-> IF u \in old THEN lagged[u] ELSE mapping[u]] :
                old \in SUBSET User}

There(row) == row.access # "absent"

\* GetUserGroup: rows that name subgroups do not reach the whole group.
Whole(row) == There(row) /\ row.subs = {}

\* GetUserSubGroup
Reaches(row, s) == There(row) /\ (row.subs = {} \/ s \in row.subs)

Can(action, row) == action \in GetGroupPermissions(row.access)

WriteRow(u, row) ==
    /\ mapping' = [mapping EXCEPT ![u] = row]
    /\ lagged' = IF ReadsMayLag THEN lagged ELSE [lagged EXCEPT ![u] = row]

Goto(r, pc) == work' = [work EXCEPT ![r].pc = pc]
Finish(r) == work' = [work EXCEPT ![r] = Idle]

\* On to the rows of a list, or done when there is none left.
Continue(r, pc, todo) ==
    IF todo = {} THEN Finish(r)
    ELSE work' = [work EXCEPT ![r].pc = pc, ![r].todo = todo]

IsAt(r, pc) == work[r].pc = pc

---------------------------------------------------------------------------
(* Creating the group *)

\* CreateGroupForUser writes the group's row first ...
CreateGroup(r, u) ==
    /\ IsAt(r, "idle")
    /\ group = "unborn"
    /\ group' = "live"
    /\ founder' = u
    /\ work' = [work EXCEPT ![r] = [Idle EXCEPT !.pc = "found", !.user = u]]
    /\ UNCHANGED <<sub, mapping, lagged, invite, approvals>>

\* ... then its creator's, for an id nobody else knows yet.
FoundMapping(r) ==
    /\ IsAt(r, "found")
    /\ WriteRow(work[r].user, [access |-> "primary", subs |-> {}])
    /\ Finish(r)
    /\ UNCHANGED <<group, sub, invite, history>>

FoundMappingFails(r) ==
    /\ StorageMayFail
    /\ IsAt(r, "found")
    /\ Goto(r, "rollback")
    /\ UNCHANGED <<tables, history>>

\* The rollback's DeleteGroup wants group:delete, which the caller is granted
\* with the row that was not written.
Rollback(r) ==
    /\ IsAt(r, "rollback")
    /\ group' = IF Can("delete", Absent) THEN "gone" ELSE group
    /\ Goto(r, "failed")
    /\ UNCHANGED <<sub, mapping, lagged, invite, history>>

---------------------------------------------------------------------------
(* Inviting *)

\* What a request may offer: a group is shared as primary or secondary, a
\* subgroup as subentity, with one user or with whoever scans the QR code.
Offers(u) ==
    LET to == (User \ {u}) \union {Nobody}
    IN  [st : {"pending"}, by : {u}, to : to, sub : {NoSub},
         access : {"primary", "secondary"}]
        \union
        [st : {"pending"}, by : {u}, to : to, sub : Sub,
         access : {"subentity"}]

\* ShareGroup and ShareSubGroup: the caller's row, then the request's.
Share(u, row, i) ==
    /\ Whole(row)
    /\ Can("share", row)
    /\ invite[i].st = "unborn"
    /\ \E offer \in Offers(u) : invite' = [invite EXCEPT ![i] = offer]
    /\ UNCHANGED <<group, sub, mapping, lagged, history, work>>

\* claimSharingRequest: addressed to the caller, or to nobody.
Claimable(u, i) == invite[i].st = "pending" /\ invite[i].to \in {u, Nobody}

\* ApproveSharingRequest; the sharer's own attempt leaves the invite alone.
Approve(r, u, i) ==
    /\ IsAt(r, "idle")
    /\ Claimable(u, i)
    /\ invite[i].by # u
    /\ work' = [work EXCEPT ![r] = [Idle EXCEPT
           !.pc = "confirm", !.user = u, !.invite = i]]
    /\ UNCHANGED <<tables, history>>

\* createUserGroupEntry decides from the row it reads.
Decide(row, access, s) ==
    IF There(row) /\ row.access # "subentity" /\ access = "subentity"
       THEN "discard"
    ELSE IF row.access # access THEN "overwrite"
    ELSE IF row.subs = {} \/ s \in row.subs THEN "discard"
    ELSE "append"

Confirm(r, u, row) ==
    /\ IsAt(r, "confirm")
    /\ work[r].user = u
    /\ LET i == invite[work[r].invite]
       IN  Goto(r, Decide(row, i.access, i.sub))
    /\ UNCHANGED <<tables, history>>

\* A new row, or a promotion or demotion: both attributes are set.
Overwrite(r) ==
    /\ IsAt(r, "overwrite")
    /\ LET i == invite[work[r].invite]
       IN  WriteRow(work[r].user,
               [access |-> i.access,
                subs |-> IF i.sub = NoSub THEN {} ELSE {i.sub}])
    /\ approvals' = approvals \union {<<work[r].user, work[r].invite>>}
    /\ Goto(r, "discard")
    /\ UNCHANGED <<group, sub, invite, founder>>

\* Mutant: the append creates what it does not find.
AppendsToAnything(u) == TRUE

\* list_append fails on a row that is not there.
Appendable(u) == There(mapping[u])

\* list_append touches the list alone.
Append(r) ==
    /\ IsAt(r, "append")
    /\ LET u == work[r].user
           i == invite[work[r].invite]
       IN  IF Appendable(u)
           THEN /\ WriteRow(u, [mapping[u] EXCEPT !.subs = @ \union {i.sub}])
                /\ approvals' = approvals \union {<<u, work[r].invite>>}
           ELSE UNCHANGED <<mapping, lagged, approvals>>
    /\ Goto(r, "discard")
    /\ UNCHANGED <<group, sub, invite, founder>>

ConfirmFails(r) ==
    /\ StorageMayFail
    /\ work[r].pc \in {"confirm", "overwrite", "append"}
    /\ Goto(r, "discard")
    /\ UNCHANGED <<tables, history>>

\* The request's row is deleted.
Spend(i) ==
    invite' = [invite EXCEPT ![i] = [@ EXCEPT !.st = "gone", !.to = Nobody]]

\* The deferred delete: confirmed, refused or failed, the invite is spent.
Discard(r) ==
    /\ IsAt(r, "discard")
    /\ Spend(work[r].invite)
    /\ Finish(r)
    /\ UNCHANGED <<group, sub, mapping, lagged, history>>

\* RejectSharingRequest, by a recipient or by the sharer of a QR invite.
Reject(u, i) ==
    /\ Claimable(u, i)
    /\ Spend(i)
    /\ UNCHANGED <<group, sub, mapping, lagged, history, work>>

\* Past its expiration_time no claim succeeds any more.
InviteExpires(i) ==
    /\ invite[i].st = "pending"
    /\ Spend(i)
    /\ UNCHANGED <<group, sub, mapping, lagged, history, work>>

---------------------------------------------------------------------------
(* Removing a member *)

\* The last-primary guard.
Spares(target, list) ==
    LET primaries == {u \in User : list[u].access = "primary"}
    IN  target \in primaries => Cardinality(primaries) > 1

\* UnshareGroup: the caller's row, then the members' listing for the
\* guard.  The guard is skipped when the listing fails.
Unshare(r, u, row) ==
    /\ IsAt(r, "idle")
    /\ Whole(row)
    /\ \E target \in User :
          /\ u = target \/ Can("share", row)
          /\ StorageMayFail \/ \E list \in Listings : Spares(target, list)
          /\ work' = [work EXCEPT ![r] =
                 [Idle EXCEPT !.pc = "remove", !.user = target]]
    /\ UNCHANGED <<tables, history>>

RemoveMember(r) ==
    /\ IsAt(r, "remove")
    /\ WriteRow(work[r].user, Absent)
    /\ Finish(r)
    /\ UNCHANGED <<group, sub, invite, history>>

\* UnshareSubGroup: the caller's row, then the target's.
UnshareSub(r, u, row, s) ==
    /\ IsAt(r, "idle")
    /\ Reaches(row, s)
    /\ \E target \in User : \E held \in Seen(target) :
          /\ u = target \/ Can("share", row)
          /\ There(held)
          /\ s \in held.subs
          /\ work' = [work EXCEPT ![r] = [Idle EXCEPT
                 !.pc = "scrub", !.sub = s, !.todo = {<<target, held.subs>>}]]
    /\ UNCHANGED <<tables, history>>

\* Mutant: the list is always written back, the empty one too.
RestOnly(u, rest) ==
    [access |-> IF There(mapping[u]) THEN mapping[u].access ELSE "none",
     subs |-> rest]

\* Without the subgroup: an empty list deletes the row; any other is SET,
\* which brings a row that is gone back, without an access type.
RestOf(u, rest) ==
    IF rest = {} THEN Absent
    ELSE [access |-> IF There(mapping[u]) THEN mapping[u].access ELSE "none",
          subs |-> rest]

\* removeSubGroupFromUser, on the list that was read.
Scrub(r, t) ==
    /\ IsAt(r, "scrub")
    /\ t \in work[r].todo
    /\ WriteRow(t[1], RestOf(t[1], t[2] \ {work[r].sub}))
    /\ Continue(r, work[r].pc, work[r].todo \ {t})
    /\ UNCHANGED <<group, sub, invite, history>>

\* A row that cannot be scrubbed is reported and the next one tried.
ScrubFails(r, t) ==
    /\ StorageMayFail
    /\ IsAt(r, "scrub")
    /\ t \in work[r].todo
    /\ Continue(r, work[r].pc, work[r].todo \ {t})
    /\ UNCHANGED <<tables, history>>

---------------------------------------------------------------------------
(* Subgroups and the end of the group *)

\* Nothing checks that the parent is still there.
CreateSubGroup(u, row, s) ==
    /\ Whole(row)
    /\ Can("createsubgroup", row)
    /\ sub[s] = "unborn"
    /\ sub' = [sub EXCEPT ![s] = "live"]
    /\ UNCHANGED <<group, mapping, lagged, invite, history, work>>

\* DeleteSubGroup drops the subgroup's row, which must exist (it is refused
\* while nodes are in it) ...
DeleteSubGroup(r, u, row, s) ==
    /\ IsAt(r, "idle")
    /\ Reaches(row, s)
    /\ Can("deletesubgroup", row)
    /\ sub[s] = "live"
    /\ sub' = [sub EXCEPT ![s] = "gone"]
    /\ work' = [work EXCEPT ![r] = [Idle EXCEPT
           !.pc = "holders", !.sub = s]]
    /\ UNCHANGED <<group, mapping, lagged, invite, history>>

\* ... then lists who holds it and scrubs their rows, from the listing.
ListHolders(r, list) ==
    /\ IsAt(r, "holders")
    /\ Continue(r, "scrub", {<<u, list[u].subs>> :
           u \in {x \in User : work[r].sub \in list[x].subs}})
    /\ UNCHANGED <<tables, history>>

\* DeleteGroup is for a primary, on a group without subgroups or nodes.
DeleteGroup(r, u, row) ==
    /\ IsAt(r, "idle")
    /\ Whole(row)
    /\ Can("delete", row)
    /\ ReadsMayLag \/ \A s \in Sub : sub[s] # "live"
    /\ work' = [work EXCEPT ![r] = [Idle EXCEPT !.pc = "rows"]]
    /\ UNCHANGED <<tables, history>>

\* Every row under the group's id that the query returns is deleted.
DropRows(r, missed) ==
    /\ IsAt(r, "rows")
    /\ ReadsMayLag \/ missed = {}
    /\ group' = "gone"
    /\ sub' = [s \in Sub |-> IF sub[s] = "live" /\ s \notin missed
                             THEN "gone" ELSE sub[s]]
    /\ Goto(r, "members")
    /\ UNCHANGED <<mapping, lagged, invite, history>>

\* DeleteUserGroupByGroupID: list the members through the index ...
ListMembers(r, list) ==
    /\ IsAt(r, "members")
    /\ Continue(r, "drop",
           {<<u, {}>> : u \in {x \in User : There(list[x])}})
    /\ UNCHANGED <<tables, history>>

\* ... and delete their rows, in no particular order.
DropMapping(r, t) ==
    /\ IsAt(r, "drop")
    /\ t \in work[r].todo
    /\ WriteRow(t[1], Absent)
    /\ Continue(r, work[r].pc, work[r].todo \ {t})
    /\ UNCHANGED <<group, sub, invite, history>>

---------------------------------------------------------------------------
(* The environment *)

\* An invocation stops where it is: timeout, crash or returned error.
Abandon(r) ==
    /\ ~IsAt(r, "idle")
    /\ Finish(r)
    /\ UNCHANGED <<tables, history>>

CatchUp(u) ==
    /\ lagged[u] # mapping[u]
    /\ lagged' = [lagged EXCEPT ![u] = mapping[u]]
    /\ UNCHANGED <<group, sub, mapping, invite, history, work>>

InviteStep(r) ==
    \/ \E u \in User, i \in Invite : Approve(r, u, i)
    \/ \E u \in User : \E row \in Seen(u) : Confirm(r, u, row)
    \/ Overwrite(r)
    \/ Append(r)
    \/ ConfirmFails(r)
    \/ Discard(r)

RemovalStep(r) ==
    \/ \E u \in User : \E row \in Seen(u) :
          Unshare(r, u, row) \/ \E s \in Sub : UnshareSub(r, u, row, s)
    \/ RemoveMember(r)
    \/ \E t \in work[r].todo : Scrub(r, t) \/ ScrubFails(r, t)

GroupStep(r) ==
    \/ \E u \in User : CreateGroup(r, u)
    \/ FoundMapping(r)
    \/ FoundMappingFails(r)
    \/ Rollback(r)
    \/ \E u \in User, s \in Sub : \E row \in Seen(u) :
          DeleteSubGroup(r, u, row, s)
    \/ \E list \in Listings : ListHolders(r, list) \/ ListMembers(r, list)
    \/ \E u \in User : \E row \in Seen(u) : DeleteGroup(r, u, row)
    \/ \E missed \in SUBSET Sub : DropRows(r, missed)
    \/ \E t \in work[r].todo : DropMapping(r, t)

AtomicStep ==
    \/ \E u \in User, i \in Invite : \E row \in Seen(u) : Share(u, row, i)
    \/ \E u \in User, i \in Invite : Reject(u, i)
    \/ \E u \in User, s \in Sub : \E row \in Seen(u) :
          CreateSubGroup(u, row, s)
    \/ \E i \in Invite : InviteExpires(i)
    \/ \E u \in User : CatchUp(u)

Next ==
    \/ \E r \in Request :
          InviteStep(r) \/ RemovalStep(r) \/ GroupStep(r) \/ Abandon(r)
    \/ AtomicStep

Spec == Init /\ [][Next]_vars

---------------------------------------------------------------------------
(* Correctness *)

TypeOK ==
    /\ group \in Phase
    /\ sub \in [Sub -> Phase]
    /\ mapping \in [User -> Row]
    /\ lagged \in [User -> Row]
    /\ invite \in [Invite -> InviteRow]
    /\ founder \in User \union {Nobody}
    /\ approvals \subseteq User \X Invite
    /\ work \in [Request -> Work]

\* The empty list of subgroups reads as the whole group "everywhere it is
\* consulted", so only a primary or secondary row may ever carry it, however
\* concurrent approvals and removals interleave on the row.
\* (createUserGroupEntry, removeSubGroupFromUser.)
ScopedAccess ==
    \A u \in User : Whole(mapping[u]) =>
        mapping[u].access \in {"primary", "secondary"}

\* Whether u was ever given this access, or this subgroup.
Approved(u, i) == <<u, i>> \in approvals
WasGiven(u, access) ==
    \/ access = "primary" /\ u = founder
    \/ \E i \in Invite : Approved(u, i) /\ invite[i].access = access

\* No access appears that was not handed on: a row's access and each of its
\* subgroups come from the group's creation or an invite its holder approved,
\* and every invite comes from someone who had been given primary access.
\* Reads that lag, lists written back stale and rows that come back do not
\* change that.  (CreateSharingRequest, createUserGroupEntry.)
AccessWasShared ==
    /\ \A u \in User :
          /\ mapping[u].access \in {"primary", "secondary", "subentity"} =>
                WasGiven(u, mapping[u].access)
          /\ \A s \in mapping[u].subs :
                \E i \in Invite : Approved(u, i) /\ invite[i].sub = s
    /\ \A i \in Invite : invite[i].st # "unborn" =>
          WasGiven(invite[i].by, "primary")

===========================================================================
