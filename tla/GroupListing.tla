---------------------------- MODULE GroupListing ----------------------------
(***************************************************************************)
(* What the rows of GroupSharing let their holders see and reach: the      *)
(* groups' listing (rmneo/group, rmneo/db/group_db, rmneo/db/group_node_db,*)
(* utils/rmngctx), the credentials an app asks for (rmneo/handlers/user/   *)
(* assume_role) and who is notified of a node.  Each reads the row its own *)
(* way: the listing by its access type, the others by its list.            *)
(***************************************************************************)
EXTENDS GroupSharing

CONSTANT Member     \* nodes of the group

\* Where the nodes may be: the subgroups each is in.
Placements == [Member -> SUBSET Sub]
InOne(subs, at) == {n \in Member : at[n] \intersect subs # {}}

----------------------------------------------------------------------------
(* The listing                                                             *)

\* GetGroupPermissions, of the actions a listing asks for.
ListPermissions(access) ==
    CASE access \in {"primary", "secondary"} -> {"get", "listsubentities"}
      [] access = "subentity" -> {"listsubentities"}
      [] OTHER -> {}

\* SetScopedConditions narrows a subentity row's grant to its list; where no
\* condition is set, everything matches.
IsConditionMatch(row, s) == row.access = "subentity" => s \in row.subs

\* ListRowsWithGroupID: the subgroups, and whether the secrets come along.
ListedSubGroups(row) == {s \in Sub : sub[s] = "live" /\ IsConditionMatch(row, s)}
ListsSecrets(row) == "get" \in ListPermissions(row.access)

\* Mutant: limited access is not looked at.
AllGroupNodes(row, at) == Member
\* ListGroupNodesWithDBEntry: without group:get, the nodes of the subgroups
\* that match; the caller may then do anything with the nodes listed.
ListedNodes(row, at) ==
    IF "get" \in ListPermissions(row.access) THEN Member
    ELSE InOne({s \in Sub : IsConditionMatch(row, s)}, at)

\* _listGroupsForUser fails as a whole where one row may not be listed.
Lists(row) == There(row) /\ "listsubentities" \in ListPermissions(row.access)

\* The members u finds, asking for the group or for one subgroup: "primary
\* callers see all members", the others only owners.
\* (ListAllUsersForGroup, ListUsersForGroup, ListUsersForSubGroup.)
SeesMember(mine, theirs) ==
    /\ There(mine) /\ There(theirs)
    /\ \/ mine.access = "primary"
       \/ mine.access \in {"secondary", "subentity"} /\ theirs.access = "primary"
FoundInGroup(u) ==
    {v \in User : mapping[u].subs = {} /\ SeesMember(mapping[u], mapping[v])}
FoundInSubGroup(u, s) ==
    {v \in User : /\ mapping[u].subs # {} => s \in mapping[u].subs
                  /\ SeesMember(mapping[u], mapping[v])
                  /\ mapping[v].subs # {} => s \in mapping[v].subs}

----------------------------------------------------------------------------
(* Credentials and notifications                                           *)

\* ListUserAccessibleGroups: the list decides, whatever the access type.
Accessible(row) == IF row.subs = {} THEN [whole |-> TRUE, subs |-> {}]
                   ELSE [whole |-> FALSE, subs |-> row.subs]

\* resolveAssumeRoleGroupAccess: who has no row is given nothing.
GroupAccess(row) == IF There(row) THEN Accessible(row) ELSE [whole |-> FALSE, subs |-> {}]

\* createMQTTPolicyDocument: shadows and topics of the group, or of subgroups.
Reached(row, at) ==
    IF GroupAccess(row).whole THEN Member ELSE InOne(GroupAccess(row).subs, at)

\* authorizeNodeAccess, for the services of one node.
ServicesGiven(row, n, at) ==
    /\ There(row)
    /\ \/ row.access # "subentity" /\ row.subs = {}
       \/ n \in InOne(row.subs, at)

\* createServicesPolicyDocument: the files and the streams, of that node only.
ServicesReached(row, n, at) == IF ServicesGiven(row, n, at) THEN {n} ELSE {}

\* handleRequest: a path with a node asks for its services, one without for
\* shadows and topics; the policy of the session is all its credentials give.
ForGroup == "no node"
Credentials(row, path, at) ==
    IF path = ForGroup THEN Reached(row, at) ELSE ServicesReached(row, path, at)

\* ListUsersForGroupOrSubGroup
Notified(row, n, at) ==
    There(row) /\ (row.subs # {} => n \in InOne(row.subs, at))

----------------------------------------------------------------------------
\* The keys to a node's topics, the keys to its files and streams and its
\* notifications go to the same members, though one of the three looks at the
\* access type and two do not: whichever rows sharing, promotion and removals
\* leave when they interleave.
RoutesAgree ==
    \A u \in User, at \in Placements, n \in Member :
        LET row == mapping[u] IN
        /\ n \in Credentials(row, n, at) <=> n \in Credentials(row, ForGroup, at)
        /\ Notified(row, n, at) <=> n \in Credentials(row, ForGroup, at)

GivenWhole(u) == WasGiven(u, "primary") \/ WasGiven(u, "secondary")
GivenSubs(u) == {s \in Sub : \E i \in Invite : Approved(u, i) /\ invite[i].sub = s}

\* Nobody is shown the group's secrets, or a node outside the subgroups they
\* joined, or reaches one by their credentials, who was never given the whole
\* group; not even by a row that a removal wrote back while it was replaced.
ShownWasShared ==
    \A u \in User : There(mapping[u]) /\ ~GivenWhole(u) =>
        LET row == mapping[u] mine == GivenSubs(u) IN
        /\ ~ListsSecrets(row)
        /\ FoundInGroup(u) = {}
        /\ \A s \in Sub \ mine : FoundInSubGroup(u, s) = {}
        /\ Lists(row) => ListedSubGroups(row) \subseteq mine
        /\ \A at \in Placements :
              /\ Lists(row) => ListedNodes(row, at) \subseteq InOne(mine, at)
              /\ \A path \in Member \union {ForGroup} :
                    Credentials(row, path, at) \subseteq InOne(mine, at)

\* docs/en/specs/group.md:79: "Group-level access supersedes subgroup access",
\* "sub_entity_ids is reset to empty and they are promoted to full-group
\* access": a primary or secondary member reaches every node they are shown.
PromotedReachAll ==
    \A u \in User, at \in Placements :
        mapping[u].access \in {"primary", "secondary"} =>
            ListedNodes(mapping[u], at) \subseteq Reached(mapping[u], at)
=============================================================================
