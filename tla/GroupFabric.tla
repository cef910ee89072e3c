---------------------------- MODULE GroupFabric ----------------------------
(***************************************************************************)
(* A group that is a Matter fabric (rmneo/group/matter_group.go,           *)
(* matter_utils.go, capability.go; rmneo/db/group_db).  One JSON column of *)
(* the group's row holds the fabric: its root CA and two CATs, the role    *)
(* tags a member's certificate (NOC) carries.  When a member leaves, the   *)
(* version of its role's CAT is incremented.  GroupSharing has the         *)
(* invitations and the mapping rows in detail.                             *)
(***************************************************************************)
EXTENDS Integers, FiniteSets

CONSTANTS
    FabricUser, NoFabricUser,
    ExitCall,               \* invocations that remove a member
    NocCall,                \* invocations that issue a NOC
    EnableCall,             \* invocations that add the capability to a group
    TopVersion,             \* the largest version of four hexadecimal digits
    MaxExits,               \* bound: removals in a behaviour
    RolesMayChange,         \* invitations are accepted by members, or amid a removal
    FabricCallsMayFail

ASSUME FabricConstants ==
    /\ NoFabricUser \notin FabricUser
    /\ TopVersion \in Nat \ {0}
    /\ MaxExits \in Nat

VARIABLES
    fabric,         \* the group row's cap_matter column
    seat,           \* [FabricUser -> its access to the group]
    lastSeat,       \* history: the access whose removal ran its hook
    nocs,           \* history: the NOCs issued
    exits,          \* history: removals begun
    exitCall, nocCall, enableCall

fabricVars == <<fabric, seat, lastSeat, nocs, exits, exitCall, nocCall, enableCall>>

CatOf(access) == IF access = "primary" THEN "admin" ELSE "operate"
Seats == {"none", "primary", "secondary", "subentity"}
InWholeGroup(u) == seat[u] \in {"primary", "secondary"}

NoFabric == [made |-> "none", admin |-> 0, operate |-> 0]
\* A fabric: its root CA, IPK and tags are new (made), its versions are 0001.
NewFabric(maker) == [made |-> maker, admin |-> 1, operate |-> 1]

\* A version past FFFF takes a fifth digit, and nine digits are refused.
CanIncrement(version) == version <= TopVersion
Incremented(f, cat) == [f EXCEPT ![cat] = @ + 1]

IdleExit == [at |-> "idle", target |-> NoFabricUser, was |-> "none", sharer |-> FALSE, saw |-> NoFabric]
IdleNoc == [at |-> "idle", user |-> NoFabricUser, saw |-> NoFabric]

\* The creator has the group, with or without the capability.
FabricInit ==
    /\ fabric \in {NoFabric, NewFabric("creation")}
    /\ \E owner \in FabricUser :
          seat = [u \in FabricUser |-> IF u = owner THEN "primary" ELSE "none"]
    /\ lastSeat = [u \in FabricUser |-> "none"]
    /\ nocs = {}
    /\ exits = 0
    /\ exitCall = [c \in ExitCall |-> IdleExit]
    /\ nocCall = [c \in NocCall |-> IdleNoc]
    /\ enableCall = [c \in EnableCall |-> "idle"]

\* Accepting an invitation of a primary member; the join hook does nothing.
Join(u, access) ==
    /\ \E p \in FabricUser \ {u} : seat[p] = "primary"
    /\ seat[u] # access
    /\ InWholeGroup(u) => access # "subentity"
    /\ RolesMayChange \/ (seat[u] = "none" /\ \A c \in ExitCall : exitCall[c].target # u)
    /\ seat' = [seat EXCEPT ![u] = access]
    /\ UNCHANGED <<fabric, lastSeat, nocs, exits, exitCall, nocCall, enableCall>>

\* UnshareGroup: the caller's access, then the target's row, whose read may
\* fail: its role is then unknown and nothing will be incremented.
BeginExit(c, u, t) ==
    /\ exitCall[c].at = "idle"
    /\ exits < MaxExits
    /\ InWholeGroup(u)
    /\ \E was \in {seat[t]} \union IF FabricCallsMayFail THEN {"none"} ELSE {} :
          exitCall' = [exitCall EXCEPT ![c] =
              [at |-> "remove", target |-> t, was |-> was,
               sharer |-> u = t \/ seat[u] = "primary", saw |-> NoFabric]]
    /\ exits' = exits + 1
    /\ UNCHANGED <<fabric, seat, lastSeat, nocs, nocCall, enableCall>>

LastPrimary(t) == seat[t] = "primary" /\ \A u \in FabricUser \ {t} : seat[u] # "primary"

RemoveMember(c) ==
    LET t == exitCall[c].target
    IN  /\ exitCall[c].at = "remove"
        /\ exitCall[c].sharer
        /\ ~ LastPrimary(t)
        /\ seat' = [seat EXCEPT ![t] = "none"]
        /\ lastSeat' = [lastSeat EXCEPT ![t] =
              IF seat[t] = "none" THEN @
              ELSE IF exitCall[c].was = "none" THEN "none" ELSE seat[t]]
        /\ exitCall' = [exitCall EXCEPT ![c].at =
              IF exitCall[c].was = "none" THEN "done" ELSE "hook"]
        /\ UNCHANGED <<fabric, nocs, exits, nocCall, enableCall>>

RefuseExit(c) ==
    /\ exitCall[c].at = "remove"
    /\ LastPrimary(exitCall[c].target) \/ ~ exitCall[c].sharer
    /\ exitCall' = [exitCall EXCEPT ![c] = IdleExit]
    /\ UNCHANGED <<fabric, seat, lastSeat, nocs, exits, nocCall, enableCall>>

\* The exit hook, once the removal has committed: it reads the whole column...
ReadFabric(c) ==
    /\ exitCall[c].at = "hook"
    /\ exitCall' = [exitCall EXCEPT ![c].saw = fabric,
                                    ![c].at = IF fabric = NoFabric THEN "done" ELSE "rotate"]
    /\ UNCHANGED <<fabric, seat, lastSeat, nocs, exits, nocCall, enableCall>>

\* ... and writes the whole column back.
Rotate(c) ==
    LET cat == CatOf(exitCall[c].was)
    IN  /\ exitCall[c].at = "rotate"
        /\ CanIncrement(exitCall[c].saw[cat])
        /\ fabric' = Incremented(exitCall[c].saw, cat)
        /\ exitCall' = [exitCall EXCEPT ![c].at = "done"]
        /\ UNCHANGED <<seat, lastSeat, nocs, exits, nocCall, enableCall>>

\* A failing hook is logged: the removal succeeds all the same.
HookFails(c) ==
    /\ exitCall[c].at \in {"hook", "rotate"}
    /\ \/ FabricCallsMayFail
       \/ /\ exitCall[c].at = "rotate"
          /\ ~ CanIncrement(exitCall[c].saw[CatOf(exitCall[c].was)])
    /\ exitCall' = [exitCall EXCEPT ![c].at = "done"]
    /\ lastSeat' = [lastSeat EXCEPT ![exitCall[c].target] = "none"]
    /\ UNCHANGED <<fabric, seat, nocs, exits, nocCall, enableCall>>

ExitReturns(c) ==
    /\ exitCall[c].at = "done"
    /\ exitCall' = [exitCall EXCEPT ![c] = IdleExit]
    /\ UNCHANGED <<fabric, seat, lastSeat, nocs, exits, nocCall, enableCall>>

\* handleMatterNOC: the group is loaded under the caller's access...
BeginNoc(c, u) ==
    /\ nocCall[c].at = "idle"
    /\ InWholeGroup(u)
    /\ nocCall' = [nocCall EXCEPT ![c] = [at |-> "load", user |-> u, saw |-> NoFabric]]
    /\ UNCHANGED <<fabric, seat, lastSeat, nocs, exits, exitCall, enableCall>>

LoadFabric(c) ==
    /\ nocCall[c].at = "load"
    /\ nocCall' = [nocCall EXCEPT ![c] =
          IF fabric = NoFabric THEN IdleNoc ELSE [@ EXCEPT !.at = "sign", !.saw = fabric]]
    /\ UNCHANGED <<fabric, seat, lastSeat, nocs, exits, exitCall, enableCall>>

Noc(u, access, f) == [user |-> u, cat |-> CatOf(access), version |-> f[CatOf(access)]]
RefusedNever(u) == FALSE
Refused(u) == ~ InWholeGroup(u)

\* ... and the access is read again, for the role, before the NOC is signed.
SignNoc(c) ==
    LET u == nocCall[c].user
    IN  /\ nocCall[c].at = "sign"
        /\ nocs' = IF Refused(u) THEN nocs ELSE nocs \union {Noc(u, seat[u], nocCall[c].saw)}
        /\ nocCall' = [nocCall EXCEPT ![c] = IdleNoc]
        /\ UNCHANGED <<fabric, seat, lastSeat, exits, exitCall, enableCall>>

\* AddCapabilitiesToGroup: a new fabric is made, then stored unless there is one.
BeginEnable(c, u) ==
    /\ enableCall[c] = "idle"
    /\ seat[u] = "primary"
    /\ enableCall' = [enableCall EXCEPT ![c] = "made"]
    /\ UNCHANGED <<fabric, seat, lastSeat, nocs, exits, exitCall, nocCall>>

StoreFabric(c) ==
    /\ enableCall[c] = "made"
    /\ fabric' = IF fabric = NoFabric THEN NewFabric(c) ELSE fabric
    /\ enableCall' = [enableCall EXCEPT ![c] = "stored"]
    /\ UNCHANGED <<seat, lastSeat, nocs, exits, exitCall, nocCall>>

FabricNext ==
    \/ \E u \in FabricUser, access \in Seats \ {"none"} : Join(u, access)
    \/ \E c \in ExitCall, u, t \in FabricUser : BeginExit(c, u, t)
    \/ \E c \in ExitCall : \/ RemoveMember(c) \/ RefuseExit(c) \/ ReadFabric(c)
                           \/ Rotate(c) \/ HookFails(c) \/ ExitReturns(c)
    \/ \E c \in NocCall, u \in FabricUser : BeginNoc(c, u)
    \/ \E c \in NocCall : LoadFabric(c) \/ SignNoc(c)
    \/ \E c \in EnableCall, u \in FabricUser : BeginEnable(c, u)
    \/ \E c \in EnableCall : StoreFabric(c)

FabricSpec == FabricInit /\ [][FabricNext]_fabricVars

----------------------------------------------------------------------------
Fabric == [made : {"none", "creation"} \union EnableCall,
           admin : 0 .. TopVersion + 1, operate : 0 .. TopVersion + 1]

\* The column, the members, the NOCs and the calls stay of their types.
FabricTypeOK ==
    /\ fabric \in Fabric
    /\ seat \in [FabricUser -> Seats]
    /\ lastSeat \in [FabricUser -> Seats]
    /\ nocs \subseteq [user : FabricUser, cat : {"admin", "operate"}, version : 1 .. TopVersion + 1]
    /\ exits \in 0 .. MaxExits
    /\ exitCall \in [ExitCall -> [at : {"idle", "remove", "hook", "rotate", "done"},
                                  target : FabricUser \union {NoFabricUser},
                                  was : Seats, sharer : BOOLEAN, saw : Fabric]]
    /\ nocCall \in [NocCall -> [at : {"idle", "load", "sign"},
                                user : FabricUser \union {NoFabricUser}, saw : Fabric]]
    /\ enableCall \in [EnableCall -> {"idle", "made", "stored"}]

\* "Every NOC already issued under the old CAT is superseded": once a member
\* is out and the removal has returned, its hook having run, no NOC it was
\* given under its role, even one being issued meanwhile, carries the version
\* the role has now.
RemovedIsSuperseded ==
    \A u \in FabricUser :
        /\ seat[u] = "none" /\ lastSeat[u] # "none"
        /\ \A c \in ExitCall : exitCall[c].target # u
        => \A n \in nocs :
              n.user = u /\ n.cat = CatOf(lastSeat[u]) => n.version < fabric[n.cat]

\* A fabric is never replaced by another (devices and NOCs trust its root CA),
\* though two callers may enable the capability at once, or while it rotates.
FabricIsKept == [][fabric # NoFabric => fabric'.made = fabric.made]_fabricVars
============================================================================
