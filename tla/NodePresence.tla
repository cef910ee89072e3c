---------------------------- MODULE NodePresence ----------------------------
(***************************************************************************)
(* Who is shown online: the presence of a bridge, or of a node without     *)
(* children (rmneo/handlers/node/node_conn, rmneo/db/nodes_online_db,      *)
(* bridge/hooks).  The broker's events about a connection, with its        *)
(* version, are handled later and by themselves: one records the session,  *)
(* another ends it, and a connection that ended takes the node, and the    *)
(* children it speaks for, offline if it is the one on record.             *)
(***************************************************************************)
EXTENDS Integers

CONSTANTS
    Kid,                \* children a bridge may have; none for other nodes
    EventsInOrder,      \* is a connection on record before it ends?
    MaxVersion          \* bound: connections of the node

ASSUME PresenceConstants == MaxVersion \in Nat /\ "node" \notin Kid

VARIABLES
    kids,               \* rows of bridge_children with this parent
    link,               \* the node's connection: version, up or down
    session,            \* version of the nodes_online row
    ended,              \* versions whose disconnected event is under way
    checked,            \* events found current, whose shadows are to be written
    online              \* who is shown online: "node" and children

presenceVars == <<kids, link, session, ended, checked, online>>

PresenceInit ==
    /\ kids = {}
    /\ link = [version |-> 0, up |-> FALSE]
    /\ session = 0
    /\ ended = {}
    /\ checked = {}
    /\ online = {}

\* BridgeChildren says how; a child asks to be online when it is made.
KidAdded(c) ==
    /\ link.up
    /\ c \notin kids
    /\ kids' = kids \union {c}
    /\ online' = online \union {c}
    /\ UNCHANGED <<link, session, ended, checked>>

KidRemoved(c) ==
    /\ c \in kids
    /\ kids' = kids \ {c}
    /\ online' = online \ {c}
    /\ UNCHANGED <<link, session, ended, checked>>

\* The broker accepts a connection; its firmware reports online=true, for
\* the bridge and, over its own network, for children.
Connect ==
    /\ ~link.up
    /\ link.version < MaxVersion
    /\ link' = [version |-> link.version + 1, up |-> TRUE]
    /\ online' = online \union {"node"} \union kids
    /\ UNCHANGED <<session, ended, checked, kids>>

\* AddNodeSession and the rule that writes the table: an unconditional put.
RecordSession ==
    /\ session # link.version
    /\ session' = link.version
    /\ UNCHANGED <<link, ended, checked, online, kids>>

Disconnect ==
    /\ link.up
    /\ EventsInOrder => session = link.version
    /\ link' = [link EXCEPT !.up = FALSE]
    /\ ended' = ended \union {link.version}
    /\ UNCHANGED <<session, checked, online, kids>>

SessionMatches(version) == version = session

\* handlePresenceEvent: an event of another session is dropped.
HandleDisconnected(v) ==
    /\ v \in ended
    /\ ended' = ended \ {v}
    /\ checked' = IF SessionMatches(v) THEN checked \union {v} ELSE checked
    /\ UNCHANGED <<link, session, online, kids>>

\* Mutant: the children are not told.
WriteNodeShadow(v) ==
    /\ v \in checked
    /\ checked' = checked \ {v}
    /\ online' = online \ {"node"}
    /\ UNCHANGED <<link, session, ended, kids>>

\* The bridge's shadows, then OnBridgeDisconnect: those of every child.
WriteDisconnectShadows(v) ==
    /\ v \in checked
    /\ checked' = checked \ {v}
    /\ online' = online \ ({"node"} \union kids)
    /\ UNCHANGED <<link, session, ended, kids>>

---------------------------------------------------------------------------

PresenceStep ==
    \E v \in 1 .. MaxVersion : HandleDisconnected(v) \/ WriteDisconnectShadows(v)

PresenceNext ==
    \/ Connect \/ RecordSession \/ Disconnect \/ PresenceStep
    \/ \E c \in Kid : KidAdded(c) \/ KidRemoved(c)

\* The broker's events are delivered and their handlers run.
PresenceFairness == WF_presenceVars(RecordSession) /\ WF_presenceVars(PresenceStep)

PresenceSpec == PresenceInit /\ [][PresenceNext]_presenceVars /\ PresenceFairness

---------------------------------------------------------------------------
(* Properties *)

PresenceTypeOK ==
    /\ kids \subseteq Kid
    /\ link \in [version : 0 .. MaxVersion, up : BOOLEAN]
    /\ session \in 0 .. MaxVersion
    /\ ended \subseteq 1 .. MaxVersion
    /\ checked \subseteq 1 .. MaxVersion
    /\ online \subseteq {"node"} \union Kid

\* A node that stays away is shown offline in the end, and so are the
\* children it has, provided its last connection was on record before it ended.
GoneIsOffline ==
    (link.version = MaxVersion /\ ~link.up) ~> online = {}

\* Once the connection a node is on is on record, no event of an earlier one
\* is found current any more, late and out of order as they may come.
RecordedIsSafe ==
    [][link.up /\ session = link.version => checked' \subseteq checked]_presenceVars

===========================================================================
