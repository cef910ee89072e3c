---------------------------- MODULE NodeServices ----------------------------
(***************************************************************************)
(* The versioned services of a node (src/rmneo/service/schedule, trigger)  *)
(* and what the node asks the cloud (src/rmneo/handlers/node/node_to_cloud):*)
(* clients replace a node's whole set, the API at once and the assistants' *)
(* tools (src/mcp/tools/schedules.go) by reading, changing and writing it; *)
(* the row's version is the second of the write; the set is pushed to the  *)
(* device, which compares versions when it connects.                       *)
(***************************************************************************)
EXTENDS Integers

CONSTANTS
    ScheduleId,         \* schedules; each is "absent", "on" or "off"
    Client,             \* calls of the API or of the assistants' tools
    LastSecond, MaxLost,    \* bounds: of the clock, of the messages lost
    WritesOverlap,      \* a call starts while another has not ended
    SameSecond          \* and in the second of the last write

ASSUME ServicesConstants ==
    /\ LastSecond \in Nat \ {0} /\ MaxLost \in Nat
    /\ WritesOverlap \in BOOLEAN /\ SameSecond \in BOOLEAN

VARIABLES
    second,     \* the clock
    nodeRow,    \* the node's row: the set, its version, the assistant's flag
    calls,      \* [Client -> where the call is]
    toDevice,   \* messages to the device; they do not keep their order
    toCloud,    \* what the device asked
    serving,    \* an invocation of node_to_cloud: the events and the row it read
    device,     \* what the device holds
    connected, lost

servicesVars ==
    <<second, nodeRow, calls, toDevice, toCloud, serving, device, connected, lost>>

Empty == [s \in ScheduleId |-> "absent"]
ScheduleSet == [ScheduleId -> {"absent", "on", "off"}]
Events == {"getSchedVer", "getSchedDetails", "getAlexaEn"}

ServicesInit ==
    /\ second = 1
    /\ nodeRow = [set |-> Empty, version |-> 0, voice |-> FALSE]
    /\ calls = [c \in Client |-> [at |-> "new"]]
    /\ toDevice = {} /\ toCloud = {}
    /\ serving = [at |-> "idle"]
    /\ device = [set |-> Empty, version |-> 0, voice |-> FALSE]
    /\ connected = TRUE /\ lost = 0

Ticks ==
    /\ second < LastSecond
    /\ second' = second + 1
    /\ UNCHANGED <<nodeRow, calls, toDevice, toCloud, serving, device, connected, lost>>

----------------------------------------------------------------------------
(* Clients.  A call may start as the instance's constants let it.          *)

MayStart(c) ==
    /\ calls[c].at = "new"
    /\ WritesOverlap \/ \A other \in Client : calls[other].at \in {"new", "done"}
    /\ SameSecond \/ second > nodeRow.version

Moves(c, to) == calls' = [calls EXCEPT ![c] = to]

\* UpdateServiceDataWithVersion, DeleteServiceDataWithVersion
Stored(set) == [nodeRow EXCEPT !.set = set, !.version = second]
Deleted == [nodeRow EXCEPT !.set = Empty, !.version = second]

\* The API replaces the set; a trigger set whose IDs repeat is refused.
PutsSet(c, set) ==
    /\ MayStart(c)
    /\ nodeRow' = Stored(set)
    /\ Moves(c, [at |-> "push"])
    /\ UNCHANGED <<second, toDevice, toCloud, serving, device, connected, lost>>

\* The API deletes it, and so does the reset of a node that left its group.
DeletesSet(c) ==
    /\ MayStart(c)
    /\ nodeRow' = Deleted
    /\ Moves(c, [at |-> "push"])
    /\ UNCHANGED <<second, toDevice, toCloud, serving, device, connected, lost>>

\* The assistant's tool reads the set, if the caller can reach the node.
AssistReads(c) ==
    /\ MayStart(c)
    /\ Moves(c, [at |-> "change", set |-> nodeRow.set])
    /\ UNCHANGED <<second, nodeRow, toDevice, toCloud, serving, device, connected, lost>>

\* One schedule is added (a new ID), edited, enabled, disabled or removed.
Operation(set) ==
    {[set EXCEPT ![s] = to] : s \in ScheduleId, to \in {"absent", "on", "off"}} \ {set}

\* It writes the whole set back, whatever was written since it read.
AssistWrites(c) ==
    /\ calls[c].at = "change"
    /\ SameSecond \/ second > nodeRow.version
    /\ \E set \in Operation(calls[c].set) : nodeRow' = Stored(set)
    /\ Moves(c, [at |-> "push"])
    /\ UNCHANGED <<second, toDevice, toCloud, serving, device, connected, lost>>

\* SendScheduleDetails reads the row for the set and again for the version.
PushReadsSet(c) ==
    /\ calls[c].at = "push"
    /\ Moves(c, [at |-> "pushAgain", set |-> nodeRow.set])
    /\ UNCHANGED <<second, nodeRow, toDevice, toCloud, serving, device, connected, lost>>

PushSends(c) ==
    /\ calls[c].at = "pushAgain"
    /\ toDevice' = toDevice \union
          {[event |-> "getSchedDetails", set |-> calls[c].set, version |-> nodeRow.version]}
    /\ Moves(c, [at |-> "done"])
    /\ UNCHANGED <<second, nodeRow, toCloud, serving, device, connected, lost>>

\* The read or the publish fails: the call fails with its set stored.
PushFails(c) ==
    /\ calls[c].at \in {"push", "pushAgain"}
    /\ Moves(c, [at |-> "done"])
    /\ UNCHANGED <<second, nodeRow, toDevice, toCloud, serving, device, connected, lost>>

\* A voice assistant discovers the node: the flag is stored, then sent.
VoiceDiscovers ==
    /\ ~ nodeRow.voice
    /\ nodeRow' = [nodeRow EXCEPT !.voice = TRUE]
    /\ toDevice' = toDevice \union {[event |-> "getAlexaEn", enabled |-> TRUE]}
    /\ UNCHANGED <<second, calls, toCloud, serving, device, connected, lost>>

----------------------------------------------------------------------------
(* The device and its questions                                            *)

\* On connecting it asks for the version and the flag.
Connects ==
    /\ ~ connected
    /\ connected' = TRUE
    /\ toCloud' = toCloud \union {"getSchedVer", "getAlexaEn"}
    /\ UNCHANGED <<second, nodeRow, calls, toDevice, serving, device, lost>>

\* What is sent to a device that is not connected is lost.
Disconnects ==
    /\ connected /\ lost < MaxLost
    /\ connected' = FALSE /\ lost' = lost + 1
    /\ toDevice' = {}
    /\ UNCHANGED <<second, nodeRow, calls, toCloud, serving, device>>

Loses(m) ==
    /\ m \in toDevice /\ ~ connected
    /\ toDevice' = toDevice \ {m}
    /\ UNCHANGED <<second, nodeRow, calls, toCloud, serving, device, connected, lost>>

\* It restarts, or connects again, with nothing on its way.
Restarts ==
    /\ connected /\ toDevice = {} /\ toCloud = {} /\ serving.at = "idle"
    /\ toCloud' = {"getSchedVer", "getAlexaEn"}
    /\ UNCHANGED <<second, nodeRow, calls, toDevice, serving, device, connected, lost>>

\* A set replaces the one it holds; another version makes it ask for the set.
DeviceReceives(m) ==
    /\ connected /\ m \in toDevice
    /\ toDevice' = toDevice \ {m}
    /\ \/ /\ m.event = "getSchedDetails"
          /\ device' = [device EXCEPT !.set = m.set, !.version = m.version]
          /\ UNCHANGED toCloud
       \/ /\ m.event = "getSchedVer"
          /\ toCloud' = IF m.version = device.version THEN toCloud
                        ELSE toCloud \union {"getSchedDetails"}
          /\ UNCHANGED device
       \/ /\ m.event = "getAlexaEn"
          /\ device' = [device EXCEPT !.voice = m.enabled]
          /\ UNCHANGED toCloud
    /\ UNCHANGED <<second, nodeRow, calls, serving, connected, lost>>

\* The row is read once for all the events of a message.  (Where it cannot
\* be read the message is delivered again.)
Serves ==
    /\ serving.at = "idle" /\ toCloud # {}
    /\ serving' = [at |-> "answer", events |-> toCloud, row |-> nodeRow]
    /\ toCloud' = {}
    /\ UNCHANGED <<second, nodeRow, calls, toDevice, device, connected, lost>>

\* Mutant: the version is that of another service, which has none.
VersionUnset(row) == [event |-> "getSchedVer", version |-> 0]
VersionAnswer(row) == [event |-> "getSchedVer", version |-> row.version]
DetailsAnswer(row) ==
    [event |-> "getSchedDetails", set |-> row.set, version |-> row.version]
VoiceAnswer(row) == [event |-> "getAlexaEn", enabled |-> row.voice]

\* Each event appends its part; the set of triggers has the same two.
Answer(event, row) ==
    CASE event = "getSchedVer" -> VersionAnswer(row)
      [] event = "getSchedDetails" -> DetailsAnswer(row)
      [] event = "getAlexaEn" -> VoiceAnswer(row)

Answers ==
    /\ serving.at = "answer"
    /\ toDevice' = toDevice \union {Answer(event, serving.row) : event \in serving.events}
    /\ serving' = [at |-> "idle"]
    /\ UNCHANGED <<second, nodeRow, calls, toCloud, device, connected, lost>>

FromCloud == Serves \/ Answers \/ \E m \in toDevice : DeviceReceives(m) \/ Loses(m)

ServicesNext ==
    \/ Ticks \/ VoiceDiscovers \/ Connects \/ Disconnects \/ Restarts \/ FromCloud
    \/ \E c \in Client :
          \/ \E set \in ScheduleSet : PutsSet(c, set)
          \/ DeletesSet(c) \/ AssistReads(c) \/ AssistWrites(c)
          \/ PushReadsSet(c) \/ PushSends(c) \/ PushFails(c)

\* The device reconnects, and does so again and again (the firmware asks on
\* every connection); the cloud answers and the broker delivers.
ServicesFairness ==
    WF_servicesVars(Connects) /\ WF_servicesVars(Restarts) /\ WF_servicesVars(FromCloud)
ServicesSpec == ServicesInit /\ [][ServicesNext]_servicesVars /\ ServicesFairness

----------------------------------------------------------------------------
Message ==
    [event : {"getSchedDetails"}, set : ScheduleSet, version : 0 .. LastSecond]
    \union [event : {"getSchedVer"}, version : 0 .. LastSecond]
    \union [event : {"getAlexaEn"}, enabled : BOOLEAN]

\* The row, the device and the messages keep their types.
ServicesTypeOK ==
    /\ second \in 1 .. LastSecond /\ lost \in 0 .. MaxLost /\ connected \in BOOLEAN
    /\ nodeRow \in [set : ScheduleSet, version : 0 .. LastSecond, voice : BOOLEAN]
    /\ device \in [set : ScheduleSet, version : 0 .. LastSecond, voice : BOOLEAN]
    /\ toDevice \subseteq Message /\ toCloud \subseteq Events
    /\ \A c \in Client : calls[c].at \in {"new", "change", "push", "pushAgain", "done"}
    /\ serving.at \in {"idle", "answer"}

\* docs/en/specs/schedules.md:103: the version lets a device detect whether
\* the set it stored is stale: one that holds the row's version holds its set.
VersionTells == device.version = nodeRow.version => device.set = nodeRow.set

\* docs/en/specs/schedules.md:254: a device that missed pushes, or got them
\* out of order, ends up with the set and the flag that are stored.
DeviceCatchesUp ==
    <>[](device.set = nodeRow.set /\ device.voice = nodeRow.voice)
=============================================================================
