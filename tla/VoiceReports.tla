---------------------------- MODULE VoiceReports ----------------------------
(***************************************************************************)
(* What a voice assistant is told of a node it has discovered (the Marshal *)
(* of src/alexa, src/gva and src/smartthings, and the dispatch of          *)
(* rmneo/handlers/notification): states, connectivity and names when the   *)
(* reported shadow changes, and devices that come and go when the node     *)
(* changes groups.  A handler is one step here; Delivery has its parts.    *)
(***************************************************************************)
EXTENDS Naturals, Sequences

CONSTANTS
    Fixture,        \* devices of the node
    Title,          \* their names
    Abode, NoAbode, \* groups
    MaxNews,        \* bound: events of one behaviour
    ConnectBumps    \* a node that connects renews notify.version, as
                    \* cli/src/esp_morpheus/sims/device.py:229 does

ASSUME ReportsConstants ==
    /\ NoAbode \notin Abode
    /\ MaxNews \in Nat /\ ConnectBumps \in BOOLEAN

VARIABLES
    reported,   \* the node's reported shadow
    abode,      \* the group it is in
    belongs,    \* the groups the user is a member of
    voice,      \* the assistant the user has linked
    toldOf,     \* [Fixture -> what the assistant was told last]
    news,       \* invocations of the notifications handler, in order
    newsMade    \* how many there were

reportsVars == <<reported, abode, belongs, voice, toldOf, news, newsMade>>

FixtureState == [on : BOOLEAN, title : Title]
NotTold == [known |-> FALSE]
Told(f, of, online) ==
    [known |-> TRUE, on |-> of[f].on, title |-> of[f].title, online |-> online]

ReportsInit ==
    /\ \E t \in Title : reported =
          [online |-> TRUE, params |-> [f \in Fixture |-> [on |-> FALSE, title |-> t]]]
    /\ abode \in Abode
    /\ belongs \in SUBSET Abode
    /\ voice \in {"alexa", "gva", "smartthings"}
    /\ toldOf = [f \in Fixture |-> IF abode \in belongs
                                   THEN Told(f, reported.params, TRUE) ELSE NotTold]
    /\ news = <<>>
    /\ newsMade = 0

----------------------------------------------------------------------------
(* The events                                                              *)

\* The rule fires on a new notify.version and when `online` changes; the
\* delta is what of the new state differs from the old.
ShadowNews(old, new, bumped) ==
    [kind |-> "shadow", home |-> abode, bumped |-> bumped,
     flips |-> old.online # new.online,
     changed |-> {f \in Fixture : old.params[f] # new.params[f]},
     renames |-> \E f \in Fixture : old.params[f].title # new.params[f].title,
     state |-> new]

MembershipNews(action, h) == [kind |-> action, home |-> h]

Emits(events) ==
    /\ newsMade + Len(events) <= MaxNews
    /\ newsMade' = newsMade + Len(events)
    /\ news' = news \o events

\* A node that is in no group updates a shadow without notifications.
Writes(new, bumped) ==
    /\ reported' = new
    /\ IF abode = NoAbode THEN UNCHANGED <<news, newsMade>>
       ELSE Emits(<<ShadowNews(reported, new, bumped)>>)
    /\ UNCHANGED <<abode, belongs, voice, toldOf>>

ReportsParams(f, of) ==
    /\ reported.online /\ of # reported.params[f]
    /\ Writes([reported EXCEPT !.params[f] = of], TRUE)

GoesOnline ==
    /\ ~reported.online
    /\ Writes([reported EXCEPT !.online = TRUE], ConnectBumps)

\* WriteDisconnectShadows (NodePresence): `online` alone.
GoesOffline ==
    /\ reported.online
    /\ Writes([reported EXCEPT !.online = FALSE], FALSE)

\* The shadow copied for the new group has no former state: all of it is new.
\* Mutant: a node that moves is only told of to the new group.
CopiedNews(h) ==
    [kind |-> "shadow", home |-> h, bumped |-> TRUE, flips |-> TRUE,
     changed |-> Fixture, renames |-> TRUE, state |-> reported]
JoinNews(h) ==
    IF abode = NoAbode
    THEN <<CopiedNews(h), MembershipNews("added", h)>>
    ELSE <<CopiedNews(h), MembershipNews("added", h), MembershipNews("removed", abode)>>

JoinsAbode(h) ==
    /\ h # abode
    /\ abode' = h
    /\ Emits(JoinNews(h))
    /\ UNCHANGED <<reported, belongs, voice, toldOf>>

LeavesAbode ==
    /\ abode # NoAbode
    /\ abode' = NoAbode
    /\ Emits(<<MembershipNews("removed", abode)>>)
    /\ UNCHANGED <<reported, belongs, voice, toldOf>>

----------------------------------------------------------------------------
(* Marshal: the devices whose state is reported, and what is discovered    *)

\* Only who reports connectivity is told of an event that is no more.
Hears(e) == e.bumped \/ voice # "alexa"

AlexaReports(e) == e.changed
\* Mutant: connectivity is not looked at.
GvaReportsChanged(e) == e.changed
GvaReports(e) == IF e.flips THEN Fixture ELSE e.changed
\* Connectivity alone: a delta of `online` without any of params, where the
\* notify map and its version are too.
ConnectivityOnly(e) == e.flips /\ ~e.bumped /\ e.changed = {}
SmartThingsReports(e) == IF ConnectivityOnly(e) THEN Fixture ELSE e.changed

StatesIn(e) ==
    CASE voice = "alexa" -> AlexaReports(e)
      [] voice = "gva" -> GvaReports(e)
      [] voice = "smartthings" -> SmartThingsReports(e)

\* A report of a device the assistant does not know is ignored.
AfterReport(e) ==
    [f \in Fixture |->
        IF f \in StatesIn(e) /\ toldOf[f].known
        THEN [toldOf[f] EXCEPT !.on = IF voice = "smartthings" /\ ConnectivityOnly(e)
                                      THEN @ ELSE e.state.params[f].on,
                               !.online = e.state.online]
        ELSE toldOf[f]]

\* A device discovered gets the name the shadow has now; the state of one
\* that is new is asked for (ReportState, Query, stateRefresh).
Discovered(known) ==
    [f \in Fixture |-> IF known[f].known
                       THEN [known[f] EXCEPT !.title = reported.params[f].title]
                       ELSE Told(f, reported.params, reported.online)]
Dropped == [f \in Fixture |-> NotTold]

\* Google asks for a SYNC of all the user's groups, whatever the event was.
Synced(known) == IF abode \in belongs THEN Discovered(known) ELSE Dropped

AfterShadow(e) ==
    IF ~e.renames THEN AfterReport(e)
    ELSE IF voice = "gva" THEN Synced(AfterReport(e)) ELSE Discovered(AfterReport(e))

\* The device's ID is the same in every group.
AfterMembership(e) ==
    CASE voice = "gva" -> Synced(toldOf)
      [] voice # "gva" /\ e.kind = "added" -> Discovered(toldOf)
      [] voice # "gva" /\ e.kind = "removed" -> Dropped

\* Handler: the members of the event's group are told.  A shadow's group must
\* be the node's.
Dispatches ==
    /\ news # <<>>
    /\ LET e == Head(news) IN
       toldOf' = IF e.home \notin belongs THEN toldOf
                 ELSE IF e.kind # "shadow" THEN AfterMembership(e)
                 ELSE IF e.home = abode /\ Hears(e) THEN AfterShadow(e)
                 ELSE toldOf
    /\ news' = Tail(news)
    /\ UNCHANGED <<reported, abode, belongs, voice, newsMade>>

ReportsNext ==
    \/ \E f \in Fixture, of \in FixtureState : ReportsParams(f, of)
    \/ GoesOnline \/ GoesOffline
    \/ \E h \in Abode : JoinsAbode(h)
    \/ LeavesAbode
    \/ Dispatches

ReportsSpec == ReportsInit /\ [][ReportsNext]_reportsVars

----------------------------------------------------------------------------
\* The shadow, the events and what was told keep their types.
ReportsTypeOK ==
    /\ reported \in [online : BOOLEAN, params : [Fixture -> FixtureState]]
    /\ abode \in Abode \union {NoAbode} /\ belongs \subseteq Abode
    /\ newsMade \in 0 .. MaxNews /\ Len(news) <= newsMade
    /\ \A f \in Fixture : toldOf[f] = NotTold \/ toldOf[f] \in
          [known : {TRUE}, on : BOOLEAN, title : Title, online : BOOLEAN]

AllDispatched == news = <<>>

\* When every event has been handled, in order, each device the assistant
\* still has is in the state and under the name the node reported last,
\* wherever the node went meanwhile and whichever events were dropped because
\* it had moved; and Google, which is told of connectivity, has that right too.
\* It has no device of a node that is in none of the user's groups, though a
\* rename or a copied shadow may have announced them after the node left.
ToldAsReported ==
    AllDispatched => \A f \in Fixture : toldOf[f].known =>
        /\ abode \in belongs
        /\ toldOf[f].on = reported.params[f].on
        /\ toldOf[f].title = reported.params[f].title
        /\ voice = "gva" => toldOf[f].online = reported.online

\* node/shadow_node.go:174 "Notify Alexa/GVA: the node is now discoverable in
\* the new group", :99 "so they re-discover (added) or drop (removed) the
\* node": who is a member of the group a node is in has its devices.
MembersHaveDevices ==
    AllDispatched /\ abode \in belongs => \A f \in Fixture : toldOf[f].known
=============================================================================
