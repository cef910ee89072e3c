---------------------------- MODULE Automations ----------------------------
(***************************************************************************)
(* Automations of a group (src/rmneo/service/automation, its table and the *)
(* notification service that drives it).  A client writes conditions on    *)
(* triggers of nodes, and target nodes; a node's report is merged into the *)
(* state kept with the automation, the conditions are evaluated and the    *)
(* targets told; nodes that leave the group are taken out of it.           *)
(***************************************************************************)
EXTENDS Integers, Sequences, FiniteSets

CONSTANTS
    AutoNode,           \* nodes; each has one trigger, named after it
    Engine,             \* invocations of the notification handler
    MaxPuts, MaxReports, MaxLeaves,     \* bounds
    ChecksHold          \* no node leaves between a write's check and the write

ASSUME AutomationConstants ==
    /\ MaxPuts \in Nat /\ MaxReports \in Nat /\ MaxLeaves \in Nat
    /\ ChecksHold \in BOOLEAN

VARIABLES
    members,    \* the nodes of the group
    auto,       \* the row: its payload and its state, or none
    reports,    \* notifications on their way: sender, trigger, value
    engine,     \* [Engine -> an invocation and the row it read]
    putting,    \* a client's write, checked and not yet done
    resets,     \* node-data-reset events, asynchronous
    cleaning,   \* the handler of one: its nodes and the row it read
    acted,      \* history: what this step executed, and on what
    everTrue,   \* history: nodes that reported their trigger true
    puts, sent, left

autoVars == <<members, auto, reports, engine, putting, resets, cleaning, acted,
              everTrue, puts, sent, left>>
counters == <<puts, sent, left>>

NoRow == [exists |-> FALSE]
NoAction == [happened |-> FALSE]
NothingDone == acted' = NoAction
Conditions == {c \in [and : SUBSET AutoNode, or : SUBSET AutoNode] :
                  c.and \intersect c.or = {} /\ c.and \union c.or # {}}
Named(c) == c.and \union c.or
Payload == [conditions : Conditions, targets : (SUBSET AutoNode) \ {{}}, enabled : BOOLEAN]

AutoInit ==
    /\ members = AutoNode
    /\ auto = NoRow
    /\ reports = {} /\ resets = {}
    /\ engine = [i \in Engine |-> [at |-> "idle"]]
    /\ putting = [at |-> "idle"] /\ cleaning = [at |-> "idle"]
    /\ acted = NoAction /\ everTrue = {}
    /\ puts = 0 /\ sent = 0 /\ left = 0

----------------------------------------------------------------------------
(* Clients *)

\* CreateAutomation: the whole row, its state seeded from the conditions.
Seeded(payload) ==
    [exists |-> TRUE, payload |-> payload,
     state |-> [conditions |-> payload.conditions,
                true |-> {}]]

\* validateActionTargets, validateConditionNodes
ChecksPut(payload) ==
    /\ putting.at = "idle" /\ puts < MaxPuts
    /\ payload.targets \union Named(payload.conditions) \subseteq members
    /\ puts' = puts + 1
    /\ putting' = [at |-> "checked", payload |-> payload]
    /\ NothingDone
    /\ UNCHANGED <<members, auto, reports, engine, resets, cleaning, everTrue, sent, left>>

Puts ==
    /\ putting.at = "checked"
    /\ auto' = Seeded(putting.payload)
    /\ putting' = [at |-> "idle"]
    /\ NothingDone
    /\ UNCHANGED <<members, reports, engine, resets, cleaning, everTrue, counters>>

Deletes ==
    /\ auto.exists
    /\ auto' = NoRow
    /\ NothingDone
    /\ UNCHANGED <<members, reports, engine, putting, resets, cleaning, everTrue, counters>>

----------------------------------------------------------------------------
(* A node reports a trigger, its own or another's; reports do not keep     *)
(* their order.                                                            *)

Triggers(n, trigger, value) ==
    /\ sent < MaxReports
    /\ n # trigger => value     \* (an alien FALSE says no more)
    /\ sent' = sent + 1
    /\ reports' = reports \union {[from |-> n, id |-> trigger, value |-> value]}
    /\ everTrue' = IF n = trigger /\ value THEN everTrue \union {n} ELSE everTrue
    /\ NothingDone
    /\ UNCHANGED <<members, auto, engine, putting, resets, cleaning, puts, left>>

\* The node named in the trigger's ID is the sender.
Believed(report) == report.id = report.from

EngineReads(i, report) ==
    /\ engine[i].at = "idle"
    /\ report \in reports
    /\ reports' = reports \ {report}
    /\ engine' = [engine EXCEPT ![i] =
          IF Believed(report) /\ auto.exists
          THEN [at |-> "merge", row |-> auto, report |-> report] ELSE @]
    /\ NothingDone
    /\ UNCHANGED <<members, auto, putting, resets, cleaning, everTrue, counters>>

Merged(state, report) ==
    [state EXCEPT !.true = IF report.value THEN @ \union {report.id} ELSE @ \ {report.id}]

\* An empty "and" holds, an empty "or" does not; the two are alternatives.
\* (A list that is absent is not evaluated: no trigger is named in it.)
EvaluateConditions(c, true) ==
    \/ c.and # {} /\ c.and \subseteq true
    \/ c.or \intersect true # {}

\* A target outside the group is skipped.
Reachable(targets) == targets \intersect members

\* The state it computed replaces the row's, if there is a row; the row it
\* read says whether it is enabled and what to do.
EngineMerges(i) ==
    LET e == engine[i]
        state == Merged(e.row.state, e.report)
        fires == e.row.payload.enabled /\ EvaluateConditions(state.conditions, state.true)
    IN  /\ e.at = "merge"
        /\ IF auto.exists
           THEN /\ auto' = [auto EXCEPT !.state = state]
                /\ acted' = IF fires
                            THEN [happened |-> TRUE, conditions |-> state.conditions,
                                  targets |-> Reachable(e.row.payload.targets), true |-> state.true]
                            ELSE NoAction
           ELSE UNCHANGED auto /\ acted' = NoAction
        /\ engine' = [engine EXCEPT ![i] = [at |-> "idle"]]
        /\ UNCHANGED <<members, reports, putting, resets, cleaning, everTrue, counters>>

----------------------------------------------------------------------------
(* Nodes leave: their data is reset by an event, once they are out.        *)

Leaves(n) ==
    /\ left < MaxLeaves /\ n \in members
    /\ ChecksHold => putting.at = "idle"
    /\ left' = left + 1
    /\ members' = members \ {n}
    /\ resets' = resets \union {n}
    /\ NothingDone
    /\ UNCHANGED <<auto, reports, engine, putting, cleaning, everTrue, puts, sent>>

CleanReads(n) ==
    /\ cleaning.at = "idle" /\ n \in resets
    /\ resets' = resets \ {n}
    /\ cleaning' = [at |-> "clean", node |-> n, row |-> auto]
    /\ NothingDone
    /\ UNCHANGED <<members, auto, reports, engine, putting, everTrue, counters>>

\* Mutant: only the targets are looked at.
CleanedTargetsOnly(row, n) == Seeded([row.payload EXCEPT !.targets = @ \ {n}])
\* RemoveNodes: a condition that names the node, or no target left, deletes
\* the automation; otherwise it is written again without the node.
Cleaned(row, n) ==
    LET targets == row.payload.targets \ {n}
    IN  IF n \in Named(row.payload.conditions) \/ targets = {}
        THEN NoRow ELSE Seeded([row.payload EXCEPT !.targets = targets])

\* What it read is written back, whatever was written since.
CleanWrites ==
    /\ cleaning.at = "clean"
    /\ LET row == cleaning.row  n == cleaning.node
       IN  IF row.exists /\ n \in row.payload.targets \union Named(row.payload.conditions)
           THEN auto' = Cleaned(row, n)
           ELSE UNCHANGED auto
    /\ cleaning' = [at |-> "idle"]
    /\ NothingDone
    /\ UNCHANGED <<members, reports, engine, putting, resets, everTrue, counters>>

AutoNext ==
    \/ \E payload \in Payload : ChecksPut(payload)
    \/ Puts \/ Deletes
    \/ \E n, trigger \in AutoNode, value \in BOOLEAN : Triggers(n, trigger, value)
    \/ \E i \in Engine : EngineMerges(i) \/ \E report \in reports : EngineReads(i, report)
    \/ \E n \in AutoNode : Leaves(n) \/ CleanReads(n)
    \/ CleanWrites

AutoSpec == AutoInit /\ [][AutoNext]_autoVars

----------------------------------------------------------------------------
Row == {NoRow} \union [exists : {TRUE}, payload : Payload,
                       state : [conditions : Conditions, true : SUBSET AutoNode]]

\* The row and the invocations keep their types.
AutoTypeOK ==
    /\ members \subseteq AutoNode /\ resets \subseteq AutoNode /\ everTrue \subseteq AutoNode
    /\ auto \in Row
    /\ \A i \in Engine : engine[i].at = "merge" => engine[i].row \in Row
    /\ cleaning.at = "clean" => cleaning.row \in Row
    /\ reports \subseteq [from : AutoNode, id : AutoNode, value : BOOLEAN]
    /\ puts \in 0 .. MaxPuts /\ sent \in 0 .. MaxReports /\ left \in 0 .. MaxLeaves

\* An automation acts only when its conditions hold of triggers that their own
\* nodes reported true, whatever rows were written while an invocation held
\* the one it read.
ActsOnOwnReports ==
    acted.happened => /\ EvaluateConditions(acted.conditions, acted.true)
                      /\ acted.true \subseteq everTrue

\* Once the data of the nodes that left is reset, no automation names one
\* (docs/en/specs/automations.md:58), though clients and reports wrote the row
\* meanwhile; for a write whose check is not overtaken by the node leaving.
DepartedAreForgotten ==
    resets = {} /\ cleaning.at = "idle" /\ putting.at = "idle" /\ auto.exists
    => auto.payload.targets \union Named(auto.payload.conditions) \subseteq members

=============================================================================
