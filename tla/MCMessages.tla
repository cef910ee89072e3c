----------------------------- MODULE MCMessages ------------------------------
(***************************************************************************)
(* What nodes, users and assistants tell each other, for TLC: parameters   *)
(* asked for and reported, commands by voice, readings and what is read    *)
(* back of them, automations, and the accesses to tables they share.  As   *)
(* in MCDevices, a behaviour is one of one component.                      *)
(***************************************************************************)
EXTENDS Delivery, VoiceControl, VoiceReports, ParamChecks, TimeSeries,
        SeriesQuery, TableAccess, Automations

VARIABLE part

messagesVars == <<part, deliveryVars, voiceVars, reportsVars, checksVars, tsVars,
                  queryVars, tableVars, autoVars>>

\* Where a component has several initial states, one stands for them while it
\* is not the part explored; TLC meets that state before the others.
OneOfEach ==
    /\ part # "delivery" => notify = "push" /\ place = CHOOSE g \in Room : TRUE
    /\ part # "voice" =>
          /\ lampHouse = CHOOSE g \in House : TRUE
          /\ mayUse = {} /\ lampParams = AllParams /\ skill = "alexa"
    /\ part # "reports" =>
          /\ abode = CHOOSE g \in Abode : TRUE
          /\ belongs = {} /\ voice = "alexa"
          /\ \E t \in {CHOOSE t \in Title : TRUE} : reported =
                [online |-> TRUE, params |-> [f \in Fixture |-> [on |-> FALSE, title |-> t]]]
    /\ part # "checks" =>
          /\ nodeConfig = [n \in TargetNode |-> [judged |-> FALSE]]
          /\ asked = [p |-> Unasked, q |-> [form |-> "bool", of |-> "true"]]
    /\ part # "series" => kindOf = [s \in Series |-> "gauge"]
    /\ part # "query" => seriesRows = {} /\ what = CHOOSE w \in Queried : TRUE
    /\ part # "table" =>
          /\ task = "delete" /\ rows = [k \in RowKey |-> Absent]
          /\ items = <<>> /\ walk = FirstPage(FALSE, 0)

MessagesInit ==
    /\ part \in {"delivery", "voice", "reports", "checks", "series", "query",
                 "table", "automation"}
    /\ OneOfEach
    /\ DeliveryInit /\ VoiceInit /\ ReportsInit /\ ChecksInit
    /\ part # "voice" => lamp.mode = "hsv"
    /\ SeriesInit /\ QueryInit /\ TableInit /\ AutoInit

MessagesNext ==
    \/ /\ part = "delivery" /\ DeliveryNext
       /\ UNCHANGED <<part, voiceVars, reportsVars, checksVars, tsVars, queryVars,
                      tableVars, autoVars>>
    \/ /\ part = "voice" /\ VoiceNext
       /\ UNCHANGED <<part, deliveryVars, reportsVars, checksVars, tsVars,
                      queryVars, tableVars, autoVars>>
    \/ /\ part = "reports" /\ ReportsNext
       /\ UNCHANGED <<part, deliveryVars, voiceVars, checksVars, tsVars, queryVars,
                      tableVars, autoVars>>
    \/ /\ part = "checks" /\ ChecksNext
       /\ UNCHANGED <<part, deliveryVars, voiceVars, reportsVars, tsVars, queryVars,
                      tableVars, autoVars>>
    \/ /\ part = "series" /\ SeriesNext
       /\ UNCHANGED <<part, deliveryVars, voiceVars, reportsVars, checksVars,
                      queryVars, tableVars, autoVars>>
    \/ /\ part = "query" /\ QueryNext
       /\ UNCHANGED <<part, deliveryVars, voiceVars, reportsVars, checksVars,
                      tsVars, tableVars, autoVars>>
    \/ /\ part = "table" /\ TableNext
       /\ UNCHANGED <<part, deliveryVars, voiceVars, reportsVars, checksVars,
                      tsVars, queryVars, autoVars>>
    \/ /\ part = "automation" /\ AutoNext
       /\ UNCHANGED <<part, deliveryVars, voiceVars, reportsVars, checksVars,
                      tsVars, queryVars, tableVars>>

MessagesSpec == MessagesInit /\ [][MessagesNext]_messagesVars

MessagesTypeOK ==
    /\ DeliveryTypeOK /\ VoiceTypeOK /\ ReportsTypeOK /\ ChecksTypeOK
    /\ SeriesTypeOK /\ QueryTypeOK /\ TableTypeOK /\ AutoTypeOK
=============================================================================
