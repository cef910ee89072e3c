------------------------------ MODULE Delivery ------------------------------
(***************************************************************************)
(* Notifications (rmneo/handlers/notification, rmneo/notification): the    *)
(* shadow of a node changes, a rule invokes the handler, and each service  *)
(* the node names tells the users of the node's group.  Two kinds of       *)
(* service keep a row per user: a linked service has tokens, refreshed     *)
(* when they are old (integrationauth), and a phone has an SNS endpoint    *)
(* (push, user_client).                                                    *)
(***************************************************************************)
EXTENDS Integers, FiniteSets

CONSTANTS
    Reader,             \* users
    Linked, Phoned,     \* those who link a service, those who have a phone
    Room, NoRoom,       \* groups
    Report,             \* notifications
    Sender,             \* invocations of the handler
    LastToken,          \* bound: refresh tokens issued, and endpoints made
    RelinkMeanwhile,    \* links change while a refresh is in flight
    StoresMayFail

ASSUME DeliveryConstants ==
    /\ Linked \union Phoned \subseteq Reader
    /\ NoRoom \notin Room
    /\ LastToken \in Nat \ {0}

VARIABLES
    notify,         \* what the node's shadow names: push, or a linked service
                    \* whose provider changes refresh tokens, or keeps them
    place,          \* the group the node is in
    report,         \* [Report -> the topic's group; NoRoom: not published]
    been,           \* history: [Report -> the groups the node has been in since]
    told,           \* history: the reports a user was told of
    link, stale,    \* [Linked -> refresh token stored (0: no row), access token old]
    accepted,       \* [Linked -> refresh tokens the provider accepts]
    issued,         \* [Linked -> tokens the provider has issued]
    endpoint,       \* [Phoned -> state of the phone's endpoints, by ARN]
    phoneRows,      \* [Phoned -> ARNs with a row]
    appCall,        \* [Phoned -> the app's registration or unregistration]
    sender          \* [Sender -> its local state]

homeVars == <<notify, place>>
reportVars == <<report, been>>
linkVars == <<link, stale, accepted, issued>>
phoneVars == <<endpoint, phoneRows, appCall>>
deliveryVars == <<notify, place, report, been, told, link, stale, accepted, issued,
                  endpoint, phoneRows, appCall, sender>>

Arn == 1 .. LastToken
NoCall == [op |-> "none", arn |-> 0]
IdleSender == [at |-> "idle", report |-> "none", todo |-> {}, arns |-> {}, token |-> 0]

DeliveryInit ==
    /\ notify \in {"push", "rotating", "steady"}
    /\ place \in Room
    /\ report = [e \in Report |-> NoRoom] /\ been = [e \in Report |-> {}]
    /\ told = {}
    /\ link = [u \in Linked |-> 0] /\ stale = [u \in Linked |-> FALSE]
    /\ accepted = [u \in Linked |-> {}] /\ issued = [u \in Linked |-> 0]
    /\ endpoint = [u \in Phoned |-> [a \in Arn |-> "unmade"]]
    /\ phoneRows = [u \in Phoned |-> {}]
    /\ appCall = [u \in Phoned |-> NoCall]
    /\ sender = [i \in Sender |-> IdleSender]

----------------------------------------------------------------------------
(* The node: a device goes on publishing to the topic it knows until it    *)
(* learns of its new group (NodePlacement).                                *)

Reported == {e \in Report : report[e] # NoRoom}

NodeMoves(g) ==
    /\ g # place
    /\ place' = g
    /\ been' = [e \in Report |-> IF e \in Reported THEN been[e] \union {g} ELSE been[e]]
    /\ UNCHANGED <<notify, report, told, linkVars, phoneVars, sender>>

NodeReports(e, g) ==
    /\ e \notin Reported
    /\ report' = [report EXCEPT ![e] = g]
    /\ been' = [been EXCEPT ![e] = {place}]
    /\ UNCHANGED <<homeVars, told, linkVars, phoneVars, sender>>

----------------------------------------------------------------------------
(* Handler *)

AtStep(i, step) == sender[i].at = step
Topic(i) == report[sender[i].report]
SenderAt(i, step) == sender' = [sender EXCEPT ![i].at = step]

\* A rule's invocation may be repeated.
Receives(i, e) ==
    /\ AtStep(i, "idle")
    /\ e \in Reported
    /\ sender' = [sender EXCEPT ![i] = [IdleSender EXCEPT !.at = "align", !.report = e]]
    /\ UNCHANGED <<homeVars, reportVars, told, linkVars, phoneVars>>

\* Mutant: the topic is believed.
AlignedByTopic(i) == TRUE
\* validateNodeGroupAlignment
Aligned(i) == Topic(i) = place

Aligns(i) ==
    /\ AtStep(i, "align")
    /\ IF Aligned(i) THEN SenderAt(i, "list") ELSE sender' = [sender EXCEPT ![i] = IdleSender]
    /\ UNCHANGED <<homeVars, reportVars, told, linkVars, phoneVars>>

\* The group's users are listed once for all services (GroupSharing has who
\* they are when).
ListsUsers(i, users) ==
    /\ AtStep(i, "list")
    /\ sender' = [sender EXCEPT ![i].at = "fan",
                      ![i].todo = IF notify = "push" THEN (users \intersect Phoned) \X {"push"}
                                   ELSE (users \intersect Linked) \X {"link"}]
    /\ UNCHANGED <<homeVars, reportVars, told, linkVars, phoneVars>>

\* An error of a user's delivery is logged, and the next one is tried.
Forward(i, u, service) ==
    sender' = [sender EXCEPT ![i].at = "fan", ![i].todo = @ \ {<<u, service>>},
                             ![i].arns = {}, ![i].token = 0]
Tell(i) == told' = told \union {sender[i].report}

Returns(i) ==
    /\ AtStep(i, "fan") /\ sender[i].todo = {}
    /\ sender' = [sender EXCEPT ![i] = IdleSender]
    /\ UNCHANGED <<homeVars, reportVars, told, linkVars, phoneVars>>

----------------------------------------------------------------------------
(* A linked service: UpdateAndGetLatestToken, then the call *)

ReadsLink(i, u) ==
    /\ AtStep(i, "fan") /\ <<u, "link">> \in sender[i].todo
    /\ IF link[u] = 0 THEN Forward(i, u, "link") /\ UNCHANGED told
       ELSE IF ~stale[u] THEN Forward(i, u, "link") /\ Tell(i)
       ELSE /\ sender' = [sender EXCEPT ![i].at = "refresh", ![i].token = link[u]]
            /\ UNCHANGED told
    /\ UNCHANGED <<homeVars, reportVars, linkVars, phoneVars>>

InHand(i, u) == /\ sender[i].at \in {"refresh", "store"}
                /\ <<u, "link">> \in sender[i].todo
                /\ sender[i].token \in 1 .. issued[u]

\* Mutant: an answer without a refresh token clears it (no token issued is this).
KeptNot(old) == LastToken + 1
\* refreshCallbackToken: an answer without a refresh token keeps the old one.
Kept(old) == old

\* The provider answers with a new refresh token, the old one then void, or
\* without one, the old one still good.
Refreshes(i, u) ==
    LET old == sender[i].token
    IN  /\ AtStep(i, "refresh") /\ InHand(i, u)
        /\ old \in accepted[u]
        /\ \/ /\ notify = "rotating"
              /\ issued[u] < LastToken
              /\ issued' = [issued EXCEPT ![u] = @ + 1]
              /\ accepted' = [accepted EXCEPT ![u] = (@ \ {old}) \union {issued'[u]}]
              /\ sender' = [sender EXCEPT ![i].at = "store", ![i].token = issued'[u]]
           \/ /\ notify = "steady"
              /\ sender' = [sender EXCEPT ![i].at = "store", ![i].token = Kept(old)]
              /\ UNCHANGED <<issued, accepted>>
        /\ UNCHANGED <<homeVars, reportVars, told, link, stale, phoneVars>>

\* Refused, or the provider is away.
RefreshFails(i, u) ==
    /\ AtStep(i, "refresh") /\ InHand(i, u)
    /\ Forward(i, u, "link")
    /\ UNCHANGED <<homeVars, reportVars, told, linkVars, phoneVars>>

\* The whole row is written back, whatever became of it meanwhile.
StoresLink(i, u) ==
    /\ AtStep(i, "store")
    /\ <<u, "link">> \in sender[i].todo
    /\ link' = [link EXCEPT ![u] = sender[i].token]
    /\ stale' = [stale EXCEPT ![u] = FALSE]
    /\ Tell(i)
    /\ Forward(i, u, "link")
    /\ UNCHANGED <<homeVars, reportVars, accepted, issued, phoneVars>>

StoreFails(i, u) ==
    /\ StoresMayFail
    /\ AtStep(i, "store") /\ InHand(i, u)
    /\ Forward(i, u, "link")
    /\ UNCHANGED <<homeVars, reportVars, told, linkVars, phoneVars>>

LinkIsFree(u) == RelinkMeanwhile \/ \A i \in Sender : ~InHand(i, u)

Expires(u) ==
    /\ link[u] # 0 /\ ~stale[u]
    /\ stale' = [stale EXCEPT ![u] = TRUE]
    /\ UNCHANGED <<homeVars, reportVars, told, link, accepted, issued, phoneVars, sender>>

\* The grant's code is exchanged and the row written over.
Grants(u) ==
    /\ notify # "push"
    /\ LinkIsFree(u)
    /\ issued[u] < LastToken
    /\ issued' = [issued EXCEPT ![u] = @ + 1]
    /\ accepted' = [accepted EXCEPT ![u] = {issued'[u]}]
    /\ link' = [link EXCEPT ![u] = issued'[u]]
    /\ stale' = [stale EXCEPT ![u] = FALSE]
    /\ UNCHANGED <<homeVars, reportVars, told, phoneVars, sender>>

\* HandleIntegrationDeleted, removeAccountLink
Unlinks(u) ==
    /\ LinkIsFree(u)
    /\ link[u] # 0
    /\ link' = [link EXCEPT ![u] = 0]
    /\ stale' = [stale EXCEPT ![u] = FALSE]
    /\ accepted' = [accepted EXCEPT ![u] = {}]
    /\ UNCHANGED <<homeVars, reportVars, told, issued, phoneVars, sender>>

----------------------------------------------------------------------------
(* A phone: sendToUser, and the app's own calls *)

ListsPhones(i, u) ==
    /\ AtStep(i, "fan") /\ <<u, "push">> \in sender[i].todo
    /\ sender' = [sender EXCEPT ![i].arns = phoneRows[u],
                                ![i].at = IF phoneRows[u] = {} THEN "pushed" ELSE "publish"]
    /\ UNCHANGED <<homeVars, reportVars, told, linkVars, phoneVars>>

\* The ARNs still to publish to; the phones of one user are done in a row.
NextArn(i, a) ==
    sender' = IF sender[i].arns = {a}
              THEN [sender EXCEPT ![i].at = "pushed", ![i].arns = {}, ![i].token = 0]
              ELSE [sender EXCEPT ![i].at = "publish", ![i].arns = @ \ {a}, ![i].token = 0]

PhoneOf(i, u) == <<u, "push">> \in sender[i].todo

PhonesDone(i, u) ==
    /\ AtStep(i, "pushed") /\ PhoneOf(i, u)
    /\ Forward(i, u, "push")
    /\ UNCHANGED <<homeVars, reportVars, told, linkVars, phoneVars>>

\* isEndpointUnusableErr
Unusable(error) == error \in {"disabled", "gone"}

PublishesTo(i, u, a) ==
    /\ AtStep(i, "publish") /\ PhoneOf(i, u) /\ a \in sender[i].arns
    /\ \/ /\ endpoint[u][a] = "live"
          /\ Tell(i)
          /\ NextArn(i, a)
       \/ \E error \in {"throttled", endpoint[u][a]} \ {"live"} :
             /\ IF Unusable(error)
                THEN sender' = [sender EXCEPT ![i].at = "clean", ![i].token = a]
                ELSE NextArn(i, a)
             /\ UNCHANGED told
    /\ UNCHANGED <<homeVars, reportVars, linkVars, phoneVars>>

\* cleanupUnusableEndpoint: the endpoint, then the row whatever came of it.
DeletesEndpoint(i, u) ==
    /\ AtStep(i, "clean") /\ PhoneOf(i, u)
    /\ endpoint' = [endpoint EXCEPT ![u][sender[i].token] = "gone"]
    /\ SenderAt(i, "forget")
    /\ UNCHANGED <<homeVars, reportVars, told, linkVars, phoneRows, appCall>>

ForgetsPhone(i, u) ==
    /\ AtStep(i, "forget") /\ PhoneOf(i, u)
    /\ phoneRows' = [phoneRows EXCEPT ![u] = @ \ {sender[i].token}]
    /\ NextArn(i, sender[i].token)
    /\ UNCHANGED <<homeVars, reportVars, told, linkVars, endpoint, appCall>>

\* CreatePlatformEndpoint returns the endpoint the phone's token has, if any.
Made(u) == {a \in Arn : endpoint[u][a] \in {"live", "disabled"}}
Unmade(u) == {a \in Arn : endpoint[u][a] = "unmade" /\ \A b \in Arn : b < a => endpoint[u][b] # "unmade"}

Registers(u, a) ==
    /\ notify = "push"
    /\ appCall[u] = NoCall
    /\ a \in IF Made(u) # {} THEN Made(u) ELSE Unmade(u)
    /\ endpoint' = [endpoint EXCEPT ![u][a] = IF @ = "unmade" THEN "live" ELSE @]
    /\ appCall' = [appCall EXCEPT ![u] = [op |-> "put", arn |-> a]]
    /\ UNCHANGED <<homeVars, reportVars, told, linkVars, phoneRows, sender>>

PutsPhone(u) ==
    /\ appCall[u].op = "put"
    /\ phoneRows' = [phoneRows EXCEPT ![u] = @ \union {appCall[u].arn}]
    /\ appCall' = [appCall EXCEPT ![u] = NoCall]
    /\ UNCHANGED <<homeVars, reportVars, told, linkVars, endpoint, sender>>

Unregisters(u, a) ==
    /\ appCall[u] = NoCall
    /\ a \in phoneRows[u]
    /\ endpoint' = [endpoint EXCEPT ![u][a] = "gone"]
    /\ appCall' = [appCall EXCEPT ![u] = [op |-> "delete", arn |-> a]]
    /\ UNCHANGED <<homeVars, reportVars, told, linkVars, phoneRows, sender>>

DeletesPhone(u) ==
    /\ appCall[u].op = "delete"
    /\ phoneRows' = [phoneRows EXCEPT ![u] = @ \ {appCall[u].arn}]
    /\ appCall' = [appCall EXCEPT ![u] = NoCall]
    /\ UNCHANGED <<homeVars, reportVars, told, linkVars, endpoint, sender>>

\* SNS disables the endpoint of an app that is gone.
Disables(u, a) ==
    /\ endpoint[u][a] = "live"
    /\ endpoint' = [endpoint EXCEPT ![u][a] = "disabled"]
    /\ UNCHANGED <<homeVars, reportVars, told, linkVars, phoneRows, appCall, sender>>

DeliveryNext ==
    \/ \E g \in Room : NodeMoves(g) \/ (\E e \in Report : NodeReports(e, g))
    \/ \E i \in Sender :
          \/ \E e \in Report : Receives(i, e)
          \/ Aligns(i) \/ Returns(i) \/ \E users \in SUBSET Reader : ListsUsers(i, users)
          \/ \E u \in Linked : \/ ReadsLink(i, u) \/ Refreshes(i, u) \/ RefreshFails(i, u)
                               \/ StoresLink(i, u) \/ StoreFails(i, u)
          \/ \E u \in Phoned : \/ ListsPhones(i, u) \/ PhonesDone(i, u)
                               \/ \E a \in Arn : PublishesTo(i, u, a)
                               \/ DeletesEndpoint(i, u) \/ ForgetsPhone(i, u)
    \/ \E u \in Linked : Expires(u) \/ Grants(u) \/ Unlinks(u)
    \/ \E u \in Phoned : \/ PutsPhone(u) \/ DeletesPhone(u)
                         \/ \E a \in Arn : Registers(u, a) \/ Unregisters(u, a) \/ Disables(u, a)

DeliverySpec == DeliveryInit /\ [][DeliveryNext]_deliveryVars

----------------------------------------------------------------------------
\* Every variable has its type.
DeliveryTypeOK ==
    /\ notify \in {"push", "rotating", "steady"}
    /\ place \in Room
    /\ report \in [Report -> Room \union {NoRoom}]
    /\ been \in [Report -> SUBSET Room]
    /\ told \subseteq Report
    /\ link \in [Linked -> 0 .. LastToken] /\ stale \in [Linked -> BOOLEAN]
    /\ accepted \in [Linked -> SUBSET (1 .. LastToken)] /\ issued \in [Linked -> 0 .. LastToken]
    /\ endpoint \in [Phoned -> [Arn -> {"unmade", "live", "disabled", "gone"}]]
    /\ phoneRows \in [Phoned -> SUBSET Arn]
    /\ appCall \in [Phoned -> [op : {"none", "put", "delete"}, arn : 0 .. LastToken]]
    /\ sender \in [Sender -> [at : {"idle", "align", "list", "fan", "refresh", "store", "publish",
                                    "clean", "forget", "pushed"},
                              report : Report \union {"none"},
                              todo : SUBSET (Reader \X {"link", "push"}),
                              arns : SUBSET Arn, token : 0 .. LastToken]]

\* A report is told to the users of a group only if the node was in that group
\* when it was published or since: the topic of a former group, which the node
\* may go on publishing to, tells nobody (validateNodeGroupAlignment).
ToldWhereItWas == \A e \in told : report[e] \in been[e]

============================================================================
