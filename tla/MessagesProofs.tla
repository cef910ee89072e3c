--------------------------- MODULE MessagesProofs ---------------------------
(***************************************************************************)
(* Proofs about what nodes, users and assistants tell each other:          *)
(*                                                                         *)
(*   Delivery     a report is told where the node was, or has been since   *)
(*   Automations  automations act on what nodes say of themselves          *)
(*   ParamChecks  a node is sent what was asked for, in its own types      *)
(*   VoiceReports what an assistant was told last is what was reported     *)
(*   VoiceControl what a command was answered shows in the lamp            *)
(*                                                                         *)
(* for any number of users, nodes, invocations of a handler and bounds.    *)
(* Then, of all of MCMessages together: each component keeps its types     *)
(* (DataProofs has those of readings, queries and tables).                 *)
(***************************************************************************)
EXTENDS MCMessages, DataProofs, TLAPS

----------------------------------------------------------------------------
(* Delivery: a sender past the alignment check holds a report whose topic  *)
(* is of a group the node has been in since, and that set only grows.      *)

Waiting == {"idle", "align"}

Errand == Reader \X {"link", "push"}

Moment == {"idle", "align", "list", "fan", "refresh", "store", "publish", "clean",
           "forget", "pushed"}

SenderState ==
    [at : Moment,
     report : Report \union {"none"},
     todo : SUBSET Errand, arns : SUBSET Int, token : Int]

RoomsInv ==
    /\ place \in Room
    /\ report \in [Report -> Room \union {NoRoom}]
    /\ been \in [Report -> SUBSET Room]
    /\ \A e \in Reported : place \in been[e]

SendersInv ==
    /\ sender \in [Sender -> SenderState]
    /\ \A i \in Sender :
          /\ sender[i].at # "idle" => sender[i].report \in Reported
          /\ sender[i].at \notin Waiting => report[sender[i].report] \in been[sender[i].report]

ToldInv == \A e \in told : e \in Reported /\ report[e] \in been[e]

TokensInv ==
    /\ issued \in [Linked -> Int] /\ link \in [Linked -> Int]
    /\ phoneRows \in [Phoned -> SUBSET Int]
    /\ appCall \in [Phoned -> [op : {"none", "put", "delete"}, arn : Int]]

DeliveryInv == RoomsInv /\ SendersInv /\ ToldInv /\ TokensInv

\* Nodes move and report: the groups a report has seen only grow, and the new
\* report is nobody's yet.
LEMMA NodesStep ==
    ASSUME DeliveryInv,
           \/ \E g \in Room : NodeMoves(g)
           \/ \E g \in Room, e \in Report : NodeReports(e, g)
    PROVE  DeliveryInv'
<1>1. ASSUME NEW g \in Room, NodeMoves(g) PROVE DeliveryInv'
  <2>1. Reported' = Reported
    BY <1>1 DEF NodeMoves, Reported
  <2>2. RoomsInv'
    <3>1. been' = [e \in Report |-> IF e \in Reported THEN been[e] \union {g} ELSE been[e]]
      BY <1>1 DEF NodeMoves
    <3>2. \A e \in Reported : g \in been'[e]
      BY <3>1 DEF Reported
    <3>3. been' \in [Report -> SUBSET Room]
      BY <3>1 DEF DeliveryInv, RoomsInv
    <3> QED BY <1>1, <2>1, <3>2, <3>3 DEF NodeMoves, DeliveryInv, RoomsInv
  <2>3. \A e \in Reported : been[e] \subseteq been'[e]
    BY <1>1 DEF NodeMoves, DeliveryInv, RoomsInv, Reported
  <2>4. SendersInv'
    <3> SUFFICES ASSUME NEW i \in Sender
                 PROVE  /\ sender[i].at # "idle" => sender[i].report \in Reported
                        /\ sender[i].at \notin Waiting =>
                              report[sender[i].report] \in been'[sender[i].report]
      BY <1>1, <2>1 DEF NodeMoves, DeliveryInv, SendersInv
    <3> QED BY <2>3 DEF DeliveryInv, SendersInv, Waiting
  <2>5. ToldInv'
    BY <1>1, <2>1, <2>3 DEF NodeMoves, DeliveryInv, ToldInv
  <2> QED BY <1>1, <2>2, <2>4, <2>5
          DEF NodeMoves, DeliveryInv, TokensInv, linkVars, phoneVars
<1>2. ASSUME NEW g \in Room, NEW e \in Report, NodeReports(e, g) PROVE DeliveryInv'
  <2>1. \A f \in Reported : f # e /\ f \in Reported' /\ report'[f] = report[f] /\ been'[f] = been[f]
    BY <1>2 DEF NodeReports, DeliveryInv, RoomsInv, Reported
  <2>2. RoomsInv'
    BY <1>2 DEF NodeReports, DeliveryInv, RoomsInv, Reported, homeVars
  <2>3. SendersInv'
    BY <1>2, <2>1 DEF NodeReports, DeliveryInv, SendersInv, Waiting
  <2>4. ToldInv'
    BY <1>2, <2>1 DEF NodeReports, DeliveryInv, ToldInv
  <2> QED BY <1>2, <2>2, <2>3, <2>4
          DEF NodeReports, DeliveryInv, TokensInv, linkVars, phoneVars
<1> QED BY <1>1, <1>2

\* A sender moves on with the report it has, past the check or not.
LEMMA SenderGoesOn ==
    ASSUME DeliveryInv, NEW i \in Sender, sender[i].at # "idle",
           NEW s \in SenderState, sender' = [sender EXCEPT ![i] = s],
           s.report = sender[i].report \/ s.at = "idle",
           s.at \notin Waiting => sender[i].at \notin Waiting \/ Aligned(i),
           UNCHANGED <<homeVars, reportVars>>,
           TokensInv',
           told' = told \/ (sender[i].at \notin Waiting /\ told' = told \union {sender[i].report})
    PROVE  DeliveryInv'
<1>1. Reported' = Reported
  BY DEF reportVars, Reported
<1>2. RoomsInv'
  BY <1>1 DEF DeliveryInv, RoomsInv, homeVars, reportVars
<1>3. sender[i].report \in Reported
  BY DEF DeliveryInv, SendersInv
<1>4. s.at \notin Waiting => report[sender[i].report] \in been[sender[i].report]
  BY <1>3 DEF DeliveryInv, SendersInv, RoomsInv, Aligned, Topic
<1>5. SendersInv'
  BY <1>1, <1>3, <1>4 DEF DeliveryInv, SendersInv, reportVars, Waiting
<1>6. ToldInv'
  BY <1>1, <1>3 DEF DeliveryInv, ToldInv, SendersInv, reportVars
<1> QED BY <1>2, <1>5, <1>6 DEF DeliveryInv

\* A sender with nothing to do.
LEMMA IdleIsAState == IdleSender \in SenderState
<1> DEFINE none == {}
<1>1. none \in SUBSET Errand /\ none \in SUBSET Int
  OBVIOUS
<1> HIDE DEF none
<1>2. [at |-> "idle", report |-> "none", todo |-> none, arns |-> none, token |-> 0] \in SenderState
  BY <1>1 DEF SenderState, Moment
<1> QED BY <1>2 DEF IdleSender, none

\* The parts of a sender's state are free of each other.
LEMMA Updated ==
    ASSUME NEW s \in SenderState, NEW at \in Moment, NEW todo \in SUBSET Errand,
           NEW arns \in SUBSET Int, NEW token \in Int
    PROVE  [s EXCEPT !.at = at, !.todo = todo, !.arns = arns, !.token = token] \in SenderState
BY DEF SenderState, Moment

\* A user less, or an endpoint less, is still the state of a sender, with the
\* report it had.
LEMMA Forwarded ==
    ASSUME NEW s \in SenderState, NEW t
    PROVE  /\ [s EXCEPT !.at = "fan", !.todo = @ \ {t}, !.arns = {}, !.token = 0] \in SenderState
           /\ [s EXCEPT !.at = "fan", !.todo = @ \ {t}, !.arns = {}, !.token = 0].report = s.report
<1>1. s.todo \ {t} \in SUBSET Errand /\ {} \in SUBSET Int /\ 0 \in Int /\ "fan" \in Moment
  BY DEF SenderState, Moment
<1>2. [s EXCEPT !.at = "fan", !.todo = s.todo \ {t}, !.arns = {}, !.token = 0] \in SenderState
  BY <1>1, Updated, Zenon
<1> QED BY <1>2 DEF SenderState, Moment

\* A sender that is done with an endpoint, the last one or not.
LEMMA Dialled ==
    ASSUME NEW s \in SenderState, NEW a
    PROVE  LET last == [s EXCEPT !.at = "pushed", !.arns = {}, !.token = 0]
               next == [s EXCEPT !.at = "publish", !.arns = @ \ {a}, !.token = 0]
           IN  /\ last \in SenderState /\ last.report = s.report
               /\ next \in SenderState /\ next.report = s.report
<1> DEFINE less == s.arns \ {a}
           none == {}
<1>1. less \in SUBSET Int /\ none \in SUBSET Int /\ s.todo \in SUBSET Errand /\ 0 \in Int
  BY DEF SenderState
<1> HIDE DEF less, none
<1>2. [s EXCEPT !.at = "publish", !.todo = s.todo, !.arns = less, !.token = 0] \in SenderState
  BY <1>1, Updated DEF Moment
<1>3. [s EXCEPT !.at = "pushed", !.todo = s.todo, !.arns = none, !.token = 0] \in SenderState
  BY <1>1, Updated DEF Moment
<1> USE DEF less, none
<1> QED BY <1>2, <1>3 DEF SenderState, Moment

\* Each action of the handler is such a step.
LEMMA HandlerStep ==
    ASSUME DeliveryInv, NEW i \in Sender,
           \/ Aligns(i) \/ Returns(i) \/ \E users \in SUBSET Reader : ListsUsers(i, users)
           \/ \E u \in Linked : ReadsLink(i, u) \/ RefreshFails(i, u) \/ StoreFails(i, u)
           \/ \E u \in Phoned : ListsPhones(i, u) \/ PhonesDone(i, u) \/ DeletesEndpoint(i, u)
    PROVE  DeliveryInv'
<1> USE DEF DeliveryInv
<1>1. sender[i] \in SenderState
  BY DEF SendersInv
<1>2. IdleSender \in SenderState
  BY IdleIsAState
<1>3. CASE Aligns(i)
  <2>1. sender[i].at = "align" /\ UNCHANGED <<homeVars, reportVars, told, linkVars, phoneVars>>
    BY <1>3 DEF Aligns, AtStep
  <2>2. TokensInv'
    BY <2>1 DEF TokensInv, linkVars, phoneVars
  <2> DEFINE s == IF Aligned(i) THEN [sender[i] EXCEPT !.at = "list"] ELSE IdleSender
  <2>3. sender' = [sender EXCEPT ![i] = s]
    BY <1>1, <1>3 DEF Aligns, SenderAt, SendersInv, SenderState, Moment
  <2>4. /\ s \in SenderState /\ (s.report = sender[i].report \/ s.at = "idle")
        /\ s.at \notin Waiting => Aligned(i)
    BY <1>1, <1>2 DEF SenderState, Moment, IdleSender, Waiting
  <2> HIDE DEF s
  <2> QED BY <2>1, <2>2, <2>3, <2>4, SenderGoesOn DEF phoneVars
<1>4. CASE Returns(i)
  BY <1>1, <1>2, <1>4, SenderGoesOn
     DEF Returns, AtStep, SenderState, Moment, Waiting, IdleSender,
     linkVars, phoneVars, TokensInv
<1>5. ASSUME NEW users \in SUBSET Reader, ListsUsers(i, users) PROVE DeliveryInv'
  <2> DEFINE todo == IF notify = "push" THEN (users \intersect Phoned) \X {"push"}
                     ELSE (users \intersect Linked) \X {"link"}
             s == [sender[i] EXCEPT !.at = "fan", !.todo = todo]
  <2>1. todo \in SUBSET Errand
    BY DeliveryConstants DEF Errand
  <2> HIDE DEF todo
  <2>2. s \in SenderState /\ s.at = "fan" /\ s.report = sender[i].report
    BY <1>1, <2>1 DEF SenderState, Moment
  <2>3. sender' = [sender EXCEPT ![i] = s]
    BY <1>1, <1>5 DEF ListsUsers, SendersInv, SenderState, Moment, todo
  <2> HIDE DEF s
  <2>4. sender[i].at = "list" /\ UNCHANGED <<homeVars, reportVars, told, linkVars, phoneVars>>
    BY <1>5 DEF ListsUsers, AtStep
  <2> QED BY <2>2, <2>3, <2>4, SenderGoesOn DEF Waiting, linkVars, phoneVars, TokensInv
<1>7. ASSUME NEW u, NEW service, Forward(i, u, service), sender[i].at \notin Waiting,
             UNCHANGED <<homeVars, reportVars, linkVars, phoneVars>>,
             told' = told \/ Tell(i)
      PROVE  DeliveryInv'
  <2> DEFINE s == [sender[i] EXCEPT !.at = "fan", !.todo = @ \ {<<u, service>>}, !.arns = {}, !.token = 0]
  <2>1. sender' = [sender EXCEPT ![i] = s]
    BY <1>1, <1>7 DEF Forward, SendersInv, SenderState, Moment
  <2>2. s \in SenderState /\ s.report = sender[i].report
    BY <1>1, Forwarded
  <2>3. s.at \notin Waiting
    BY <1>1 DEF SenderState, Moment, Waiting
  <2> HIDE DEF s
  <2> QED BY <1>7, <2>1, <2>2, SenderGoesOn
     DEF Tell, Waiting, linkVars, phoneVars, TokensInv
<1>8. ASSUME NEW u \in Linked, ReadsLink(i, u) \/ RefreshFails(i, u) \/ StoreFails(i, u)
      PROVE  DeliveryInv'
  <2>1. sender[i].at \notin Waiting /\ UNCHANGED <<homeVars, reportVars, linkVars, phoneVars>>
    BY <1>8 DEF ReadsLink, RefreshFails, StoreFails, AtStep, Waiting
  <2>2. CASE ReadsLink(i, u) /\ link[u] # 0 /\ stale[u]
    <3> DEFINE s == [sender[i] EXCEPT !.at = "refresh", !.token = link[u]]
    <3>1. sender' = [sender EXCEPT ![i] = s] /\ told' = told
      BY <1>1, <2>2 DEF ReadsLink, SendersInv, SenderState, Moment
    <3>2. s \in SenderState /\ s.report = sender[i].report
      BY <1>1 DEF SenderState, Moment, TokensInv
    <3> HIDE DEF s
    <3> QED BY <2>1, <3>1, <3>2, SenderGoesOn
       DEF Waiting, linkVars, phoneVars, TokensInv
  <2>3. CASE ~(ReadsLink(i, u) /\ link[u] # 0 /\ stale[u])
    <3>1. Forward(i, u, "link") /\ (told' = told \/ Tell(i))
      BY <1>8, <2>3 DEF ReadsLink, RefreshFails, StoreFails
    <3> QED BY <1>7, <2>1, <3>1
  <2> QED BY <2>2, <2>3
<1>9. ASSUME NEW u \in Phoned, ListsPhones(i, u) PROVE DeliveryInv'
  <2> DEFINE s == [sender[i] EXCEPT !.arns = phoneRows[u],
                      !.at = IF phoneRows[u] = {} THEN "pushed" ELSE "publish"]
  <2>1. sender' = [sender EXCEPT ![i] = s] /\ sender[i].at = "fan"
    BY <1>1, <1>9 DEF ListsPhones, AtStep, SendersInv, SenderState, Moment
  <2>2. s \in SenderState /\ s.report = sender[i].report
    BY <1>1 DEF SenderState, Moment, TokensInv
  <2> HIDE DEF s
  <2> QED BY <1>9, <2>1, <2>2, SenderGoesOn
     DEF ListsPhones, Waiting, linkVars, phoneVars, TokensInv
<1>10. ASSUME NEW u \in Phoned, PhonesDone(i, u) PROVE DeliveryInv'
  BY <1>7, <1>10 DEF PhonesDone, AtStep, Waiting
<1>11. ASSUME NEW u \in Phoned, DeletesEndpoint(i, u) PROVE DeliveryInv'
  <2> DEFINE s == [sender[i] EXCEPT !.at = "forget"]
  <2>1. sender' = [sender EXCEPT ![i] = s] /\ sender[i].at = "clean"
    BY <1>1, <1>11
       DEF DeletesEndpoint, AtStep, SenderAt, SendersInv, SenderState, Moment
  <2>2. s \in SenderState /\ s.report = sender[i].report
    BY <1>1 DEF SenderState, Moment
  <2> HIDE DEF s
  <2> QED BY <1>11, <2>1, <2>2, SenderGoesOn
     DEF DeletesEndpoint, Waiting, linkVars, TokensInv
<1> QED BY <1>3, <1>4, <1>5, <1>8, <1>9, <1>10, <1>11

\* The steps that touch the tables of links and phones besides.
LEMMA TablesStep ==
    ASSUME DeliveryInv, NEW i \in Sender,
           \/ \E u \in Linked : Refreshes(i, u) \/ StoresLink(i, u)
           \/ \E u \in Phoned : ForgetsPhone(i, u) \/ \E a \in Arn : PublishesTo(i, u, a)
    PROVE  DeliveryInv'
<1> USE DEF DeliveryInv
<1>1. sender[i] \in SenderState
  BY DEF SendersInv
<1>7. Arn \subseteq Int
  BY DEF Arn
<1>2. ASSUME NEW u \in Linked, Refreshes(i, u) PROVE DeliveryInv'
  <2>1. PICK t \in Int : /\ sender' = [sender EXCEPT ![i].at = "store", ![i].token = t]
                         /\ TokensInv'
    BY <1>1, <1>2 DEF Refreshes, Kept, SenderState, Moment, TokensInv, phoneVars
  <2> DEFINE s == [sender[i] EXCEPT !.at = "store", !.token = t]
  <2>2. sender' = [sender EXCEPT ![i] = s]
    BY <1>1, <2>1 DEF SendersInv, SenderState, Moment
  <2>3. s \in SenderState /\ s.report = sender[i].report
    BY <1>1 DEF SenderState, Moment
  <2> HIDE DEF s
  <2> QED BY <1>2, <2>1, <2>2, <2>3, SenderGoesOn
     DEF Refreshes, AtStep, Waiting, phoneVars
<1>3. ASSUME NEW u \in Linked, StoresLink(i, u) PROVE DeliveryInv'
  <2> DEFINE s == [sender[i] EXCEPT !.at = "fan", !.todo = @ \ {<<u, "link">>}, !.arns = {}, !.token = 0]
  <2>1. sender' = [sender EXCEPT ![i] = s] /\ sender[i].at = "store"
    BY <1>1, <1>3 DEF StoresLink, AtStep, Forward, SendersInv, SenderState, Moment
  <2>2. s \in SenderState /\ s.report = sender[i].report
    BY <1>1, Forwarded
  <2>3. TokensInv'
    BY <1>1, <1>3 DEF StoresLink, SenderState, Moment, TokensInv, phoneVars
  <2> HIDE DEF s
  <2> QED BY <1>3, <2>1, <2>2, <2>3, SenderGoesOn
     DEF StoresLink, Tell, Waiting, phoneVars
<1>4. ASSUME NEW a \in Arn, NextArn(i, a), sender[i].at \notin Waiting,
             UNCHANGED <<homeVars, reportVars>>, TokensInv',
             told' = told \/ Tell(i)
      PROVE  DeliveryInv'
  <2> DEFINE s == IF sender[i].arns = {a}
                  THEN [sender[i] EXCEPT !.at = "pushed", !.arns = {}, !.token = 0]
                  ELSE [sender[i] EXCEPT !.at = "publish", !.arns = @ \ {a}, !.token = 0]
  <2>1. sender' = [sender EXCEPT ![i] = s]
    BY <1>1, <1>4 DEF NextArn, SendersInv, SenderState, Moment
  <2>2. s \in SenderState /\ s.report = sender[i].report
    BY <1>1, Dialled, Zenon
  <2> HIDE DEF s
  <2> QED BY <1>4, <2>1, <2>2, SenderGoesOn DEF Tell, Waiting
<1>5. ASSUME NEW u \in Phoned, ForgetsPhone(i, u) PROVE DeliveryInv'
  <2>1. sender[i].at = "forget" /\ NextArn(i, sender[i].token)
    BY <1>5 DEF ForgetsPhone, AtStep
  <2> DEFINE s == IF sender[i].arns = {sender[i].token}
                  THEN [sender[i] EXCEPT !.at = "pushed", !.arns = {}, !.token = 0]
                  ELSE [sender[i] EXCEPT !.at = "publish", !.arns = @ \ {sender[i].token}, !.token = 0]
  <2>2. sender' = [sender EXCEPT ![i] = s]
    BY <1>1, <2>1 DEF NextArn, SendersInv, SenderState, Moment
  <2>3. s \in SenderState /\ s.report = sender[i].report
    BY <1>1, Dialled, Zenon
  <2>4. TokensInv'
    BY <1>5 DEF ForgetsPhone, TokensInv, linkVars
  <2> HIDE DEF s
  <2> QED BY <1>5, <2>1, <2>2, <2>3, <2>4, SenderGoesOn
          DEF ForgetsPhone, Waiting, TokensInv
<1>6. ASSUME NEW u \in Phoned, NEW a \in Arn, PublishesTo(i, u, a) PROVE DeliveryInv'
  <2>1. sender[i].at = "publish" /\ UNCHANGED <<homeVars, reportVars, linkVars, phoneVars>>
    BY <1>6 DEF PublishesTo, AtStep
  <2>2. TokensInv'
    BY <2>1 DEF linkVars, phoneVars, TokensInv
  <2>3. CASE NextArn(i, a)
    BY <1>4, <1>6, <2>1, <2>2, <2>3 DEF PublishesTo, Waiting, phoneVars
  <2>4. CASE sender' = [sender EXCEPT ![i].at = "clean", ![i].token = a] /\ told' = told
    <3> DEFINE s == [sender[i] EXCEPT !.at = "clean", !.token = a]
    <3>1. sender' = [sender EXCEPT ![i] = s]
      BY <1>1, <2>4 DEF SendersInv, SenderState, Moment
    <3>2. s \in SenderState /\ s.report = sender[i].report
      BY <1>1, <1>7 DEF SenderState, Moment
    <3> HIDE DEF s
    <3> QED BY <2>1, <2>2, <2>4, <3>1, <3>2, SenderGoesOn DEF Waiting, phoneVars
  <2> QED BY <1>6, <2>3, <2>4 DEF PublishesTo
<1> QED BY <1>2, <1>3, <1>5, <1>6

\* Clients, providers and phones leave reports and senders alone.
LEMMA OthersStep ==
    ASSUME DeliveryInv,
           \/ \E u \in Linked : Expires(u) \/ Grants(u) \/ Unlinks(u)
           \/ \E u \in Phoned : PutsPhone(u) \/ DeletesPhone(u)
           \/ \E u \in Phoned, a \in Arn : Registers(u, a) \/ Unregisters(u, a) \/ Disables(u, a)
    PROVE  DeliveryInv'
<1>1. UNCHANGED <<place, report, been, told, sender>>
  BY
     DEF Expires, Grants, Unlinks, PutsPhone, DeletesPhone, Registers, Unregisters,
         Disables,
     homeVars, reportVars
<1>2. RoomsInv' /\ SendersInv' /\ ToldInv'
  BY <1>1 DEF DeliveryInv, RoomsInv, SendersInv, ToldInv, Reported
<1>3. TokensInv'
  <2> USE DEF DeliveryInv, TokensInv
  <2>1. ASSUME NEW u \in Phoned, PutsPhone(u) \/ DeletesPhone(u) PROVE TokensInv'
    BY <2>1, SMTT(20) DEF PutsPhone, DeletesPhone, linkVars, NoCall
  <2>2. ASSUME NEW u \in Phoned, NEW a \in Arn, Registers(u, a) \/ Unregisters(u, a) \/ Disables(u, a)
        PROVE  TokensInv'
    <3>1. a \in Int
      BY DEF Arn
    <3> QED BY <2>2, <3>1 DEF Registers, Unregisters, Disables, linkVars
  <2>3. ASSUME NEW u \in Linked, Expires(u) \/ Grants(u) \/ Unlinks(u) PROVE TokensInv'
    BY <2>3 DEF Expires, Grants, Unlinks, phoneVars
  <2> QED BY <2>1, <2>2, <2>3
<1> QED BY <1>2, <1>3 DEF DeliveryInv

\* What a sender holds was reported, and past the check it is of a group the
\* node has been in since.
LEMMA DeliveryAlways == DeliverySpec => []DeliveryInv
<1>1. DeliveryInit => DeliveryInv
  BY
     DEF DeliveryInit, DeliveryInv, RoomsInv, SendersInv, ToldInv, TokensInv, Reported,
         IdleSender,
     SenderState, Moment, Waiting, NoCall
<1>2. DeliveryInv /\ [DeliveryNext]_deliveryVars => DeliveryInv'
  <2> SUFFICES ASSUME DeliveryInv, [DeliveryNext]_deliveryVars PROVE DeliveryInv'
    OBVIOUS
  <2>1. CASE UNCHANGED deliveryVars
    BY <2>1
       DEF deliveryVars, DeliveryInv, RoomsInv, SendersInv, ToldInv, TokensInv, Reported
  <2>2. ASSUME NEW i \in Sender, NEW e \in Report, Receives(i, e) PROVE DeliveryInv'
    <3> DEFINE s == [IdleSender EXCEPT !.at = "align", !.report = e]
    <3>1. s \in SenderState /\ s.at = "align" /\ s.report = e
      BY IdleIsAState DEF SenderState, Moment
    <3>2. sender' = [sender EXCEPT ![i] = s] /\ e \in Reported
      BY <2>2 DEF Receives
    <3> HIDE DEF s
    <3>3. UNCHANGED <<homeVars, reportVars, told, linkVars, phoneVars>>
      BY <2>2 DEF Receives
    <3> QED BY <3>1, <3>2, <3>3
           
               DEF DeliveryInv, RoomsInv, SendersInv, ToldInv, TokensInv, Reported,
                   Waiting, homeVars,
                reportVars, linkVars, phoneVars
  <2> QED BY <2>1, <2>2, NodesStep, HandlerStep, TablesStep, OthersStep DEF DeliveryNext
<1> QED BY <1>1, <1>2, PTL DEF DeliverySpec

\* A report is told to the users of a group only if the node was in it when it
\* was published or since, however invocations, moves, refreshed links and
\* phones interleave (validateNodeGroupAlignment).
THEOREM ReportsStayHome == DeliverySpec => []ToldWhereItWas
<1>1. DeliveryInv => ToldWhereItWas
  BY DEF DeliveryInv, ToldInv, ToldWhereItWas
<1> QED BY <1>1, DeliveryAlways, PTL

----------------------------------------------------------------------------
(* Delivery: types, and tokens and endpoints within what was issued.       *)

Phase == {"unmade", "live", "disabled", "gone"}

InBounds(s) == s.arns \subseteq Arn /\ s.token \in 0 .. LastToken

DeliveryBounds ==
    /\ notify \in {"push", "rotating", "steady"}
    /\ stale \in [Linked -> BOOLEAN] /\ accepted \in [Linked -> SUBSET Arn]
    /\ \A u \in Linked : link[u] \in 0 .. LastToken /\ issued[u] \in 0 .. LastToken
    /\ endpoint \in [Phoned -> [Arn -> Phase]]
    /\ \A u \in Phoned : /\ phoneRows[u] \subseteq Arn
                         /\ appCall[u].arn \in 0 .. LastToken
                         /\ appCall[u].op = "put" => appCall[u].arn \in Arn
    /\ \A i \in Sender : InBounds(sender[i])

\* A phone's endpoint takes another state.
LEMMA EndpointTyped ==
    ASSUME endpoint \in [Phoned -> [Arn -> Phase]], NEW u \in Phoned, NEW a, NEW p \in Phase,
           endpoint' = [endpoint EXCEPT ![u][a] = p]
    PROVE  endpoint' \in [Phoned -> [Arn -> Phase]]
<1>1. PICK e : e = [endpoint[u] EXCEPT ![a] = p]
  OBVIOUS
<1>2. e \in [Arn -> Phase]
  BY <1>1
<1>3. endpoint' = [endpoint EXCEPT ![u] = e]
  BY <1>1
<1> QED BY <1>2, <1>3

\* A sender's step leaves the others within bounds.
LEMMA OneSenderBound ==
    ASSUME DeliveryInv, DeliveryBounds, NEW i \in Sender, NEW s, InBounds(s),
           sender' = [sender EXCEPT ![i] = s]
    PROVE  \A j \in Sender : InBounds(sender'[j])
BY DEF DeliveryInv, SendersInv, DeliveryBounds

\* A link refreshed, stored or forgotten is a token the provider has issued.
LEMMA LinksBound ==
    ASSUME DeliveryInv, DeliveryBounds,
           NEW u \in Linked, NEW i \in Sender,
           ReadsLink(i, u) \/ Refreshes(i, u) \/ RefreshFails(i, u) \/ StoresLink(i, u) \/ StoreFails(i, u)
    PROVE  DeliveryBounds'
<1>1. sender[i] \in SenderState /\ InBounds(sender[i])
  BY DEF DeliveryInv, SendersInv, DeliveryBounds
<1>2. /\ sender \in [Sender -> SenderState]
      /\ link \in [Linked -> 0 .. LastToken] /\ issued \in [Linked -> 0 .. LastToken]
  BY DEF DeliveryInv, SendersInv, DeliveryBounds, TokensInv
<1>3. UNCHANGED <<notify, phoneVars>>
  BY DEF ReadsLink, Refreshes, RefreshFails, StoresLink, StoreFails, homeVars
<1>4. \A j \in Sender : InBounds(sender'[j])
  <2>1. CASE Forward(i, u, "link")
    <3>1. PICK s : s = [sender[i] EXCEPT !.at = "fan", !.todo = @ \ {<<u, "link">>}, !.arns = {}, !.token = 0]
      OBVIOUS
    <3>2. InBounds(s)
      BY <1>1, <3>1, DeliveryConstants DEF InBounds, SenderState
    <3>3. sender' = [sender EXCEPT ![i] = s]
      BY <1>1, <1>2, <2>1, <3>1 DEF Forward, SenderState, Moment
    <3> QED BY <3>2, <3>3, OneSenderBound
  <2>2. CASE ReadsLink(i, u) /\ sender' = [sender EXCEPT ![i].at = "refresh", ![i].token = link[u]]
    <3>1. PICK s : s = [sender[i] EXCEPT !.at = "refresh", !.token = link[u]]
      OBVIOUS
    <3>2. InBounds(s)
      BY <1>1, <1>2, <3>1 DEF InBounds, SenderState
    <3>3. sender' = [sender EXCEPT ![i] = s]
      BY <1>1, <1>2, <2>2, <3>1 DEF SenderState, Moment
    <3> QED BY <3>2, <3>3, OneSenderBound
  <2>3. CASE Refreshes(i, u)
    <3>1. PICK t \in 0 .. LastToken : sender' = [sender EXCEPT ![i].at = "store", ![i].token = t]
      BY <1>1, <1>2, <2>3, DeliveryConstants DEF Refreshes, Kept, InBounds
    <3>2. PICK s : s = [sender[i] EXCEPT !.at = "store", !.token = t]
      OBVIOUS
    <3>3. InBounds(s)
      BY <1>1, <3>1, <3>2 DEF InBounds, SenderState
    <3>4. sender' = [sender EXCEPT ![i] = s]
      BY <1>1, <1>2, <3>1, <3>2 DEF SenderState, Moment
    <3> QED BY <3>3, <3>4, OneSenderBound
  <2> QED BY <2>1, <2>2, <2>3 DEF ReadsLink, RefreshFails, StoresLink, StoreFails
<1>5. issued' \in [Linked -> 0 .. LastToken] /\ accepted' \in [Linked -> SUBSET Arn]
  <2>1. CASE Refreshes(i, u) /\ notify = "rotating"
    <3>1. PICK n : n = issued[u] + 1
      OBVIOUS
    <3>2. n \in Arn /\ n \in 0 .. LastToken
      BY <1>2, <2>1, <3>1, DeliveryConstants DEF Refreshes, Arn
    <3>3. issued' = [issued EXCEPT ![u] = n]
      BY <2>1, <3>1 DEF Refreshes
    <3>4. issued' \in [Linked -> 0 .. LastToken] /\ issued'[u] = n
      BY <1>2, <3>2, <3>3
    <3>5. accepted' = [accepted EXCEPT ![u] = (accepted[u] \ {sender[i].token}) \union {n}]
      BY <2>1, <3>4 DEF Refreshes
    <3> QED BY <3>2, <3>4, <3>5 DEF DeliveryBounds
  <2>2. CASE UNCHANGED <<issued, accepted>>
    BY <1>2, <2>2 DEF DeliveryBounds
  <2> QED BY <2>1, <2>2 DEF ReadsLink, Refreshes, RefreshFails, StoresLink, StoreFails, linkVars
<1>6. link' \in [Linked -> 0 .. LastToken] /\ stale' \in [Linked -> BOOLEAN]
  BY <1>1, <1>2 DEF ReadsLink, Refreshes, RefreshFails, StoresLink, StoreFails, linkVars,
     DeliveryBounds, InBounds
<1> QED BY <1>3, <1>4, <1>5, <1>6 DEF DeliveryBounds, phoneVars

\* Phones published to, cleaned up and forgotten are endpoints made.
LEMMA PhonesBound ==
    ASSUME DeliveryInv, DeliveryBounds, NEW u \in Phoned, NEW i \in Sender,
           \/ ListsPhones(i, u) \/ PhonesDone(i, u) \/ DeletesEndpoint(i, u) \/ ForgetsPhone(i, u)
           \/ \E a \in Arn : PublishesTo(i, u, a)
    PROVE  DeliveryBounds'
<1>1. sender[i] \in SenderState /\ InBounds(sender[i])
  BY DEF DeliveryInv, SendersInv, DeliveryBounds
<1>2. sender \in [Sender -> SenderState] /\ phoneRows \in [Phoned -> SUBSET Arn]
  BY DEF DeliveryInv, SendersInv, DeliveryBounds, TokensInv
<1>3. UNCHANGED <<notify, linkVars, appCall>>
  BY DEF ListsPhones, PhonesDone, DeletesEndpoint, ForgetsPhone, PublishesTo, homeVars, phoneVars
<1>4. phoneRows' \in [Phoned -> SUBSET Arn]
  BY <1>2 DEF ListsPhones, PhonesDone, DeletesEndpoint, ForgetsPhone, PublishesTo, phoneVars
<1>5. endpoint' \in [Phoned -> [Arn -> Phase]]
  <2>1. CASE UNCHANGED endpoint
    BY <2>1 DEF DeliveryBounds
  <2>2. CASE DeletesEndpoint(i, u)
    BY <2>2, EndpointTyped DEF DeletesEndpoint, DeliveryBounds, Phase
  <2> QED BY <2>1, <2>2 DEF ListsPhones, PhonesDone, DeletesEndpoint, ForgetsPhone, PublishesTo, phoneVars
<1>6. \A j \in Sender : InBounds(sender'[j])
  <2>1. CASE ListsPhones(i, u)
    <3>1. PICK s : s = [sender[i] EXCEPT !.arns = phoneRows[u],
                           !.at = IF phoneRows[u] = {} THEN "pushed" ELSE "publish"]
      OBVIOUS
    <3>2. InBounds(s)
      BY <1>1, <1>2, <3>1 DEF InBounds, SenderState
    <3>3. sender' = [sender EXCEPT ![i] = s]
      BY <1>1, <1>2, <2>1, <3>1 DEF ListsPhones, SenderState, Moment
    <3> QED BY <3>2, <3>3, OneSenderBound
  <2>2. CASE Forward(i, u, "push")
    <3>1. PICK s : s = [sender[i] EXCEPT !.at = "fan", !.todo = @ \ {<<u, "push">>}, !.arns = {}, !.token = 0]
      OBVIOUS
    <3>2. InBounds(s)
      BY <1>1, <3>1, DeliveryConstants DEF InBounds, SenderState
    <3>3. sender' = [sender EXCEPT ![i] = s]
      BY <1>1, <1>2, <2>2, <3>1 DEF Forward, SenderState, Moment
    <3> QED BY <3>2, <3>3, OneSenderBound
  <2>3. CASE DeletesEndpoint(i, u)
    <3>1. PICK s : s = [sender[i] EXCEPT !.at = "forget"]
      OBVIOUS
    <3>2. InBounds(s)
      BY <1>1, <3>1 DEF InBounds, SenderState
    <3>3. sender' = [sender EXCEPT ![i] = s]
      BY <1>1, <1>2, <2>3, <3>1 DEF DeletesEndpoint, SenderAt, SenderState, Moment
    <3> QED BY <3>2, <3>3, OneSenderBound
  <2>4. ASSUME NEW a, NextArn(i, a)
        PROVE  \A j \in Sender : InBounds(sender'[j])
    <3>1. PICK s : s = IF sender[i].arns = {a}
                       THEN [sender[i] EXCEPT !.at = "pushed", !.arns = {}, !.token = 0]
                       ELSE [sender[i] EXCEPT !.at = "publish", !.arns = @ \ {a}, !.token = 0]
      OBVIOUS
    <3>2. InBounds(s)
      BY <1>1, <3>1, DeliveryConstants DEF InBounds, SenderState
    <3>3. sender' = [sender EXCEPT ![i] = s]
      BY <1>1, <1>2, <2>4, <3>1 DEF NextArn, SenderState, Moment
    <3> QED BY <3>2, <3>3, OneSenderBound
  <2>5. ASSUME NEW a \in Arn, sender' = [sender EXCEPT ![i].at = "clean", ![i].token = a]
        PROVE  \A j \in Sender : InBounds(sender'[j])
    <3>1. PICK s : s = [sender[i] EXCEPT !.at = "clean", !.token = a]
      OBVIOUS
    <3>2. a \in 0 .. LastToken
      BY DEF Arn
    <3>3. InBounds(s)
      BY <1>1, <3>1, <3>2 DEF InBounds, SenderState
    <3>4. sender' = [sender EXCEPT ![i] = s]
      BY <1>1, <1>2, <2>5, <3>1 DEF SenderState, Moment
    <3> QED BY <3>3, <3>4, OneSenderBound
  <2>6. CASE ForgetsPhone(i, u)
    BY <2>4, <2>6 DEF ForgetsPhone
  <2>7. ASSUME NEW a \in Arn, PublishesTo(i, u, a)
        PROVE  \A j \in Sender : InBounds(sender'[j])
    BY <2>4, <2>5, <2>7 DEF PublishesTo
  <2> QED BY <2>1, <2>2, <2>3, <2>6, <2>7 DEF PhonesDone
<1> QED BY <1>2, <1>3, <1>4, <1>5, <1>6 DEF DeliveryBounds, linkVars

\* Providers, clients, phones and what they register.
LEMMA OthersBound ==
    ASSUME DeliveryInv, DeliveryBounds,
           \/ \E u \in Linked : Expires(u) \/ Grants(u) \/ Unlinks(u)
           \/ \E u \in Phoned : PutsPhone(u) \/ DeletesPhone(u)
           \/ \E u \in Phoned, a \in Arn : Registers(u, a) \/ Unregisters(u, a) \/ Disables(u, a)
    PROVE  DeliveryBounds'
<1>1. UNCHANGED <<notify, sender>>
  BY DEF Expires, Grants, Unlinks, PutsPhone, DeletesPhone, Registers, Unregisters, Disables, homeVars
<1>2. \A j \in Sender : InBounds(sender'[j])
  BY <1>1 DEF DeliveryBounds
<1>3. /\ link \in [Linked -> 0 .. LastToken] /\ issued \in [Linked -> 0 .. LastToken]
      /\ phoneRows \in [Phoned -> SUBSET Arn]
      /\ DOMAIN appCall = Phoned
  BY DEF DeliveryInv, TokensInv, DeliveryBounds
<1>4. ASSUME NEW u \in Linked, Expires(u) \/ Grants(u) \/ Unlinks(u) PROVE DeliveryBounds'
  <2>1. /\ link' \in [Linked -> 0 .. LastToken] /\ issued' \in [Linked -> 0 .. LastToken]
        /\ stale' \in [Linked -> BOOLEAN]
    <3>1. CASE Grants(u)
      <4>1. issued' \in [Linked -> 0 .. LastToken] /\ issued'[u] \in 0 .. LastToken
        BY <1>3, <3>1, DeliveryConstants DEF Grants
      <4> QED BY <1>3, <3>1, <4>1 DEF Grants, DeliveryBounds
    <3>2. CASE Expires(u)
      <4>1. link' = link /\ issued' = issued /\ stale' = [stale EXCEPT ![u] = TRUE]
        BY <3>2 DEF Expires
      <4> QED BY <1>3, <4>1 DEF DeliveryBounds
    <3>4. CASE Unlinks(u)
      <4>1. link' = [link EXCEPT ![u] = 0] /\ issued' = issued
            /\ stale' = [stale EXCEPT ![u] = FALSE]
        BY <3>4 DEF Unlinks
      <4>2. 0 \in 0 .. LastToken
        BY DeliveryConstants
      <4> QED BY <1>3, <4>1, <4>2 DEF DeliveryBounds
    <3> QED BY <1>4, <3>1, <3>2, <3>4
  <2>2. accepted' \in [Linked -> SUBSET Arn]
    <3>1. CASE Grants(u)
      <4>1. issued'[u] \in Arn
        BY <1>3, <3>1, DeliveryConstants DEF Grants, Arn
      <4> QED BY <3>1, <4>1 DEF Grants, DeliveryBounds
    <3> QED BY <1>4, <3>1 DEF Expires, Unlinks, DeliveryBounds
  <2>3. UNCHANGED phoneVars
    BY <1>4 DEF Expires, Grants, Unlinks
  <2> QED BY <1>1, <1>2, <2>1, <2>2, <2>3 DEF DeliveryBounds, phoneVars
<1>5. ASSUME NEW u \in Phoned, PutsPhone(u) \/ DeletesPhone(u) PROVE DeliveryBounds'
  <2>1. phoneRows' \in [Phoned -> SUBSET Arn]
    <3>1. phoneRows[u] \subseteq Arn /\ (appCall[u].op = "put" => appCall[u].arn \in Arn)
      BY DEF DeliveryBounds
    <3>2. PICK R \in SUBSET Arn : phoneRows' = [phoneRows EXCEPT ![u] = R]
      BY <1>5, <3>1 DEF PutsPhone, DeletesPhone
    <3> QED BY <1>3, <3>2
  <2>2. UNCHANGED <<linkVars, endpoint>> /\ appCall' = [appCall EXCEPT ![u] = NoCall]
    BY <1>5 DEF PutsPhone, DeletesPhone
  <2>3. NoCall.arn \in 0 .. LastToken /\ NoCall.op # "put"
    BY DeliveryConstants DEF NoCall
  <2>4. \A v \in Phoned : /\ appCall'[v].arn \in 0 .. LastToken
                          /\ appCall'[v].op = "put" => appCall'[v].arn \in Arn
    BY <1>3, <2>2, <2>3 DEF DeliveryBounds
  <2> QED BY <1>1, <1>2, <2>1, <2>2, <2>4 DEF DeliveryBounds, linkVars
<1>6. ASSUME NEW u \in Phoned, NEW a \in Arn, Registers(u, a) \/ Unregisters(u, a) \/ Disables(u, a)
      PROVE  DeliveryBounds'
  <2>1. PICK p \in Phase : endpoint' = [endpoint EXCEPT ![u][a] = p]
    <3>1. endpoint[u][a] \in Phase
      BY DEF DeliveryBounds
    <3>2. "live" \in Phase /\ "gone" \in Phase /\ "disabled" \in Phase
      BY DEF Phase
    <3>3. CASE Registers(u, a)
      <4>1. endpoint' = [endpoint EXCEPT ![u][a] = IF endpoint[u][a] = "unmade" THEN "live" ELSE endpoint[u][a]]
        BY <3>3 DEF Registers
      <4> QED BY <3>1, <3>2, <4>1
    <3> QED BY <1>6, <3>2, <3>3 DEF Unregisters, Disables
  <2>2. endpoint' \in [Phoned -> [Arn -> Phase]]
    BY <2>1, EndpointTyped DEF DeliveryBounds
  <2>3. a \in 0 .. LastToken
    BY DEF Arn
  <2>4. \A v \in Phoned : /\ appCall'[v].arn \in 0 .. LastToken
                          /\ appCall'[v].op = "put" => appCall'[v].arn \in Arn
    <3>1. CASE UNCHANGED appCall
      BY <3>1 DEF DeliveryBounds
    <3>2. ASSUME NEW op, appCall' = [appCall EXCEPT ![u] = [op |-> op, arn |-> a]]
          PROVE  \A v \in Phoned : /\ appCall'[v].arn \in 0 .. LastToken
                                   /\ appCall'[v].op = "put" => appCall'[v].arn \in Arn
      BY <1>3, <2>3, <3>2 DEF DeliveryBounds
    <3> QED BY <1>6, <3>1, <3>2 DEF Registers, Unregisters, Disables
  <2>5. UNCHANGED <<linkVars, phoneRows>>
    BY <1>6 DEF Registers, Unregisters, Disables
  <2> QED BY <1>1, <1>2, <2>2, <2>4, <2>5 DEF DeliveryBounds, linkVars
<1> QED BY <1>4, <1>5, <1>6

\* Senders receive, are aligned, list users and return; nodes move and report.
LEMMA HandlersBound ==
    ASSUME DeliveryInv, DeliveryBounds,
           \/ \E g \in Room : NodeMoves(g) \/ (\E e \in Report : NodeReports(e, g))
           \/ \E i \in Sender : \/ \E e \in Report : Receives(i, e)
                               \/ Aligns(i) \/ Returns(i)
                               \/ \E users \in SUBSET Reader : ListsUsers(i, users)
    PROVE  DeliveryBounds'
<1>1. UNCHANGED <<notify, linkVars, phoneVars>>
  BY DEF NodeMoves, NodeReports, Receives, Aligns, Returns, ListsUsers, homeVars
<1>2. CASE UNCHANGED sender
  BY <1>1, <1>2 DEF DeliveryBounds, linkVars, phoneVars
<1>3. ASSUME NEW i \in Sender,
             \/ \E e \in Report : Receives(i, e)
             \/ Aligns(i) \/ Returns(i) \/ \E users \in SUBSET Reader : ListsUsers(i, users)
      PROVE  DeliveryBounds'
  <2>1. sender[i] \in SenderState /\ InBounds(sender[i]) /\ sender \in [Sender -> SenderState]
    BY DEF DeliveryInv, SendersInv, DeliveryBounds
  <2>2. InBounds(IdleSender)
    BY DeliveryConstants DEF InBounds, IdleSender
  <2>3. PICK s : InBounds(s) /\ sender' = [sender EXCEPT ![i] = s]
    <3>1. ASSUME NEW e, Receives(i, e)
          PROVE  \E s : InBounds(s) /\ sender' = [sender EXCEPT ![i] = s]
      <4>1. PICK s : s = [IdleSender EXCEPT !.at = "align", !.report = e]
        OBVIOUS
      <4>2. InBounds(s)
        BY <2>2, <4>1 DEF InBounds, IdleSender
      <4> QED BY <3>1, <4>1, <4>2 DEF Receives
    <3>2. CASE sender' = [sender EXCEPT ![i] = IdleSender]
      BY <2>2, <3>2
    <3>3. CASE SenderAt(i, "list")
      <4>1. PICK s : s = [sender[i] EXCEPT !.at = "list"]
        OBVIOUS
      <4>2. InBounds(s)
        BY <2>1, <4>1 DEF InBounds, SenderState
      <4>3. sender' = [sender EXCEPT ![i] = s]
        BY <2>1, <3>3, <4>1 DEF SenderAt, SenderState, Moment
      <4> QED BY <4>2, <4>3
    <3>4. ASSUME NEW users, ListsUsers(i, users)
          PROVE  \E s : InBounds(s) /\ sender' = [sender EXCEPT ![i] = s]
      <4>1. PICK todo : sender' = [sender EXCEPT ![i].at = "fan", ![i].todo = todo]
        BY <3>4 DEF ListsUsers
      <4>2. PICK s : s = [sender[i] EXCEPT !.at = "fan", !.todo = todo]
        OBVIOUS
      <4>3. InBounds(s)
        BY <2>1, <4>2 DEF InBounds, SenderState
      <4>4. sender' = [sender EXCEPT ![i] = s]
        BY <2>1, <4>1, <4>2 DEF SenderState, Moment
      <4> QED BY <4>3, <4>4
    <3> QED BY <1>3, <3>1, <3>2, <3>3, <3>4 DEF Aligns, Returns
  <2>4. \A j \in Sender : InBounds(sender'[j])
    BY <2>3, OneSenderBound
  <2> QED BY <1>1, <2>4 DEF DeliveryBounds, linkVars, phoneVars
<1> QED BY <1>2, <1>3 DEF NodeMoves, NodeReports

\* A sender's state is of the type the model declares.
LEMMA SenderIsTyped ==
    ASSUME NEW s \in SenderState, InBounds(s)
    PROVE  s \in [at : {"idle", "align", "list", "fan", "refresh", "store", "publish",
                        "clean", "forget", "pushed"},
                  report : Report \union {"none"},
                  todo : SUBSET (Reader \X {"link", "push"}),
                  arns : SUBSET Arn, token : 0 .. LastToken]
<1>1. s = [at |-> s.at, report |-> s.report, todo |-> s.todo, arns |-> s.arns, token |-> s.token]
  BY DEF SenderState
<1>2. /\ s.at \in Moment /\ s.report \in Report \union {"none"} /\ s.todo \in SUBSET Errand
      /\ s.arns \in SUBSET Arn /\ s.token \in 0 .. LastToken
  BY DEF SenderState, InBounds
<1> QED BY <1>1, <1>2 DEF Moment, Errand

\* Every variable of the delivery of notifications has its type: tokens and
\* endpoints are among those issued.
LEMMA DeliveryTyped == DeliverySpec => []DeliveryTypeOK
<1>1. DeliveryInit => DeliveryBounds
  BY DeliveryConstants DEF DeliveryInit, DeliveryBounds, InBounds, IdleSender, NoCall, Phase
<1>2. DeliveryInv /\ DeliveryBounds /\ [DeliveryNext]_deliveryVars => DeliveryBounds'
  <2>1. DeliveryBounds /\ UNCHANGED deliveryVars => DeliveryBounds'
    BY DEF DeliveryBounds, deliveryVars
  <2> QED BY <2>1, LinksBound, PhonesBound, OthersBound, HandlersBound DEF DeliveryNext
<1>3. DeliveryInv /\ DeliveryBounds => DeliveryTypeOK
  <2> SUFFICES ASSUME DeliveryInv, DeliveryBounds PROVE DeliveryTypeOK
    OBVIOUS
  <2>1. /\ sender \in [Sender -> SenderState] /\ \A i \in Sender : InBounds(sender[i])
    BY DEF DeliveryInv, SendersInv, DeliveryBounds
  <2>2. sender \in [Sender -> [at : {"idle", "align", "list", "fan", "refresh", "store", "publish",
                                    "clean", "forget", "pushed"},
                              report : Report \union {"none"},
                              todo : SUBSET (Reader \X {"link", "push"}),
                              arns : SUBSET Arn, token : 0 .. LastToken]]
    BY <2>1, SenderIsTyped, Zenon
  <2>3. appCall \in [Phoned -> [op : {"none", "put", "delete"}, arn : 0 .. LastToken]]
    BY DEF DeliveryInv, TokensInv, DeliveryBounds
  <2>4. told \subseteq Report
    BY DEF DeliveryInv, ToldInv, Reported
  <2>5. /\ link \in [Linked -> 0 .. LastToken] /\ issued \in [Linked -> 0 .. LastToken]
        /\ phoneRows \in [Phoned -> SUBSET Arn] /\ stale \in [Linked -> BOOLEAN]
        /\ accepted \in [Linked -> SUBSET (1 .. LastToken)]
        /\ endpoint \in [Phoned -> [Arn -> {"unmade", "live", "disabled", "gone"}]]
    BY DEF DeliveryInv, TokensInv, DeliveryBounds, Phase, Arn
  <2> QED BY <2>2, <2>3, <2>4, <2>5 DEF DeliveryTypeOK, DeliveryInv, RoomsInv, DeliveryBounds
<1> QED BY <1>1, <1>2, <1>3, DeliveryAlways, PTL DEF DeliverySpec

----------------------------------------------------------------------------
(* Automations: the triggers an automation holds for true, in the row and  *)
(* in every copy of it an invocation has read, were reported by their own  *)
(* nodes.                                                                  *)

RowShape(row) ==
    row.exists => row = [exists |-> TRUE, payload |-> row.payload, state |-> row.state]

TrueRow(row) == row.exists => row.state.true \subseteq everTrue

ReportedInv == \A r \in reports : r.value /\ Believed(r) => r.id \in everTrue

EngineInv ==
    \A i \in Engine : engine[i].at = "merge" =>
        /\ TrueRow(engine[i].row) /\ engine[i].row.exists
        /\ engine[i].report.value => engine[i].report.id \in everTrue

AutoInv ==
    /\ DOMAIN engine = Engine
    /\ RowShape(auto)
    /\ TrueRow(auto) /\ ReportedInv /\ EngineInv /\ ActsOnOwnReports

\* What is reported is so for good, and rows are seeded with nothing reported.
LEMMA ClientsStep ==
    ASSUME AutoInv,
           \/ \E payload \in Payload : ChecksPut(payload)
           \/ Puts \/ Deletes \/ CleanWrites
           \/ \E n \in AutoNode : Leaves(n) \/ CleanReads(n)
    PROVE  AutoInv'
<1>1. UNCHANGED <<reports, engine, everTrue>> /\ acted' = NoAction
  BY DEF ChecksPut, Puts, Deletes, CleanWrites, Leaves, CleanReads, NothingDone
<1>2. ReportedInv' /\ EngineInv' /\ ActsOnOwnReports'
  BY <1>1
     DEF AutoInv, ReportedInv, EngineInv, TrueRow, Believed, ActsOnOwnReports, NoAction
<1>3. \A payload : Seeded(payload).exists /\ Seeded(payload).state.true = {}
  BY DEF Seeded
<1>4. auto' = auto \/ auto' = NoRow \/ \E payload : auto' = Seeded(payload)
  BY DEF ChecksPut, Puts, Deletes, CleanWrites, Cleaned, Leaves, CleanReads
<1>5. TrueRow(auto)'
  BY <1>1, <1>3, <1>4 DEF AutoInv, TrueRow, NoRow
<1>6. RowShape(auto)'
  BY <1>4 DEF AutoInv, NoRow, Seeded, RowShape
<1> QED BY <1>1, <1>2, <1>5, <1>6 DEF AutoInv

\* A report that is believed is its node's own.
LEMMA TriggersStep ==
    ASSUME AutoInv, NEW n \in AutoNode, NEW trigger \in AutoNode, NEW value \in BOOLEAN,
           Triggers(n, trigger, value)
    PROVE  AutoInv'
<1>1. everTrue \subseteq everTrue' /\ UNCHANGED <<auto, engine>> /\ acted' = NoAction
  BY DEF Triggers, NothingDone
<1>2. n = trigger /\ value => trigger \in everTrue'
  BY DEF Triggers
<1>3. ReportedInv'
  BY <1>1, <1>2 DEF Triggers, AutoInv, ReportedInv, Believed
<1>4. EngineInv' /\ TrueRow(auto)' /\ ActsOnOwnReports'
  BY <1>1 DEF AutoInv, EngineInv, TrueRow, ActsOnOwnReports, NoAction
<1> QED BY <1>1, <1>3, <1>4 DEF AutoInv

\* An invocation merges a report it believed into the row it read.
LEMMA EngineStep ==
    ASSUME AutoInv, NEW i \in Engine,
           EngineMerges(i) \/ \E r \in reports : EngineReads(i, r)
    PROVE  AutoInv'
<1>1. CASE \E r \in reports : EngineReads(i, r)
  <2>1. PICK r \in reports : EngineReads(i, r)
    BY <1>1
  <2>2. engine' = [engine EXCEPT ![i] =
            IF Believed(r) /\ auto.exists THEN [at |-> "merge", row |-> auto, report |-> r] ELSE @]
        /\ UNCHANGED <<auto, everTrue>> /\ reports' \subseteq reports /\ acted' = NoAction
    BY <2>1 DEF EngineReads, NothingDone
  <2>3. EngineInv'
    <3> SUFFICES ASSUME NEW j \in Engine, engine'[j].at = "merge"
                 PROVE  /\ TrueRow(engine[j].row)' /\ engine'[j].row.exists
                        /\ engine'[j].report.value => engine'[j].report.id \in everTrue
      BY <2>2 DEF EngineInv
    <3>1. CASE j = i /\ Believed(r) /\ auto.exists
      <4>1. engine'[j] = [at |-> "merge", row |-> auto, report |-> r]
        BY <2>2, <3>1 DEF AutoInv
      <4> QED BY <2>1, <2>2, <3>1, <4>1 DEF AutoInv, ReportedInv, TrueRow
    <3>2. CASE ~(j = i /\ Believed(r) /\ auto.exists)
      <4>1. engine'[j] = engine[j]
        BY <2>2, <3>2 DEF AutoInv
      <4> QED BY <2>2, <4>1 DEF AutoInv, EngineInv, TrueRow
    <3> QED BY <3>1, <3>2
  <2>4. ReportedInv' /\ TrueRow(auto)' /\ RowShape(auto)' /\ ActsOnOwnReports' /\ DOMAIN engine' = Engine
    BY <2>2 DEF AutoInv, ReportedInv, Believed, TrueRow, RowShape, ActsOnOwnReports,
       NoAction
  <2> QED BY <2>3, <2>4 DEF AutoInv
<1>2. CASE EngineMerges(i)
  <2> DEFINE e == engine[i]
             state == Merged(e.row.state, e.report)
  <2>1. /\ e.at = "merge" /\ UNCHANGED <<reports, everTrue>>
        /\ engine' = [engine EXCEPT ![i] = [at |-> "idle"]]
    BY <1>2 DEF EngineMerges
  <2>2. e.row.state.true \subseteq everTrue /\ (e.report.value => e.report.id \in everTrue)
    BY <2>1 DEF AutoInv, EngineInv, TrueRow
  <2>3. state.true \subseteq everTrue
    BY <2>2 DEF Merged
  <2>4. EngineInv' /\ ReportedInv' /\ DOMAIN engine' = Engine
    BY <2>1 DEF AutoInv, EngineInv, ReportedInv, Believed, TrueRow
  <2>5. auto' = auto \/ auto' = [auto EXCEPT !.state = state]
    BY <1>2 DEF EngineMerges
  <2>6. \/ acted' = NoAction
        \/ /\ EvaluateConditions(state.conditions, state.true)
           /\ acted' = [happened |-> TRUE, conditions |-> state.conditions,
                        targets |-> Reachable(e.row.payload.targets), true |-> state.true]
    BY <1>2 DEF EngineMerges
  <2> HIDE DEF state
  <2>7. TrueRow(auto)' /\ RowShape(auto)'
    <3>1. CASE auto.exists
      <4>1. auto = [exists |-> TRUE, payload |-> auto.payload, state |-> auto.state]
        BY <3>1 DEF AutoInv, RowShape
      <4>2. auto' = auto \/ auto' = [exists |-> TRUE, payload |-> auto.payload, state |-> state]
        BY <2>5, <4>1
      <4> QED BY <2>1, <2>3, <4>1, <4>2 DEF AutoInv, TrueRow, RowShape
    <3>2. CASE ~auto.exists
      BY <1>2, <2>1, <3>2 DEF EngineMerges, TrueRow, RowShape, AutoInv
    <3> QED BY <3>1, <3>2
  <2>8. ActsOnOwnReports'
    BY <2>1, <2>3, <2>6 DEF ActsOnOwnReports, NoAction, EvaluateConditions
  <2> QED BY <2>4, <2>7, <2>8 DEF AutoInv
<1> QED BY <1>1, <1>2

\* An automation acts only when its conditions hold of triggers their own
\* nodes reported, however many invocations hold the row they read, clients
\* write it over, and nodes leave.
THEOREM ActsOnWhatNodesSay == AutoSpec => []ActsOnOwnReports
<1>1. AutoInit => AutoInv
  BY
     DEF AutoInit, AutoInv, RowShape, TrueRow, ReportedInv, EngineInv,
         ActsOnOwnReports, NoRow, NoAction
<1>2. AutoInv /\ [AutoNext]_autoVars => AutoInv'
  <2>1. AutoInv /\ UNCHANGED autoVars => AutoInv'
    BY
       DEF autoVars, AutoInv, RowShape, TrueRow, ReportedInv, EngineInv, Believed,
           ActsOnOwnReports,
       EvaluateConditions
  <2> QED BY <2>1, ClientsStep, TriggersStep, EngineStep DEF AutoNext
<1>3. AutoInv => ActsOnOwnReports
  BY DEF AutoInv
<1> QED BY <1>1, <1>2, <1>3, PTL DEF AutoSpec

----------------------------------------------------------------------------
(* Whom an automation names: nodes of the group, nodes whose reset is on   *)
(* its way, and the one being taken out.  A row written back by a reset    *)
(* names no others, and a reset that finds its node in no row leaves none  *)
(* that a client wrote since: the check of a write sees the node gone.     *)

Names(payload) == payload.targets \union Named(payload.conditions)

WellFormed(row) == RowShape(row) /\ (row.exists => row.payload \in Payload)

Leaving == IF cleaning.at = "clean" THEN {cleaning.node} ELSE {}

NamesInv ==
    auto.exists => Names(auto.payload) \subseteq members \union resets \union Leaving

PutInv ==
    putting.at = "checked" =>
        putting.payload \in Payload /\ Names(putting.payload) \subseteq members

CleanInv ==
    cleaning.at = "clean" =>
        /\ WellFormed(cleaning.row)
        /\ cleaning.node \notin members
        /\ cleaning.row.exists =>
              Names(cleaning.row.payload) \subseteq members \union resets \union Leaving
        /\ auto.exists /\ cleaning.node \in Names(auto.payload) =>
              cleaning.row.exists /\ cleaning.node \in Names(cleaning.row.payload)

ForgetInv ==
    /\ members \intersect resets = {}
    /\ WellFormed(auto) /\ NamesInv /\ PutInv /\ CleanInv

\* Whoever is not in the group before the reset is read stays out of the rows.
LEMMA NodesLeaveStep ==
    ASSUME ForgetInv, ChecksHold, NEW n \in AutoNode, Leaves(n) \/ CleanReads(n)
    PROVE  ForgetInv'
<1> USE DEF ForgetInv, NamesInv, PutInv, CleanInv, Leaving
<1>1. CASE Leaves(n)
  <2>1. /\ members' = members \ {n} /\ resets' = resets \union {n} /\ putting.at = "idle"
        /\ UNCHANGED <<auto, putting, cleaning>>
    BY <1>1 DEF Leaves
  <2> QED BY <2>1 DEF WellFormed, RowShape
<1>2. CASE CleanReads(n)
  <2>1. /\ resets' = resets \ {n} /\ n \in resets /\ cleaning.at = "idle"
        /\ cleaning' = [at |-> "clean", node |-> n, row |-> auto]
        /\ UNCHANGED <<auto, putting, members>>
    BY <1>2 DEF CleanReads
  <2> QED BY <2>1 DEF WellFormed, RowShape
<1> QED BY <1>1, <1>2

\* A row is written back without the node that left.
LEMMA CleanedNames ==
    ASSUME NEW row, WellFormed(row), row.exists, NEW n
    PROVE  /\ WellFormed(Cleaned(row, n))
           /\ Cleaned(row, n).exists => Names(Cleaned(row, n).payload) \subseteq Names(row.payload) \ {n}
<1> DEFINE p == row.payload
           targets == p.targets \ {n}
           rest == [p EXCEPT !.targets = targets]
<1>1. CASE n \in Named(p.conditions) \/ targets = {}
  BY <1>1 DEF Cleaned, NoRow, WellFormed, RowShape
<1>2. CASE n \notin Named(p.conditions) /\ targets # {}
  <2>1. p \in Payload
    BY DEF WellFormed
  <2>2. targets \in (SUBSET AutoNode) \ {{}}
    BY <1>2, <2>1 DEF Payload
  <2> HIDE DEF targets
  <2>3. rest \in Payload /\ rest.targets = targets /\ rest.conditions = p.conditions
    BY <2>1, <2>2 DEF Payload
  <2>4. Cleaned(row, n) = Seeded(rest)
    BY <1>2 DEF Cleaned, targets
  <2> HIDE DEF rest
  <2>5. WellFormed(Seeded(rest)) /\ Seeded(rest).payload = rest
    BY <2>3 DEF Seeded, WellFormed, RowShape
  <2> QED BY <1>2, <2>3, <2>4, <2>5 DEF Names, targets
<1> QED BY <1>1, <1>2

\* Writes and resets keep to those named by what they checked or read.
LEMMA RowsStep ==
    ASSUME ForgetInv,
           \/ \E payload \in Payload : ChecksPut(payload)
           \/ Puts \/ Deletes \/ CleanWrites
    PROVE  ForgetInv'
<1> USE DEF ForgetInv, NamesInv, PutInv, CleanInv, Leaving
<1>1. ASSUME NEW payload \in Payload, ChecksPut(payload) PROVE ForgetInv'
  <2>1. /\ Names(payload) \subseteq members /\ UNCHANGED <<auto, members, resets, cleaning>>
        /\ putting' = [at |-> "checked", payload |-> payload]
    BY <1>1 DEF ChecksPut, Names
  <2> QED BY <2>1 DEF WellFormed, RowShape
<1>2. CASE Puts
  <2>1. /\ putting.at = "checked" /\ auto' = Seeded(putting.payload)
        /\ putting' = [at |-> "idle"] /\ UNCHANGED <<members, resets, cleaning>>
    BY <1>2 DEF Puts
  <2>2. WellFormed(auto)' /\ auto'.payload = putting.payload
    BY <2>1 DEF Seeded, WellFormed, RowShape
  <2>3. cleaning.at = "clean" => cleaning.node \notin Names(auto'.payload)
    BY <2>1, <2>2
  <2> QED BY <2>1, <2>2, <2>3 DEF WellFormed, RowShape
<1>3. CASE Deletes
  BY <1>3 DEF Deletes, NoRow, WellFormed, RowShape
<1>4. CASE CleanWrites
  <2> DEFINE row == cleaning.row
             n == cleaning.node
  <2>1. /\ cleaning.at = "clean" /\ cleaning' = [at |-> "idle"]
        /\ UNCHANGED <<members, resets, putting>>
    BY <1>4 DEF CleanWrites
  <2>2. CASE row.exists /\ n \in Names(row.payload)
    <3>1. auto' = Cleaned(row, n)
      BY <1>4, <2>2 DEF CleanWrites, Names
    <3>2. WellFormed(auto)' /\ (auto'.exists => Names(auto'.payload) \subseteq Names(row.payload) \ {n})
      BY <2>1, <2>2, <3>1, CleanedNames DEF WellFormed, RowShape
    <3> QED BY <2>1, <2>2, <3>2
  <2>3. CASE ~(row.exists /\ n \in Names(row.payload))
    <3>1. auto' = auto
      BY <1>4, <2>3 DEF CleanWrites, Names
    <3> QED BY <2>1, <2>3, <3>1 DEF WellFormed, RowShape
  <2> QED BY <2>2, <2>3
<1> QED BY <1>1, <1>2, <1>3, <1>4

\* Reports change what a row holds for true, never whom it names.
LEMMA StatesStep ==
    ASSUME ForgetInv,
           \/ \E n, trigger \in AutoNode, value \in BOOLEAN : Triggers(n, trigger, value)
           \/ \E i \in Engine : EngineMerges(i) \/ \E r \in reports : EngineReads(i, r)
    PROVE  ForgetInv'
<1>1. UNCHANGED <<members, resets, putting, cleaning>>
  BY DEF Triggers, EngineMerges, EngineReads
<1>2. auto' = auto \/ (auto.exists /\ \E state : auto' = [auto EXCEPT !.state = state])
  <2>1. ASSUME NEW i \in Engine, EngineMerges(i), auto' # auto
        PROVE  auto.exists /\ \E state : auto' = [auto EXCEPT !.state = state]
    <3> DEFINE state == Merged(engine[i].row.state, engine[i].report)
    <3>1. auto.exists /\ auto' = [auto EXCEPT !.state = state]
      BY <2>1 DEF EngineMerges
    <3> HIDE DEF state
    <3> QED BY <3>1
  <2>2. (\E i \in Engine : EngineMerges(i)) \/ auto' = auto
    BY DEF Triggers, EngineReads
  <2> QED BY <2>1, <2>2, Zenon
<1>3. auto'.exists = auto.exists /\ (auto.exists => auto'.payload = auto.payload) /\ WellFormed(auto)'
  <2>1. CASE auto' = auto
    BY <2>1 DEF ForgetInv, WellFormed, RowShape
  <2>2. ASSUME auto.exists, NEW state, auto' = [auto EXCEPT !.state = state]
        PROVE  auto'.exists /\ auto'.payload = auto.payload /\ WellFormed(auto)'
    <3>1. auto = [exists |-> TRUE, payload |-> auto.payload, state |-> auto.state]
      BY <2>2 DEF ForgetInv, WellFormed, RowShape
    <3>2. auto' = [exists |-> TRUE, payload |-> auto.payload, state |-> state]
      BY <2>2, <3>1
    <3> QED BY <2>2, <3>2 DEF ForgetInv, WellFormed, RowShape
  <2> QED BY <1>2, <2>1, <2>2
<1> QED BY <1>1, <1>3
   DEF ForgetInv, NamesInv, PutInv, CleanInv, Leaving, WellFormed, RowShape

\* Once the data of the nodes that left is reset no automation names one,
\* whatever clients and reports write meanwhile, as long as no node leaves
\* between a client's check and its write (RemoveNodes).
THEOREM TheLeftAreForgotten == ChecksHold => (AutoSpec => []DepartedAreForgotten)
<1> SUFFICES ASSUME ChecksHold PROVE AutoSpec => []DepartedAreForgotten
  OBVIOUS
<1>1. AutoInit => ForgetInv
  BY DEF AutoInit, ForgetInv, NamesInv, PutInv, CleanInv, WellFormed, RowShape, NoRow
<1>2. ForgetInv /\ [AutoNext]_autoVars => ForgetInv'
  <2>1. ForgetInv /\ UNCHANGED autoVars => ForgetInv'
    BY
       DEF autoVars, ForgetInv, NamesInv, PutInv, CleanInv, Leaving, WellFormed,
           RowShape
  <2> QED BY <2>1, NodesLeaveStep, RowsStep, StatesStep DEF AutoNext
<1>3. ForgetInv => DepartedAreForgotten
  BY DEF ForgetInv, NamesInv, Leaving, DepartedAreForgotten, Names
<1> QED BY <1>1, <1>2, <1>3, PTL DEF AutoSpec

----------------------------------------------------------------------------
(* Automations: types, of the row and of the copies of it that are held.   *)

ReportType == [from : AutoNode, id : AutoNode, value : BOOLEAN]
StateType == [conditions : Conditions, true : SUBSET AutoNode]

\* An invocation holds a row there was, and the report it believed.
Merging(e) == e.at = "merge" => e.row \in Row /\ e.row.exists /\ e.report \in ReportType

AutoTypes ==
    /\ members \subseteq AutoNode /\ resets \subseteq AutoNode /\ everTrue \subseteq AutoNode
    /\ auto \in Row
    /\ DOMAIN engine = Engine /\ \A i \in Engine : Merging(engine[i])
    /\ putting.at = "checked" => putting.payload \in Payload
    /\ cleaning.at = "clean" => cleaning.row \in Row
    /\ reports \subseteq ReportType
    /\ puts \in 0 .. MaxPuts /\ sent \in 0 .. MaxReports /\ left \in 0 .. MaxLeaves

\* A row there is has a payload and a state; one is seeded from a payload.
LEMMA RowsAre ==
    /\ NoRow \in Row /\ ~ NoRow.exists
    /\ \A row \in Row : row.exists =>
          /\ row = [exists |-> TRUE, payload |-> row.payload, state |-> row.state]
          /\ row.payload \in Payload /\ row.state \in StateType
    /\ \A p \in Payload, s \in StateType : [exists |-> TRUE, payload |-> p, state |-> s] \in Row
<1>1. NoRow \in Row /\ ~ NoRow.exists
  BY DEF Row, NoRow
<1>2. ASSUME NEW lit \in Row, lit.exists
      PROVE  /\ lit = [exists |-> TRUE, payload |-> lit.payload, state |-> lit.state]
             /\ lit.payload \in Payload /\ lit.state \in StateType
  <2>1. lit \in [exists : {TRUE}, payload : Payload, state : StateType]
    BY <1>1, <1>2 DEF Row, StateType
  <2> QED BY <2>1
<1>3. ASSUME NEW p \in Payload, NEW s \in StateType
      PROVE  [exists |-> TRUE, payload |-> p, state |-> s] \in Row
  <2>1. [exists |-> TRUE, payload |-> p, state |-> s]
           \in [exists : {TRUE}, payload : Payload, state : StateType]
    OBVIOUS
  <2> QED BY <2>1 DEF Row, StateType
<1> QED BY <1>1, <1>2, <1>3

LEMMA SeededIsRow == ASSUME NEW p \in Payload PROVE Seeded(p) \in Row
<1>1. p.conditions \in Conditions
  BY DEF Payload
<1>2. PICK s : s = [conditions |-> p.conditions, true |-> {}]
  OBVIOUS
<1>3. s \in StateType
  BY <1>1, <1>2 DEF StateType
<1> QED BY <1>2, <1>3, RowsAre DEF Seeded

\* A row written back by a reset is one.
LEMMA CleanedIsRow ==
    ASSUME NEW lit \in Row, lit.exists, NEW n
    PROVE  Cleaned(lit, n) \in Row
<1> DEFINE p == lit.payload
           targets == p.targets \ {n}
<1>1. CASE n \in Named(p.conditions) \/ targets = {}
  BY <1>1, RowsAre DEF Cleaned
<1>2. CASE n \notin Named(p.conditions) /\ targets # {}
  <2>1. p \in Payload
    BY RowsAre
  <2>2. targets \in (SUBSET AutoNode) \ {{}}
    BY <1>2, <2>1 DEF Payload
  <2>3. Cleaned(lit, n) = Seeded([p EXCEPT !.targets = targets])
    BY <1>2 DEF Cleaned
  <2> HIDE DEF targets
  <2>4. [p EXCEPT !.targets = targets] \in Payload
    BY <2>1, <2>2 DEF Payload
  <2> QED BY <2>3, <2>4, SeededIsRow
<1> QED BY <1>1, <1>2

\* What is merged is a state, and the row with it a row.
LEMMA MergedIsRow ==
    ASSUME NEW lit \in Row, lit.exists, NEW held \in Row, held.exists,
           NEW said \in ReportType
    PROVE  [lit EXCEPT !.state = Merged(held.state, said)] \in Row
<1>1. held.state \in StateType /\ said.id \in AutoNode
  BY RowsAre DEF ReportType
<1>2. PICK s : s = Merged(held.state, said)
  OBVIOUS
<1>3. s \in StateType
  <2>1. PICK t : t = IF said.value THEN held.state.true \union {said.id}
                     ELSE held.state.true \ {said.id}
    OBVIOUS
  <2>2. s = [held.state EXCEPT !.true = t]
    BY <1>2, <2>1 DEF Merged
  <2>3. t \in SUBSET AutoNode
    BY <1>1, <2>1 DEF StateType
  <2> QED BY <1>1, <2>2, <2>3 DEF StateType
<1>4. lit \in [exists : {TRUE}, payload : Payload, state : StateType]
  BY RowsAre DEF Row, StateType
<1>5. [lit EXCEPT !.state = s] \in [exists : {TRUE}, payload : Payload, state : StateType]
  BY <1>3, <1>4
<1> QED BY <1>2, <1>5 DEF Row, StateType

\* Clients and resets write rows.
LEMMA ClientsTyped ==
    ASSUME AutoTypes,
           \/ \E payload \in Payload : ChecksPut(payload)
           \/ Puts \/ Deletes \/ CleanWrites
           \/ \E n \in AutoNode : Leaves(n) \/ CleanReads(n)
    PROVE  AutoTypes'
<1> USE DEF AutoTypes
<1>1. ASSUME NEW payload \in Payload, ChecksPut(payload) PROVE AutoTypes'
  <2>1. /\ puts < MaxPuts /\ puts' = puts + 1
        /\ putting' = [at |-> "checked", payload |-> payload]
        /\ UNCHANGED <<members, auto, reports, engine, resets, cleaning, everTrue, sent, left>>
    BY <1>1 DEF ChecksPut
  <2>2. puts' \in 0 .. MaxPuts
    BY <2>1, AutomationConstants
  <2> QED BY <2>1, <2>2
<1>2. CASE Puts
  <2>1. /\ putting.at = "checked" /\ auto' = Seeded(putting.payload)
        /\ putting' = [at |-> "idle"]
        /\ UNCHANGED <<members, reports, engine, resets, cleaning, everTrue, puts, sent, left>>
    BY <1>2 DEF Puts, counters
  <2>2. auto' \in Row
    BY <2>1, SeededIsRow
  <2> QED BY <2>1, <2>2
<1>3. CASE Deletes
  BY <1>3, RowsAre DEF Deletes, counters
<1>4. CASE CleanWrites
  <2>1. /\ cleaning.at = "clean" /\ cleaning' = [at |-> "idle"]
        /\ UNCHANGED <<members, reports, engine, putting, resets, everTrue, puts, sent, left>>
        /\ \/ auto' = auto
           \/ cleaning.row.exists /\ auto' = Cleaned(cleaning.row, cleaning.node)
    BY <1>4 DEF CleanWrites, counters
  <2>2. auto' \in Row
    BY <2>1, CleanedIsRow
  <2> QED BY <2>1, <2>2
<1>5. ASSUME NEW n \in AutoNode, Leaves(n) PROVE AutoTypes'
  <2>1. /\ left < MaxLeaves /\ left' = left + 1
        /\ members' = members \ {n} /\ resets' = resets \union {n}
        /\ UNCHANGED <<auto, reports, engine, putting, cleaning, everTrue, puts, sent>>
    BY <1>5 DEF Leaves
  <2>2. left' \in 0 .. MaxLeaves
    BY <2>1, AutomationConstants
  <2> QED BY <2>1, <2>2
<1>6. ASSUME NEW n \in AutoNode, CleanReads(n) PROVE AutoTypes'
  <2>1. /\ resets' = resets \ {n} /\ cleaning' = [at |-> "clean", node |-> n, row |-> auto]
        /\ UNCHANGED <<members, auto, reports, engine, putting, everTrue, puts, sent, left>>
    BY <1>6 DEF CleanReads, counters
  <2>2. cleaning'.row = auto
    BY <2>1
  <2> QED BY <2>1, <2>2
<1> QED BY <1>1, <1>2, <1>3, <1>4, <1>5, <1>6

\* Nodes report, and invocations merge what they reported.
LEMMA EngineTyped ==
    ASSUME AutoTypes,
           \/ \E n, trigger \in AutoNode, value \in BOOLEAN : Triggers(n, trigger, value)
           \/ \E i \in Engine : EngineMerges(i) \/ \E r \in reports : EngineReads(i, r)
    PROVE  AutoTypes'
<1> USE DEF AutoTypes
<1>1. ASSUME NEW n \in AutoNode, NEW trigger \in AutoNode, NEW value \in BOOLEAN,
             Triggers(n, trigger, value)
      PROVE  AutoTypes'
  <2>1. /\ sent < MaxReports /\ sent' = sent + 1
        /\ reports' = reports \union {[from |-> n, id |-> trigger, value |-> value]}
        /\ everTrue' \subseteq everTrue \union {n}
        /\ UNCHANGED <<members, auto, engine, putting, resets, cleaning, puts, left>>
    BY <1>1 DEF Triggers
  <2>2. sent' \in 0 .. MaxReports
    BY <2>1, AutomationConstants
  <2>3. [from |-> n, id |-> trigger, value |-> value] \in ReportType
    BY DEF ReportType
  <2>4. reports' \subseteq ReportType
    BY <2>1, <2>3
  <2> QED BY <2>1, <2>2, <2>4
<1>2. ASSUME NEW i \in Engine, NEW r \in reports, EngineReads(i, r) PROVE AutoTypes'
  <2>1. /\ reports' = reports \ {r} /\ r \in ReportType
        /\ UNCHANGED <<members, auto, putting, resets, cleaning, everTrue, puts, sent, left>>
    BY <1>2 DEF EngineReads, counters
  <2>2. PICK e : e = IF Believed(r) /\ auto.exists
                     THEN [at |-> "merge", row |-> auto, report |-> r] ELSE engine[i]
    OBVIOUS
  <2>3. engine' = [engine EXCEPT ![i] = e]
    BY <1>2, <2>2 DEF EngineReads
  <2>4. Merging(e)
    BY <2>1, <2>2 DEF Merging
  <2>5. DOMAIN engine' = Engine /\ \A j \in Engine : Merging(engine'[j])
    BY <2>3, <2>4
  <2> QED BY <2>1, <2>5 DEF Merging
<1>3. ASSUME NEW i \in Engine, EngineMerges(i) PROVE AutoTypes'
  <2>1. /\ engine[i].at = "merge" /\ engine' = [engine EXCEPT ![i] = [at |-> "idle"]]
        /\ UNCHANGED <<members, reports, putting, resets, cleaning, everTrue, puts, sent, left>>
    BY <1>3 DEF EngineMerges, counters
  <2>2. \/ auto' = auto
        \/ /\ auto.exists
           /\ auto' = [auto EXCEPT !.state = Merged(engine[i].row.state, engine[i].report)]
    BY <1>3 DEF EngineMerges
  <2>3. engine[i].row \in Row /\ engine[i].row.exists /\ engine[i].report \in ReportType
    BY <2>1 DEF Merging
  <2>4. auto' \in Row
    BY <2>2, <2>3, MergedIsRow
  <2>5. DOMAIN engine' = Engine /\ \A j \in Engine : Merging(engine'[j])
    BY <2>1 DEF Merging
  <2> QED BY <2>1, <2>4, <2>5
<1> QED BY <1>1, <1>2, <1>3

\* The row, the copies of it and the reports keep their types.
LEMMA AutoTyped == AutoSpec => []AutoTypeOK
<1>1. AutoInit => AutoTypes
  BY RowsAre, AutomationConstants DEF AutoInit, AutoTypes, Merging
<1>2. AutoTypes /\ [AutoNext]_autoVars => AutoTypes'
  <2>1. AutoTypes /\ UNCHANGED autoVars => AutoTypes'
    BY DEF autoVars, AutoTypes, Merging
  <2> QED BY <2>1, ClientsTyped, EngineTyped DEF AutoNext
<1>3. AutoTypes => AutoTypeOK
  BY DEF AutoTypes, AutoTypeOK, Merging, ReportType
<1> QED BY <1>1, <1>2, <1>3, PTL DEF AutoSpec

----------------------------------------------------------------------------
(* ParamChecks: what is judged and published is the repair of what was     *)
(* asked, against the configuration read.                                  *)

Fits(config, params) ==
    config.judged =>
        /\ params.q = Unasked
        /\ params.p.form \notin {"unasked", "null"} =>
           /\ config.p.type = "bool" => params.p.form = "bool"
           /\ config.p.type = "int" => params.p.form = "number" /\ params.p.num \in {0, 2, 4}
           /\ config.p.type = "string" => params.p.form \in {"digits", "word"}
           /\ params.p.form = "number" /\ config.p.bounds = <<0, 2>> => params.p.num <= 2
        /\ params.p # Unasked => config.p.writable

MeansTheSame(config, params, r) ==
    /\ params.q = r.q
    /\ SameMeaning(params.p, r.p)
    /\ ~ config.judged => params = r
    /\ config.judged /\ config.p.type \in {"string", "any"} => params = r

\* A repaired value means what it meant, and only values that a truth value or
\* an integer was declared for are repaired.
LEMMA RepairedMeansTheSame ==
    ASSUME NEW d \in Declared, NEW v \in Value
    PROVE  /\ SameMeaning(Repaired(d, v), v)
           /\ d.type \in {"string", "any"} => Repaired(d, v) = v
BY
   DEF Declared, Value, Numbers, Repaired, SameMeaning, SameTruth, SameNumber, BoolOf,
       ToNumber,
       Number, Fraction

\* A repair makes truth values, FALSE too.
Reparable == Value \union {[form |-> "bool", of |-> "false"]}
Repairs == [p : Reparable \union {Unasked}, q : {Unasked, [form |-> "bool", of |-> "true"]}]

\* A value without a violation fits.
LEMMA JudgedFits ==
    ASSUME NEW config \in Config, NEW r \in Repairs, Violations(config, r) = {}
    PROVE  Fits(config, r)
<1> SUFFICES ASSUME config.judged PROVE Fits(config, r)
  BY DEF Fits
<1>1. config.p \in Declared
  BY DEF Config
<1>2. r.p \in Reparable \union {Unasked}
  BY DEF Repairs
<1>3. r.q = Unasked
  BY DEF Violations
<1>4. CASE r.p = Unasked
  BY <1>3, <1>4 DEF Fits, Unasked
<1>5. CASE r.p # Unasked
  <2>1. config.p.writable
    BY <1>5 DEF Violations
  <2>2. r.p.form # "null" => ~TypeMismatch(config.p, r.p) /\ ~OutOfBounds(config.p, r.p)
    BY <1>5, <2>1 DEF Violations
  <2>3. r.p \in Reparable
    BY <1>2, <1>5
  <2> DEFINE d == config.p
             v == r.p
  <2> HIDE DEF d, v
  <2>4. ASSUME d \in Declared, v \in Reparable, v.form # "null",
               ~TypeMismatch(d, v), ~OutOfBounds(d, v)
        PROVE  /\ d.type = "bool" => v.form = "bool"
               /\ d.type = "int" => v.form = "number" /\ v.num \in {0, 2, 4}
               /\ d.type = "string" => v.form \in {"digits", "word"}
               /\ v.form = "number" /\ d.bounds = <<0, 2>> => v.num <= 2
    <3>1. d.type = "bool" => v.form = "bool"
      BY <2>4 DEF TypeMismatch
    <3>2. d.type = "string" => v.form \in {"digits", "word"}
      BY <2>4 DEF TypeMismatch
    <3>3. v.form = "number" => v.num \in {0, 1, 2, 4}
      BY <2>4 DEF Reparable, Value, Numbers
    <3>4. d.type = "int" => v.form = "number" /\ v.num \in {0, 2, 4}
      BY <2>4, <3>3 DEF TypeMismatch, Number, Fraction
    <3>5. v.form = "number" /\ d.bounds = <<0, 2>> => v.num <= 2
      BY <2>4, <3>3 DEF OutOfBounds, Number, Usable
    <3> QED BY <3>1, <3>2, <3>4, <3>5
  <2> USE DEF d, v
  <2> QED BY <1>1, <1>3, <2>1, <2>2, <2>3, <2>4 DEF Fits
<1> QED BY <1>4, <1>5

\* A repair means what was asked.
LEMMA RepairMeansTheSame ==
    ASSUME NEW config \in Config, NEW r \in Request
    PROVE  Repair(config, r) \in Repairs /\ MeansTheSame(config, Repair(config, r), r)
<1>1. CASE ~config.judged \/ r.p = Unasked
  BY <1>1 DEF Repair, Repairs, Reparable, Request, MeansTheSame, SameMeaning
<1>2. CASE config.judged /\ r.p # Unasked
  <2>1. config.p \in Declared
    BY <1>2 DEF Config
  <2>2. r.p \in Value
    BY <1>2 DEF Request
  <2>3. r = [p |-> r.p, q |-> r.q]
    BY DEF Request
  <2>4. Repair(config, r) = [p |-> Repaired(config.p, r.p), q |-> r.q]
    BY <1>2, <2>3 DEF Repair
  <2>5. Repaired(config.p, r.p) \in Reparable
    <3> DEFINE d == config.p
               v == r.p
    <3> HIDE DEF d, v
    <3>1. ASSUME v \in Value PROVE Repaired(d, v) \in Reparable
      BY <3>1 DEF Reparable, Value, Numbers, Repaired, BoolOf, ToNumber, Fraction
    <3> USE DEF d, v
    <3> QED BY <2>2, <3>1
  <2>6. Repair(config, r) \in Repairs
    BY <2>4, <2>5 DEF Request, Repairs
  <2>7. /\ SameMeaning(Repaired(config.p, r.p), r.p)
        /\ config.p.type \in {"string", "any"} => Repaired(config.p, r.p) = r.p
    BY <2>1, <2>2, RepairedMeansTheSame
  <2> QED BY <1>2, <2>3, <2>4, <2>6, <2>7 DEF MeansTheSame
<1> QED BY <1>1, <1>2

\* The part of each node holds the configuration read for it, and the request
\* itself is never written.
ChecksInv ==
    /\ asked \in Request /\ input = asked
    /\ nodeConfig \in [TargetNode -> Config]
    /\ DOMAIN checks = TargetNode
    /\ \A n \in TargetNode :
          /\ checks[n].at = "judge" => checks[n].config \in Config
          /\ checks[n].at = "published" =>
                /\ checks[n].config \in Config
                /\ checks[n].payload = Repair(checks[n].config, asked)
                /\ Violations(checks[n].config, checks[n].payload) = {}

\* Each node's part goes on alone.
LEMMA ChecksStep ==
    ASSUME ChecksInv, NEW n \in TargetNode,
           \/ LeavesGroup(n) \/ ChecksNode(n) \/ Judges(n) \/ PublishFails(n)
           \/ \E config \in Config : SetNodeConfig(n, config)
    PROVE  ChecksInv'
<1>1. asked' \in Request /\ input' = asked' /\ asked' = asked
  BY
     DEF ChecksInv, LeavesGroup, ChecksNode, Judges, PublishFails, SetNodeConfig,
         InputAfter
<1>2. nodeConfig' \in [TargetNode -> Config]
  BY DEF ChecksInv, LeavesGroup, ChecksNode, Judges, PublishFails, SetNodeConfig
<1>3. \/ checks' = checks
      \/ \E s : /\ checks' = [checks EXCEPT ![n] = s]
                /\ s.at = "judge" => s.config \in Config
                /\ s.at = "published" =>
                      /\ s.config \in Config
                      /\ s.payload = Repair(s.config, asked)
                      /\ Violations(s.config, s.payload) = {}
  <2>1. CASE LeavesGroup(n) \/ \E config \in Config : SetNodeConfig(n, config)
    BY <2>1 DEF LeavesGroup, SetNodeConfig
  <2>2. CASE ChecksNode(n) /\ n \in grouped
    <3> DEFINE s == [at |-> "judge", config |-> nodeConfig[n]]
    <3>1. checks' = [checks EXCEPT ![n] = s] /\ s.at = "judge" /\ s.config \in Config
      BY <2>2 DEF ChecksNode, ChecksInv
    <3> HIDE DEF s
    <3> QED BY <3>1
  <2>3. CASE \/ ChecksNode(n) /\ n \notin grouped
             \/ PublishFails(n)
             \/ Judges(n) /\ Violations(checks[n].config, Repair(checks[n].config, input)) # {}
    <3>1. PICK step \in {"failed", "refused"} : checks' = [checks EXCEPT ![n] = [at |-> step]]
      BY <2>3 DEF ChecksNode, PublishFails, Judges
    <3> DEFINE s == [at |-> step]
    <3>2. checks' = [checks EXCEPT ![n] = s] /\ s.at \notin {"judge", "published"}
      BY <3>1
    <3> HIDE DEF s
    <3> QED BY <3>2
  <2>4. CASE Judges(n) /\ Violations(checks[n].config, Repair(checks[n].config, input)) = {}
    <3> DEFINE c == checks[n].config
               s == [at |-> "published", config |-> c, payload |-> Repair(c, input)]
    <3>1. checks' = [checks EXCEPT ![n] = s]
      BY <2>4 DEF Judges
    <3>2. s.at = "published" /\ s.config = c /\ s.payload = Repair(c, input)
      OBVIOUS
    <3>3. c \in Config /\ input = asked
      BY <2>4 DEF Judges, ChecksInv
    <3> HIDE DEF s
    <3> QED BY <2>4, <3>1, <3>2, <3>3
  <2> QED BY <2>1, <2>2, <2>3, <2>4
<1> QED BY <1>1, <1>2, <1>3 DEF ChecksInv

\* The whole of what the parameters of a request become is decided by the
\* request and the configuration read.
LEMMA ChecksAlways == ChecksSpec => []ChecksInv
<1>1. ChecksInit => ChecksInv
  BY DEF ChecksInit, ChecksInv
<1>2. ChecksInv /\ [ChecksNext]_checksVars => ChecksInv'
  <2>1. ChecksInv /\ UNCHANGED checksVars => ChecksInv'
    BY DEF checksVars, ChecksInv
  <2> QED BY <2>1, ChecksStep DEF ChecksNext
<1> QED BY <1>1, <1>2, PTL DEF ChecksSpec

\* What reaches a node is all of what the client asked for and means the same,
\* however many nodes' parts are repaired at once (Repair, setNodeParams).
THEOREM SentAsAsked == ChecksSpec => []PublishedAsAsked
<1>1. ChecksInv => PublishedAsAsked
  <2> SUFFICES ASSUME ChecksInv, NEW n \in Published
               PROVE  MeansTheSame(checks[n].config, checks[n].payload, asked)
    BY DEF PublishedAsAsked, MeansTheSame
  <2> QED BY RepairMeansTheSame DEF ChecksInv, Published
<1> QED BY <1>1, ChecksAlways, PTL

\* What reaches a node is what the configuration read for it allows: declared,
\* writable, of its type and within its bounds (validateParam).
THEOREM SentAsDeclared == ChecksSpec => []PublishedFits
<1>1. ChecksInv => PublishedFits
  <2> SUFFICES ASSUME ChecksInv, NEW n \in Published
               PROVE  Fits(checks[n].config, checks[n].payload)
    BY DEF PublishedFits, Fits
  <2> QED BY RepairMeansTheSame, JudgedFits DEF ChecksInv, Published
<1> QED BY <1>1, ChecksAlways, PTL

----------------------------------------------------------------------------
(* ParamChecks: types, and rewrites counted.                               *)

StepsOfChecks ==
    /\ grouped \subseteq TargetNode /\ rewrites \in 0 .. MaxRewrites
    /\ DOMAIN checks = TargetNode
    /\ \A n \in TargetNode : checks[n].at \in {"new", "judge", "published", "refused", "failed"}

\* Configurations, requests and the steps of their parts keep their types.
LEMMA ChecksTyped == ChecksSpec => []ChecksTypeOK
<1>1. ChecksInit => StepsOfChecks
  BY ChecksConstants DEF ChecksInit, StepsOfChecks
<1>2. StepsOfChecks /\ [ChecksNext]_checksVars => StepsOfChecks'
  <2> SUFFICES ASSUME StepsOfChecks, [ChecksNext]_checksVars PROVE StepsOfChecks'
    OBVIOUS
  <2>1. CASE UNCHANGED checksVars
    BY <2>1 DEF StepsOfChecks, checksVars
  <2>2. ASSUME NEW n \in TargetNode,
               LeavesGroup(n) \/ \E config \in Config : SetNodeConfig(n, config)
        PROVE  StepsOfChecks'
    BY <2>2, ChecksConstants DEF LeavesGroup, SetNodeConfig, StepsOfChecks
  <2>3. ASSUME NEW n \in TargetNode, ChecksNode(n) \/ Judges(n) \/ PublishFails(n)
        PROVE  StepsOfChecks'
    <3>1. PICK s : /\ checks' = [checks EXCEPT ![n] = s]
                   /\ s.at \in {"new", "judge", "published", "refused", "failed"}
      <4>1. ASSUME NEW config, NEW payload
            PROVE  /\ [at |-> "judge", config |-> config].at = "judge"
                   /\ [at |-> "published", config |-> config, payload |-> payload].at = "published"
                   /\ [at |-> "failed"].at = "failed" /\ [at |-> "refused"].at = "refused"
        OBVIOUS
      <4>2. CASE ChecksNode(n)
        BY <4>1, <4>2 DEF ChecksNode
      <4>3. CASE Judges(n)
        <5>1. PICK c, p : c = checks[n].config /\ p = Repair(checks[n].config, input)
          OBVIOUS
        <5>2. CASE Violations(c, p) = {}
          <6>1. PICK s : s = [at |-> "published", config |-> c, payload |-> p]
            OBVIOUS
          <6>2. s.at = "published"
            BY <6>1
          <6>3. checks' = [checks EXCEPT ![n] = s]
            BY <4>3, <5>1, <5>2, <6>1 DEF Judges
          <6> QED BY <6>2, <6>3
        <5>3. CASE Violations(c, p) # {}
          <6>1. checks' = [checks EXCEPT ![n] = [at |-> "refused"]]
            BY <4>3, <5>1, <5>3 DEF Judges
          <6> QED BY <4>1, <6>1
        <5> QED BY <5>2, <5>3
      <4>4. CASE PublishFails(n)
        BY <4>1, <4>4 DEF PublishFails
      <4> QED BY <2>3, <4>2, <4>3, <4>4
    <3>2. UNCHANGED <<grouped, rewrites>>
      BY <2>3 DEF ChecksNode, Judges, PublishFails
    <3> QED BY <3>1, <3>2 DEF StepsOfChecks
  <2> QED BY <2>1, <2>2, <2>3 DEF ChecksNext
<1>3. ChecksInv /\ StepsOfChecks => ChecksTypeOK
  BY DEF ChecksInv, StepsOfChecks, ChecksTypeOK
<1> QED BY <1>1, <1>2, <1>3, ChecksAlways, PTL DEF ChecksSpec

----------------------------------------------------------------------------
(* VoiceReports: what an assistant was told last is what was reported, or  *)
(* an event still to be handled will tell it; whoever the node has left    *)
(* will be told to drop it, after any event that announces it.             *)

ReportedState == [online : BOOLEAN, params : [Fixture -> FixtureState]]
ShadowEvent ==
    [kind : {"shadow"}, home : Abode \union {NoAbode}, bumped : BOOLEAN, flips : BOOLEAN,
     changed : SUBSET Fixture, renames : BOOLEAN, state : ReportedState]
MembershipEvent == [kind : {"added", "removed"}, home : Abode]
Event == ShadowEvent \union MembershipEvent
ToldState == [known : {TRUE}, on : BOOLEAN, title : Title, online : BOOLEAN]

\* Event e has assistant v set the state of device f, in the group h; has it
\* learn the names of the devices, of a member of the groups b; has it drop
\* them.
TellsState(e, f, h, v) ==
    /\ e.kind = "shadow" /\ e.home = h /\ (v = "alexa" => e.bumped)
    /\ f \in e.changed \/ (v = "gva" /\ e.flips)
TellsNames(e, h, b, v) ==
    \/ e.kind = "shadow" /\ e.home = h /\ (v = "alexa" => e.bumped) /\ e.renames
    \/ e.kind = "added" /\ e.home \in b
    \/ v = "gva" /\ e.kind = "removed" /\ e.home \in b
TellsToDrop(e, b) == e.kind = "removed" /\ e.home \in b

Queued == 1 .. Len(news)

ReportsTypes ==
    /\ reported \in ReportedState
    /\ abode \in Abode \union {NoAbode} /\ belongs \subseteq Abode
    /\ voice \in {"alexa", "gva", "smartthings"}
    /\ news \in Seq(Event)
    /\ toldOf \in [Fixture -> ToldState \union {NotTold}]

\* What the state s of device f says is what the node reported.
TrueOf(f, on, isOnline) ==
    /\ on = reported.params[f].on
    /\ voice = "gva" => isOnline = reported.online

StatesFollow ==
    abode \in belongs => \A f \in Fixture :
        /\ \A i \in Queued :
              /\ TellsState(news[i], f, abode, voice)
              /\ \A j \in Queued : TellsState(news[j], f, abode, voice) => j <= i
              => TrueOf(f, news[i].state.params[f].on, news[i].state.online)
        /\ toldOf[f].known /\ (\A i \in Queued : ~TellsState(news[i], f, abode, voice)) =>
              TrueOf(f, toldOf[f].on, toldOf[f].online)

NamesFollow ==
    abode \in belongs => \A f \in Fixture :
        toldOf[f].known /\ (\A i \in Queued : ~TellsNames(news[i], abode, belongs, voice)) =>
            toldOf[f].title = reported.params[f].title

LeaversDropped ==
    abode \notin belongs =>
        /\ (\E f \in Fixture : toldOf[f].known) =>
              \E i \in Queued : TellsToDrop(news[i], belongs)
        /\ \A i \in Queued : news[i].kind = "added" /\ news[i].home \in belongs =>
              \E j \in Queued : j > i /\ TellsToDrop(news[j], belongs)

ReportsInv == ReportsTypes /\ StatesFollow /\ NamesFollow /\ LeaversDropped

\* The queue after events are added to it.
LEMMA EventsQueued ==
    ASSUME ReportsTypes, NEW s \in Seq(Event), Emits(s)
    PROVE  /\ news' \in Seq(Event) /\ Len(news') = Len(news) + Len(s)
           /\ \A i \in Queued : news'[i] = news[i]
           /\ \A i \in 1 .. Len(s) : news'[Len(news) + i] = s[i]
           /\ Len(news) \in Nat /\ Len(s) \in Nat
BY DEF Emits, ReportsTypes, Queued

\* The last of the events added, where there is one.
LEMMA OneMoreQueued ==
    ASSUME ReportsTypes, NEW e \in Event, Emits(<<e>>)
    PROVE  /\ news' \in Seq(Event) /\ Len(news) \in Nat /\ Len(news') = Len(news) + 1
           /\ news'[Len(news) + 1] = e /\ Len(news) + 1 \in Queued'
           /\ \A i \in Queued : news'[i] = news[i] /\ i \in Queued' /\ i < Len(news) + 1
           /\ \A i \in Queued' : i \in Int /\ (i \in Queued \/ i = Len(news) + 1)
<1>1. Len(<<e>>) = 1 /\ <<e>>[1] = e
  OBVIOUS
<1>2. PICK s \in Seq(Event) : s = <<e>>
  <2>1. <<e>> \in Seq(Event)
    OBVIOUS
  <2> QED BY <2>1
<1>3. Emits(s) /\ Len(s) = 1 /\ s[1] = e
  BY <1>1, <1>2
<1>4. /\ news' \in Seq(Event) /\ Len(news') = Len(news) + Len(s)
      /\ \A i \in Queued : news'[i] = news[i]
      /\ \A i \in 1 .. Len(s) : news'[Len(news) + i] = s[i]
      /\ Len(news) \in Nat
  BY <1>3, EventsQueued
<1>5. 1 \in 1 .. Len(s)
  BY <1>3
<1>6. Len(news') = Len(news) + 1 /\ news'[Len(news) + 1] = e
  BY <1>3, <1>4, <1>5
<1>7. /\ Len(news) + 1 \in Queued'
      /\ \A i \in Queued : i \in Queued' /\ i < Len(news) + 1
  BY <1>4, <1>6 DEF Queued
<1>8. ASSUME NEW i \in Queued'
      PROVE  i \in Int /\ (i \in Queued \/ i = Len(news) + 1)
  <2>1. Queued' = 1 .. Len(news) + 1 /\ Queued = 1 .. Len(news)
    BY <1>6 DEF Queued
  <2> QED BY <1>4, <2>1
<1> QED BY <1>4, <1>6, <1>7, <1>8

\* The shadow is written: what it changes is told, unless the node is alone.
LEMMA WritesKeep ==
    ASSUME ReportsInv, NEW new \in ReportedState, NEW bumped \in BOOLEAN,
           Writes(new, bumped),
           (\E f \in Fixture : new.params[f] # reported.params[f]) => bumped
    PROVE  ReportsInv'
<1>0. ReportsTypes
  BY DEF ReportsInv
<1>1. reported' = new /\ UNCHANGED <<abode, belongs, voice, toldOf>>
  BY DEF Writes
<1>2. CASE abode = NoAbode
  <2>1. news' = news /\ abode \notin belongs
    BY <1>0, <1>2, ReportsConstants DEF Writes, ReportsTypes
  <2>2. ReportsTypes'
    BY <1>0, <1>1, <2>1 DEF ReportsTypes
  <2>3. StatesFollow' /\ NamesFollow'
    BY <1>1, <2>1 DEF StatesFollow, NamesFollow
  <2>4. LeaversDropped'
    BY <1>1, <2>1 DEF ReportsInv, LeaversDropped, Queued
  <2> QED BY <2>2, <2>3, <2>4 DEF ReportsInv
<1>3. CASE abode # NoAbode
  <2>1. PICK e : e = ShadowNews(reported, new, bumped)
    OBVIOUS
  <2>2. /\ e.kind = "shadow" /\ e.home = abode /\ e.bumped = bumped
        /\ e.flips = (reported.online # new.online)
        /\ e.changed = {f \in Fixture : reported.params[f] # new.params[f]}
        /\ e.renames = (\E f \in Fixture : reported.params[f].title # new.params[f].title)
        /\ e.state = new
    BY <2>1 DEF ShadowNews
  <2>3. e \in Event
    BY <1>0, <1>3, <2>1 DEF ShadowNews, ShadowEvent, Event, ReportsTypes
  <2>4. Emits(<<e>>)
    BY <1>3, <2>1 DEF Writes
  <2>5. /\ news' \in Seq(Event) /\ Len(news) \in Nat /\ Len(news') = Len(news) + 1
        /\ news'[Len(news) + 1] = e /\ Len(news) + 1 \in Queued'
        /\ \A i \in Queued : news'[i] = news[i] /\ i \in Queued' /\ i < Len(news) + 1
        /\ \A i \in Queued' : i \in Int /\ (i \in Queued \/ i = Len(news) + 1)
    BY <1>0, <2>3, <2>4, OneMoreQueued
  <2>7. ReportsTypes'
    BY <1>0, <1>1, <2>5 DEF ReportsTypes
  <2>9. StatesFollow'
    <3> DEFINE S(d, f) == TellsState(d, f, abode, voice)
    <3> SUFFICES ASSUME abode \in belongs, NEW f \in Fixture
                 PROVE  /\ \A i \in Queued' :
                              S(news'[i], f) /\ (\A j \in Queued' : S(news'[j], f) => j <= i) =>
                                 /\ news'[i].state.params[f].on = new.params[f].on
                                 /\ voice = "gva" => news'[i].state.online = new.online
                        /\ toldOf[f].known /\ (\A i \in Queued' : ~S(news'[i], f)) =>
                              /\ toldOf[f].on = new.params[f].on
                              /\ voice = "gva" => toldOf[f].online = new.online
      BY <1>1 DEF StatesFollow, TrueOf
    <3> HIDE DEF S
    <3>1. CASE S(e, f)
      <4>1. S(news'[Len(news) + 1], f)
        BY <2>5, <3>1
      <4>2. ASSUME NEW i \in Queued', \A j \in Queued' : S(news'[j], f) => j <= i
            PROVE  news'[i] = e
        <5>1. Len(news) + 1 <= i
          BY <2>5, <4>1, <4>2
        <5>2. i \in Int /\ ~(i \in Queued)
          BY <2>5, <5>1
        <5> QED BY <2>5, <5>2
      <4> QED BY <2>2, <2>5, <4>1, <4>2
    <3>2. CASE ~S(e, f)
      <4>1. /\ new.params[f].on = reported.params[f].on
            /\ voice = "gva" => new.online = reported.online
        BY <1>0, <2>2, <3>2 DEF S, TellsState, ReportsTypes
      <4>2. /\ \A i \in Queued :
                  S(news[i], f) /\ (\A j \in Queued : S(news[j], f) => j <= i) =>
                     TrueOf(f, news[i].state.params[f].on, news[i].state.online)
            /\ toldOf[f].known /\ (\A i \in Queued : ~S(news[i], f)) =>
                  TrueOf(f, toldOf[f].on, toldOf[f].online)
        BY DEF ReportsInv, StatesFollow, S
      <4>3. \A i \in Queued' : S(news'[i], f) => i \in Queued /\ S(news[i], f)
        BY <2>5, <3>2
      <4>4. \A i \in Queued : news'[i] = news[i] /\ i \in Queued'
        BY <2>5
      <4>5. ASSUME NEW i \in Queued', S(news'[i], f),
                   \A j \in Queued' : S(news'[j], f) => j <= i
            PROVE  TrueOf(f, news'[i].state.params[f].on, news'[i].state.online)
        BY <4>2, <4>3, <4>4, <4>5
      <4>6. toldOf[f].known /\ (\A i \in Queued' : ~S(news'[i], f)) =>
               TrueOf(f, toldOf[f].on, toldOf[f].online)
        BY <4>2, <4>4
      <4> QED BY <4>1, <4>5, <4>6 DEF TrueOf
    <3> QED BY <3>1, <3>2
  <2>10. NamesFollow'
    <3> SUFFICES ASSUME abode \in belongs, NEW f \in Fixture, toldOf[f].known,
                        \A i \in Queued' : ~TellsNames(news'[i], abode, belongs, voice)
                 PROVE  toldOf[f].title = new.params[f].title
      BY <1>1 DEF NamesFollow
    <3>1. /\ ~TellsNames(e, abode, belongs, voice)
          /\ \A i \in Queued : ~TellsNames(news[i], abode, belongs, voice)
      BY <2>5
    <3>2. new.params[f].title = reported.params[f].title
      BY <2>2, <3>1 DEF TellsNames
    <3> QED BY <3>1, <3>2 DEF ReportsInv, NamesFollow
  <2>11. LeaversDropped'
    <3> SUFFICES ASSUME abode \notin belongs
                 PROVE  /\ (\E f \in Fixture : toldOf[f].known) =>
                              \E i \in Queued' : TellsToDrop(news'[i], belongs)
                        /\ \A i \in Queued' :
                              news'[i].kind = "added" /\ news'[i].home \in belongs =>
                                 \E j \in Queued' : j > i /\ TellsToDrop(news'[j], belongs)
      BY <1>1 DEF LeaversDropped
    <3>1. /\ (\E f \in Fixture : toldOf[f].known) =>
                \E i \in Queued : TellsToDrop(news[i], belongs)
          /\ \A i \in Queued : news[i].kind = "added" /\ news[i].home \in belongs =>
                \E j \in Queued : j > i /\ TellsToDrop(news[j], belongs)
      BY DEF ReportsInv, LeaversDropped
    <3> QED BY <2>2, <2>5, <3>1
  <2> QED BY <2>7, <2>9, <2>10, <2>11 DEF ReportsInv
<1> QED BY <1>2, <1>3

\* What the groups are told of is an event.
LEMMA MembershipsAreEvents ==
    ASSUME NEW k \in {"added", "removed"}, NEW h \in Abode
    PROVE  /\ MembershipNews(k, h) \in Event
           /\ MembershipNews(k, h).kind = k /\ MembershipNews(k, h).home = h
<1>1. PICK e : e = [kind |-> k, home |-> h]
  OBVIOUS
<1>2. e \in MembershipEvent /\ e.kind = k /\ e.home = h
  BY <1>1 DEF MembershipEvent
<1>3. e \in Event
  BY <1>2 DEF Event
<1> QED BY <1>1, <1>2, <1>3 DEF MembershipNews

\* The node joins another group: its copied shadow announces it and tells its
\* state there, and the group it left is told last.
LEMMA JoinKeeps ==
    ASSUME ReportsInv, NEW h \in Abode, JoinsAbode(h)
    PROVE  ReportsInv'
<1>0. ReportsTypes
  BY DEF ReportsInv
<1>1. /\ abode' = h /\ h # abode /\ UNCHANGED <<reported, belongs, voice, toldOf>>
      /\ Emits(JoinNews(h))
  BY DEF JoinsAbode
<1>2. PICK c : c = CopiedNews(h)
  OBVIOUS
<1>3. /\ c.kind = "shadow" /\ c.home = h /\ c.bumped /\ c.changed = Fixture /\ c.renames
      /\ c.state = reported
  BY <1>2 DEF CopiedNews
<1>4. c \in Event
  BY <1>0, <1>2 DEF CopiedNews, ShadowEvent, Event, ReportsTypes
<1>5. PICK a \in Event : a = MembershipNews("added", h) /\ a.kind = "added" /\ a.home = h
  BY MembershipsAreEvents
<1>6. PICK s \in Seq(Event) :
         /\ s = JoinNews(h) /\ s[1] = c /\ Len(s) \in 2 .. 3 /\ s[2] = a
         /\ Len(s) = 3 => s[3].kind = "removed"
         /\ abode # NoAbode => Len(s) = 3 /\ s[3].home = abode
  <2>1. CASE abode = NoAbode
    <3>1. <<c, a>> = JoinNews(h)
      BY <1>2, <1>5, <2>1 DEF JoinNews
    <3>2. <<c, a>> \in Seq(Event) /\ Len(<<c, a>>) = 2 /\ <<c, a>>[1] = c /\ <<c, a>>[2] = a
      BY <1>4, <1>5
    <3>3. PICK s \in Seq(Event) : s = <<c, a>>
      BY <3>2
    <3>4. s = JoinNews(h) /\ s[1] = c /\ Len(s) = 2 /\ s[2] = a
      BY <3>1, <3>2, <3>3
    <3> QED BY <2>1, <3>4
  <2>2. CASE abode # NoAbode
    <3>1. PICK r \in Event : /\ r = MembershipNews("removed", abode)
                             /\ r.kind = "removed" /\ r.home = abode
      BY <1>0, <2>2, MembershipsAreEvents DEF ReportsTypes
    <3>2. <<c, a, r>> = JoinNews(h)
      BY <1>2, <1>5, <2>2, <3>1 DEF JoinNews
    <3>3. /\ <<c, a, r>> \in Seq(Event) /\ Len(<<c, a, r>>) = 3
          /\ <<c, a, r>>[1] = c /\ <<c, a, r>>[2] = a /\ <<c, a, r>>[3] = r
      BY <1>4, <1>5, <3>1
    <3>4. PICK s \in Seq(Event) : s = <<c, a, r>>
      BY <3>3
    <3>5. s = JoinNews(h) /\ s[1] = c /\ Len(s) = 3 /\ s[2] = a /\ s[3] = r
      BY <3>2, <3>3, <3>4
    <3> QED BY <3>1, <3>5
  <2> QED BY <2>1, <2>2
<1>7. /\ news' \in Seq(Event) /\ Len(news') = Len(news) + Len(s)
      /\ \A i \in Queued : news'[i] = news[i]
      /\ \A i \in 1 .. Len(s) : news'[Len(news) + i] = s[i]
      /\ Len(news) \in Nat
  <2>1. Emits(s)
    BY <1>1, <1>6
  <2> QED BY <1>0, <2>1, EventsQueued
<1>8. PICK n \in Nat : n = Len(news)
  BY <1>7
<1>9. /\ news'[n + 1] = c /\ n + 1 \in Queued' /\ news'[n + 2] = a
      /\ Len(s) = 3 => news'[n + 3] = s[3] /\ n + 3 \in Queued'
  <2>1. 1 \in 1 .. Len(s) /\ 2 \in 1 .. Len(s) /\ (Len(s) = 3 => 3 \in 1 .. Len(s))
    BY <1>6
  <2>2. Queued' = 1 .. n + Len(s)
    BY <1>7, <1>8 DEF Queued
  <2> QED BY <1>6, <1>7, <1>8, <2>1, <2>2
<1>10. /\ \A i \in Queued' :
             i \in Int /\ (i \in Queued \/ i = n + 1 \/ i = n + 2 \/ (Len(s) = 3 /\ i = n + 3))
       /\ \A i \in Queued : i \in Queued' /\ i < n + 1
  <2>1. Queued' = 1 .. n + Len(s) /\ Queued = 1 .. n
    BY <1>7, <1>8 DEF Queued
  <2>2. Len(s) = 2 \/ Len(s) = 3
    BY <1>6
  <2>3. ASSUME NEW i \in 1 .. n + Len(s)
        PROVE  i \in Int /\ (i \in 1 .. n \/ i = n + 1 \/ i = n + 2 \/ (Len(s) = 3 /\ i = n + 3))
    <3>1. CASE Len(s) = 2
      <4>1. i \in 1 .. n + 2
        BY <3>1
      <4> QED BY <4>1
    <3>2. CASE Len(s) = 3
      <4>1. i \in 1 .. n + 3
        BY <3>2
      <4> QED BY <3>2, <4>1
    <3> QED BY <2>2, <3>1, <3>2
  <2>4. \A i \in 1 .. n : i \in 1 .. n + Len(s) /\ i < n + 1
    BY <2>2
  <2> QED BY <2>1, <2>3, <2>4
<1>11. ReportsTypes'
  BY <1>0, <1>1, <1>7 DEF ReportsTypes
<1>12. StatesFollow'
  <2> DEFINE S(d, f) == TellsState(d, f, h, voice)
  <2> SUFFICES ASSUME h \in belongs, NEW f \in Fixture
               PROVE  /\ \A i \in Queued' :
                            S(news'[i], f) /\ (\A j \in Queued' : S(news'[j], f) => j <= i) =>
                               /\ news'[i].state.params[f].on = reported.params[f].on
                               /\ voice = "gva" => news'[i].state.online = reported.online
                      /\ ~\A i \in Queued' : ~S(news'[i], f)
    BY <1>1 DEF StatesFollow, TrueOf
  <2>1. S(c, f) /\ \A d : d.kind # "shadow" => ~S(d, f)
    BY <1>3 DEF TellsState
  <2> HIDE DEF S
  <2>2. ASSUME NEW i \in Queued', S(news'[i], f), \A j \in Queued' : S(news'[j], f) => j <= i
        PROVE  news'[i] = c
    <3>1. n + 1 <= i
      BY <1>9, <2>1, <2>2
    <3>2. i = n + 1 \/ i = n + 2 \/ (Len(s) = 3 /\ i = n + 3)
      BY <1>10, <2>2, <3>1
    <3>3. i = n + 1
      BY <1>5, <1>6, <1>9, <2>1, <2>2, <3>2
    <3> QED BY <1>9, <3>3
  <2> QED BY <1>3, <1>9, <2>1, <2>2
<1>13. NamesFollow'
  <2>1. TellsNames(news'[n + 1], abode', belongs', voice')
    BY <1>1, <1>3, <1>9 DEF TellsNames
  <2> QED BY <1>9, <2>1 DEF NamesFollow
<1>14. LeaversDropped'
  <2> SUFFICES ASSUME h \notin belongs
               PROVE  /\ (\E f \in Fixture : toldOf[f].known) =>
                            \E i \in Queued' : TellsToDrop(news'[i], belongs)
                      /\ \A i \in Queued' :
                            news'[i].kind = "added" /\ news'[i].home \in belongs =>
                               \E j \in Queued' : j > i /\ TellsToDrop(news'[j], belongs)
    BY <1>1 DEF LeaversDropped
  <2>1. ASSUME NEW i \in Queued', news'[i].kind = "added", news'[i].home \in belongs
        PROVE  i \in Queued /\ news'[i] = news[i]
    BY <1>3, <1>5, <1>6, <1>7, <1>9, <1>10, <2>1
  <2>2. CASE abode \in belongs
    <3>1. Len(s) = 3 /\ s[3].kind = "removed" /\ s[3].home = abode
      BY <1>0, <1>6, <2>2, ReportsConstants DEF ReportsTypes
    <3>2. n + 3 \in Queued' /\ TellsToDrop(news'[n + 3], belongs)
      BY <1>9, <2>2, <3>1 DEF TellsToDrop
    <3>3. \A i \in Queued : n + 3 > i
      BY <1>10 DEF Queued
    <3> QED BY <2>1, <3>2, <3>3
  <2>3. CASE abode \notin belongs
    <3>1. /\ (\E f \in Fixture : toldOf[f].known) =>
                \E i \in Queued : TellsToDrop(news[i], belongs)
          /\ \A i \in Queued : news[i].kind = "added" /\ news[i].home \in belongs =>
                \E j \in Queued : j > i /\ TellsToDrop(news[j], belongs)
      BY <2>3 DEF ReportsInv, LeaversDropped
    <3>2. \A i \in Queued : news'[i] = news[i] /\ i \in Queued'
      BY <1>7, <1>10
    <3> QED BY <2>1, <3>1, <3>2
  <2> QED BY <2>2, <2>3
<1> QED BY <1>11, <1>12, <1>13, <1>14 DEF ReportsInv

\* The node leaves its group, which is told.
LEMMA LeaveKeeps ==
    ASSUME ReportsInv, LeavesAbode
    PROVE  ReportsInv'
<1>0. ReportsTypes
  BY DEF ReportsInv
<1>1. /\ abode' = NoAbode /\ abode # NoAbode
      /\ UNCHANGED <<reported, belongs, voice, toldOf>>
  BY DEF LeavesAbode
<1>2. PICK e \in Event : e = MembershipNews("removed", abode)
                         /\ e.kind = "removed" /\ e.home = abode
  BY <1>0, <1>1, MembershipsAreEvents DEF ReportsTypes
<1>3. Emits(<<e>>)
  BY <1>2 DEF LeavesAbode
<1>4. /\ news' \in Seq(Event) /\ Len(news) \in Nat /\ Len(news') = Len(news) + 1
      /\ news'[Len(news) + 1] = e /\ Len(news) + 1 \in Queued'
      /\ \A i \in Queued : news'[i] = news[i] /\ i \in Queued' /\ i < Len(news) + 1
      /\ \A i \in Queued' : i \in Int /\ (i \in Queued \/ i = Len(news) + 1)
  BY <1>0, <1>3, OneMoreQueued
<1>5. ReportsTypes'
  BY <1>0, <1>1, <1>4 DEF ReportsTypes
<1>6. NoAbode \notin belongs
  BY <1>0, ReportsConstants DEF ReportsTypes
<1>7. StatesFollow' /\ NamesFollow'
  BY <1>1, <1>6 DEF StatesFollow, NamesFollow
<1>8. LeaversDropped'
  <2> SUFFICES
        /\ (\E f \in Fixture : toldOf[f].known) =>
              \E i \in Queued' : TellsToDrop(news'[i], belongs)
        /\ \A i \in Queued' :
              news'[i].kind = "added" /\ news'[i].home \in belongs =>
                 \E j \in Queued' : j > i /\ TellsToDrop(news'[j], belongs)
    BY <1>1 DEF LeaversDropped
  <2>1. \A i \in Queued' : news'[i].kind = "added" => i \in Queued /\ news'[i] = news[i]
    BY <1>2, <1>4
  <2>2. CASE abode \in belongs
    <3>1. TellsToDrop(news'[Len(news) + 1], belongs)
      BY <1>2, <1>4, <2>2 DEF TellsToDrop
    <3>2. \A i \in Queued : Len(news) + 1 > i
      BY <1>4 DEF Queued
    <3> QED BY <1>4, <2>1, <3>1, <3>2
  <2>3. CASE abode \notin belongs
    <3>1. /\ (\E f \in Fixture : toldOf[f].known) =>
                \E i \in Queued : TellsToDrop(news[i], belongs)
          /\ \A i \in Queued : news[i].kind = "added" /\ news[i].home \in belongs =>
                \E j \in Queued : j > i /\ TellsToDrop(news[j], belongs)
      BY <2>3 DEF ReportsInv, LeaversDropped
    <3> QED BY <1>4, <2>1, <3>1
  <2> QED BY <2>2, <2>3
<1> QED BY <1>5, <1>7, <1>8 DEF ReportsInv

\* A report sets the state of the devices that are known, and nothing else.
LEMMA AfterReports ==
    ASSUME ReportsTypes, NEW e \in ShadowEvent, NEW f \in Fixture,
           e.home = abode, Hears(e)
    PROVE  /\ AfterReport(e)[f] \in ToldState \union {NotTold}
           /\ AfterReport(e)[f].known = toldOf[f].known
           /\ toldOf[f].known =>
                 /\ AfterReport(e)[f].title = toldOf[f].title
                 /\ TellsState(e, f, abode, voice) =>
                       /\ AfterReport(e)[f].on = e.state.params[f].on
                       /\ voice = "gva" => AfterReport(e)[f].online = e.state.online
                 /\ ~TellsState(e, f, abode, voice) =>
                       /\ AfterReport(e)[f].on = toldOf[f].on
                       /\ voice = "gva" => AfterReport(e)[f].online = toldOf[f].online
<1>1. PICK t : t = toldOf[f]
  OBVIOUS
<1>2. t \in ToldState \union {NotTold}
  BY <1>1 DEF ReportsTypes
<1>3. /\ e.kind = "shadow" /\ e.state.params[f].on \in BOOLEAN /\ e.state.online \in BOOLEAN
      /\ e.changed \subseteq Fixture
  BY DEF ShadowEvent, ReportedState, FixtureState
<1>4. /\ voice = "gva" => (f \in StatesIn(e) <=> TellsState(e, f, abode, voice))
      /\ voice = "alexa" => (f \in StatesIn(e) <=> TellsState(e, f, abode, voice))
      /\ voice = "smartthings" => (f \in StatesIn(e) /\ ~ConnectivityOnly(e)
                                      <=> TellsState(e, f, abode, voice))
  BY <1>3 DEF StatesIn, TellsState, Hears, AlexaReports, GvaReports, SmartThingsReports,
       ConnectivityOnly
<1>5. CASE f \in StatesIn(e) /\ t.known
  <2>1. PICK on : on = IF voice = "smartthings" /\ ConnectivityOnly(e)
                       THEN t.on ELSE e.state.params[f].on
    OBVIOUS
  <2>2. AfterReport(e)[f] = [t EXCEPT !.on = on, !.online = e.state.online]
    BY <1>1, <1>5, <2>1 DEF AfterReport
  <2>3. t \in ToldState /\ on \in BOOLEAN
    <3>1. t \in ToldState
      BY <1>2, <1>5 DEF NotTold
    <3> QED BY <1>3, <2>1, <3>1 DEF ToldState
  <2>4. /\ [t EXCEPT !.on = on, !.online = e.state.online] \in ToldState
        /\ [t EXCEPT !.on = on, !.online = e.state.online].on = on
        /\ [t EXCEPT !.on = on, !.online = e.state.online].online = e.state.online
        /\ [t EXCEPT !.on = on, !.online = e.state.online].title = t.title
        /\ [t EXCEPT !.on = on, !.online = e.state.online].known = t.known
    BY <1>3, <2>3 DEF ToldState
  <2>5. PICK r : r = AfterReport(e)[f]
    OBVIOUS
  <2>6. r \in ToldState /\ r.on = on /\ r.online = e.state.online /\ r.title = t.title
        /\ r.known = t.known
    BY <2>2, <2>4, <2>5
  <2>7. /\ TellsState(e, f, abode, voice) => on = e.state.params[f].on
        /\ ~TellsState(e, f, abode, voice) => voice = "smartthings" /\ on = t.on
    BY <1>4, <1>5, <2>1 DEF ReportsTypes, TellsState, ConnectivityOnly
  <2> QED BY <1>1, <2>5, <2>6, <2>7
<1>6. CASE ~(f \in StatesIn(e) /\ t.known)
  <2>1. AfterReport(e)[f] = t
    BY <1>1, <1>6 DEF AfterReport
  <2>2. t.known => ~TellsState(e, f, abode, voice)
    BY <1>4, <1>6 DEF ReportsTypes
  <2> QED BY <1>1, <1>2, <2>1, <2>2
<1> QED BY <1>5, <1>6

\* What is discovered is known, by the name it has; the state of what was
\* known stays as it was.
LEMMA DiscoveredIs ==
    ASSUME ReportsTypes, NEW known, NEW f \in Fixture,
           known[f] \in ToldState \union {NotTold}
    PROVE  /\ Discovered(known)[f] \in ToldState
           /\ Discovered(known)[f].title = reported.params[f].title
           /\ known[f].known =>
                 /\ Discovered(known)[f].on = known[f].on
                 /\ Discovered(known)[f].online = known[f].online
           /\ ~known[f].known =>
                 /\ Discovered(known)[f].on = reported.params[f].on
                 /\ Discovered(known)[f].online = reported.online
<1>1. PICK t : t = known[f]
  OBVIOUS
<1>2. PICK p : p = reported.params[f]
  OBVIOUS
<1>3. p \in FixtureState /\ reported.online \in BOOLEAN
  BY <1>2 DEF ReportsTypes, ReportedState
<1>4. CASE t.known
  <2>1. t \in ToldState
    BY <1>1, <1>4 DEF NotTold
  <2>2. Discovered(known)[f] = [t EXCEPT !.title = p.title]
    BY <1>1, <1>2, <1>4 DEF Discovered
  <2>3. PICK r : r = [t EXCEPT !.title = p.title]
    OBVIOUS
  <2>4. r \in ToldState /\ r.title = p.title /\ r.on = t.on /\ r.online = t.online
    BY <1>3, <2>1, <2>3 DEF ToldState, FixtureState
  <2> QED BY <1>1, <1>2, <1>4, <2>2, <2>3, <2>4
<1>5. CASE ~t.known
  <2>1. Discovered(known)[f] = Told(f, reported.params, reported.online)
    BY <1>1, <1>5 DEF Discovered
  <2>2. PICK r : r = [known |-> TRUE, on |-> p.on, title |-> p.title,
                      online |-> reported.online]
    OBVIOUS
  <2>3. /\ r \in ToldState /\ r.title = p.title /\ r.on = p.on
        /\ r.online = reported.online
    BY <1>3, <2>2 DEF ToldState, FixtureState
  <2> QED BY <1>1, <1>2, <1>5, <2>1, <2>2, <2>3 DEF Told
<1> QED BY <1>4, <1>5

\* What the assistant knows after an event was handled: what the event tells,
\* what it knew, or what the node reports now.
LEMMA DispatchTells ==
    ASSUME ReportsTypes, Dispatches, NEW e \in Event, e = Head(news), NEW f \in Fixture
    PROVE  /\ toldOf'[f] \in ToldState \union {NotTold}
           /\ abode \in belongs /\ toldOf'[f].known =>
                 /\ \/ /\ toldOf'[f].on = reported.params[f].on
                       /\ toldOf'[f].online = reported.online
                    \/ /\ toldOf[f].known
                       /\ TellsState(e, f, abode, voice) =>
                             /\ toldOf'[f].on = e.state.params[f].on
                             /\ voice = "gva" => toldOf'[f].online = e.state.online
                       /\ ~TellsState(e, f, abode, voice) =>
                             /\ toldOf'[f].on = toldOf[f].on
                             /\ voice = "gva" => toldOf'[f].online = toldOf[f].online
                 /\ \/ toldOf'[f].title = reported.params[f].title
                    \/ /\ toldOf[f].known /\ ~TellsNames(e, abode, belongs, voice)
                       /\ toldOf'[f].title = toldOf[f].title
           /\ abode \notin belongs /\ toldOf'[f].known =>
                 /\ ~TellsToDrop(e, belongs)
                 /\ toldOf[f].known \/ (e.kind = "added" /\ e.home \in belongs)
<1> DEFINE T == ToldState \union {NotTold}
<1>0. toldOf[f] \in T
  BY DEF ReportsTypes
<1>1. ~NotTold.known /\ NotTold \in T
  BY DEF NotTold
<1>2. Dropped[f] = NotTold
  BY DEF Dropped
<1>3. e.kind \in {"shadow", "added", "removed"} /\ (e.kind = "shadow" => e \in ShadowEvent)
  BY DEF Event, ShadowEvent, MembershipEvent
<1>4. toldOf' = IF e.home \notin belongs THEN toldOf
                ELSE IF e.kind # "shadow" THEN AfterMembership(e)
                ELSE IF e.home = abode /\ Hears(e) THEN AfterShadow(e)
                ELSE toldOf
  BY DEF Dispatches
<1>5. voice \in {"alexa", "gva", "smartthings"}
  BY DEF ReportsTypes
<1>6. CASE e.home \notin belongs \/ (e.kind = "shadow" /\ ~(e.home = abode /\ Hears(e)))
  <2>1. toldOf' = toldOf
    BY <1>4, <1>6
  <2>2. ~TellsToDrop(e, belongs)
    BY <1>6 DEF TellsToDrop
  <2>3. abode \in belongs => ~TellsState(e, f, abode, voice) /\ ~TellsNames(e, abode, belongs, voice)
    BY <1>3, <1>6 DEF TellsState, TellsNames, Hears
  <2> QED BY <1>0, <2>1, <2>2, <2>3
<1>7. CASE e.home \in belongs /\ e.kind # "shadow"
  <2>1. toldOf' = AfterMembership(e)
    BY <1>4, <1>7
  <2>2. PICK d : d = Discovered(toldOf)
    OBVIOUS
  <2>3. \/ toldOf' = d /\ (voice # "gva" => e.kind = "added") /\ (voice = "gva" => abode \in belongs)
        \/ toldOf' = Dropped
    BY <1>3, <1>5, <1>7, <2>1, <2>2 DEF AfterMembership, Synced
  <2>4. /\ d[f] \in ToldState /\ d[f].title = reported.params[f].title
        /\ toldOf[f].known => d[f].on = toldOf[f].on /\ d[f].online = toldOf[f].online
        /\ ~toldOf[f].known => d[f].on = reported.params[f].on /\ d[f].online = reported.online
    BY <1>0, <2>2, DiscoveredIs
  <2>5. ~TellsState(e, f, abode, voice)
    BY <1>7 DEF TellsState
  <2>6. abode \notin belongs /\ toldOf' = d => e.kind = "added" /\ ~TellsToDrop(e, belongs)
    BY <1>5, <1>1, <1>2, <2>3, <2>4 DEF TellsToDrop, ToldState
  <2> QED BY <1>1, <1>2, <1>7, <2>3, <2>4, <2>5, <2>6
<1>8. CASE e.home \in belongs /\ e.kind = "shadow" /\ e.home = abode /\ Hears(e)
  <2>1. toldOf' = AfterShadow(e)
    BY <1>4, <1>8
  <2>2. PICK a : a = AfterReport(e)
    OBVIOUS
  <2>3. /\ a[f] \in T /\ a[f].known = toldOf[f].known
        /\ toldOf[f].known =>
              /\ a[f].title = toldOf[f].title
              /\ TellsState(e, f, abode, voice) =>
                    /\ a[f].on = e.state.params[f].on
                    /\ voice = "gva" => a[f].online = e.state.online
              /\ ~TellsState(e, f, abode, voice) =>
                    /\ a[f].on = toldOf[f].on
                    /\ voice = "gva" => a[f].online = toldOf[f].online
    BY <1>3, <1>8, <2>2, AfterReports
  <2>4. PICK d : d = Discovered(a)
    OBVIOUS
  <2>5. /\ d[f] \in ToldState /\ d[f].title = reported.params[f].title
        /\ a[f].known => d[f].on = a[f].on /\ d[f].online = a[f].online
        /\ ~a[f].known => d[f].on = reported.params[f].on /\ d[f].online = reported.online
    BY <2>3, <2>4, DiscoveredIs
  <2>6. toldOf' = IF e.renames THEN d ELSE a
    BY <1>8, <2>1, <2>2, <2>4 DEF AfterShadow, Synced
  <2>7. ~e.renames => ~TellsNames(e, abode, belongs, voice)
    BY <1>8 DEF TellsNames
  <2>8. abode \in belongs
    BY <1>8
  <2>9. CASE e.renames
    BY <2>3, <2>5, <2>6, <2>8, <2>9
  <2>10. CASE ~e.renames
    BY <2>3, <2>6, <2>7, <2>8, <2>10
  <2> QED BY <2>9, <2>10
<1> QED BY <1>3, <1>6, <1>7, <1>8

\* The first event is handled: what it told is known, and the rest is still
\* to be told.
LEMMA DispatchKeeps ==
    ASSUME ReportsInv, Dispatches
    PROVE  ReportsInv'
<1>0. ReportsTypes
  BY DEF ReportsInv
<1>1. /\ news # <<>> /\ news' = Tail(news) /\ UNCHANGED <<reported, abode, belongs, voice>>
  BY DEF Dispatches
<1>2. /\ Len(news) \in Nat /\ Len(news) >= 1 /\ Head(news) = news[1]
      /\ news' \in Seq(Event) /\ Len(news') = Len(news) - 1
      /\ \A i \in 1 .. Len(news) - 1 : news'[i] = news[i + 1]
  BY <1>0, <1>1 DEF ReportsTypes
<1>3. PICK e \in Event : e = Head(news) /\ e = news[1]
  BY <1>0, <1>2 DEF ReportsTypes
<1>4. /\ 1 \in Queued
      /\ \A i \in Queued' : i \in Int /\ i + 1 \in Queued /\ news'[i] = news[i + 1]
      /\ \A i \in Queued : i \in Int /\ 1 <= i
                           /\ (i = 1 \/ (i - 1 \in Queued' /\ news'[i - 1] = news[i]))
  <2>1. PICK n \in Nat : n = Len(news) /\ n >= 1
    BY <1>2
  <2>2. Queued = 1 .. n /\ Queued' = 1 .. n - 1
    BY <1>2, <2>1 DEF Queued
  <2>3. ASSUME NEW i \in 1 .. n - 1
        PROVE  i \in Int /\ i + 1 \in 1 .. n /\ news'[i] = news[i + 1]
    BY <1>2, <2>1
  <2>4. ASSUME NEW i \in 1 .. n
        PROVE  i \in Int /\ 1 <= i /\ (i = 1 \/ (i - 1 \in 1 .. n - 1 /\ news'[i - 1] = news[i]))
    <3>1. CASE i # 1
      <4>1. i - 1 \in 1 .. n - 1 /\ (i - 1) + 1 = i
        BY <2>1, <3>1
      <4> QED BY <2>3, <4>1
    <3> QED BY <3>1
  <2> QED BY <2>1, <2>2, <2>3, <2>4
<1>5. ReportsTypes'
  <2>1. \A f \in Fixture : toldOf'[f] \in ToldState \union {NotTold}
    BY <1>0, <1>3, DispatchTells
  <2>2. toldOf' = [f \in Fixture |-> toldOf'[f]]
    <3>1. toldOf = [f \in Fixture |-> toldOf[f]]
      BY <1>0 DEF ReportsTypes
    <3>2. \/ toldOf' = toldOf \/ toldOf' = AfterMembership(e) \/ toldOf' = AfterShadow(e)
      BY <1>3 DEF Dispatches
    <3>3. CASE toldOf' = toldOf
      BY <3>1, <3>3
    <3>4. e.kind \in {"shadow", "added", "removed"} /\ voice \in {"alexa", "gva", "smartthings"}
      BY <1>0 DEF Event, ShadowEvent, MembershipEvent, ReportsTypes
    <3>5. CASE toldOf' = AfterMembership(e) /\ e.kind # "shadow"
      BY <3>4, <3>5 DEF AfterMembership, Synced, Discovered, Dropped
    <3>6. CASE toldOf' = AfterShadow(e)
      BY <3>6 DEF AfterShadow, Synced, Discovered, Dropped, AfterReport
    <3>7. e.kind = "shadow" => toldOf' = toldOf \/ toldOf' = AfterShadow(e)
      BY <1>3 DEF Dispatches
    <3> QED BY <3>2, <3>3, <3>5, <3>6, <3>7
  <2> QED BY <1>0, <1>1, <1>2, <2>1, <2>2 DEF ReportsTypes
<1>6. StatesFollow'
  <2> DEFINE S(d, f) == TellsState(d, f, abode, voice)
  <2> SUFFICES ASSUME abode \in belongs, NEW f \in Fixture
               PROVE  /\ \A i \in Queued' :
                            S(news'[i], f) /\ (\A j \in Queued' : S(news'[j], f) => j <= i) =>
                               TrueOf(f, news'[i].state.params[f].on, news'[i].state.online)
                      /\ toldOf'[f].known /\ (\A i \in Queued' : ~S(news'[i], f)) =>
                            TrueOf(f, toldOf'[f].on, toldOf'[f].online)
    BY <1>1 DEF StatesFollow, TrueOf
  <2>1. /\ \A i \in Queued :
              S(news[i], f) /\ (\A j \in Queued : S(news[j], f) => j <= i) =>
                 TrueOf(f, news[i].state.params[f].on, news[i].state.online)
        /\ toldOf[f].known /\ (\A i \in Queued : ~S(news[i], f)) =>
              TrueOf(f, toldOf[f].on, toldOf[f].online)
    BY DEF ReportsInv, StatesFollow
  <2>2. toldOf'[f].known =>
           \/ toldOf'[f].on = reported.params[f].on /\ toldOf'[f].online = reported.online
           \/ /\ toldOf[f].known
              /\ S(e, f) => /\ toldOf'[f].on = e.state.params[f].on
                            /\ voice = "gva" => toldOf'[f].online = e.state.online
              /\ ~S(e, f) => /\ toldOf'[f].on = toldOf[f].on
                             /\ voice = "gva" => toldOf'[f].online = toldOf[f].online
    BY <1>0, <1>3, DispatchTells
  <2> HIDE DEF S
  <2>3. ASSUME NEW i \in Queued', S(news'[i], f), \A j \in Queued' : S(news'[j], f) => j <= i
        PROVE  TrueOf(f, news'[i].state.params[f].on, news'[i].state.online)
    <3>1. i \in Int /\ i + 1 \in Queued /\ news'[i] = news[i + 1]
      BY <1>4
    <3>2. ASSUME NEW j \in Queued, S(news[j], f)
          PROVE  j <= i + 1
      <4>1. CASE j = 1
        <5>1. i \in Int /\ 1 <= i + 1
          BY <1>4, <3>1
        <5> QED BY <4>1, <5>1
      <4>2. CASE j # 1
        <5>1. j \in Int /\ j - 1 \in Queued' /\ news'[j - 1] = news[j]
          BY <1>4, <4>2
        <5>2. j - 1 <= i
          BY <2>3, <3>2, <5>1
        <5> QED BY <3>1, <5>1, <5>2
      <4> QED BY <4>1, <4>2
    <3> QED BY <2>1, <2>3, <3>1, <3>2
  <2>4. ASSUME toldOf'[f].known, \A i \in Queued' : ~S(news'[i], f)
        PROVE  TrueOf(f, toldOf'[f].on, toldOf'[f].online)
    <3>1. \A i \in Queued : S(news[i], f) => i = 1
      BY <1>4, <2>4
    <3>2. CASE S(e, f)
      <4>1. S(news[1], f) /\ \A j \in Queued : S(news[j], f) => j <= 1
        BY <1>3, <3>1, <3>2
      <4>2. TrueOf(f, e.state.params[f].on, e.state.online)
        BY <1>3, <1>4, <2>1, <4>1
      <4> QED BY <2>2, <2>4, <3>2, <4>2 DEF TrueOf
    <3>3. CASE ~S(e, f)
      <4>1. \A i \in Queued : ~S(news[i], f)
        BY <1>3, <3>1, <3>3
      <4> QED BY <2>1, <2>2, <2>4, <3>3, <4>1 DEF TrueOf
    <3> QED BY <3>2, <3>3
  <2> QED BY <2>3, <2>4
<1>7. NamesFollow'
  <2> SUFFICES ASSUME abode \in belongs, NEW f \in Fixture, toldOf'[f].known,
                      \A i \in Queued' : ~TellsNames(news'[i], abode, belongs, voice)
               PROVE  toldOf'[f].title = reported.params[f].title
    BY <1>1 DEF NamesFollow
  <2>1. \/ toldOf'[f].title = reported.params[f].title
        \/ /\ toldOf[f].known /\ ~TellsNames(e, abode, belongs, voice)
           /\ toldOf'[f].title = toldOf[f].title
    BY <1>0, <1>3, DispatchTells
  <2>2. ASSUME ~TellsNames(e, abode, belongs, voice)
        PROVE  \A i \in Queued : ~TellsNames(news[i], abode, belongs, voice)
    BY <1>3, <1>4, <2>2
  <2> QED BY <2>1, <2>2 DEF ReportsInv, NamesFollow
<1>8. LeaversDropped'
  <2> SUFFICES ASSUME abode \notin belongs
               PROVE  /\ (\E f \in Fixture : toldOf'[f].known) =>
                            \E i \in Queued' : TellsToDrop(news'[i], belongs)
                      /\ \A i \in Queued' :
                            news'[i].kind = "added" /\ news'[i].home \in belongs =>
                               \E j \in Queued' : j > i /\ TellsToDrop(news'[j], belongs)
    BY <1>1 DEF LeaversDropped
  <2>1. /\ (\E f \in Fixture : toldOf[f].known) =>
              \E i \in Queued : TellsToDrop(news[i], belongs)
        /\ \A i \in Queued : news[i].kind = "added" /\ news[i].home \in belongs =>
              \E j \in Queued : j > i /\ TellsToDrop(news[j], belongs)
    BY DEF ReportsInv, LeaversDropped
  <2>2. ASSUME NEW f \in Fixture, toldOf'[f].known
        PROVE  \E i \in Queued' : TellsToDrop(news'[i], belongs)
    <3>1. /\ ~TellsToDrop(e, belongs)
          /\ toldOf[f].known \/ (e.kind = "added" /\ e.home \in belongs)
      BY <1>0, <1>3, <2>2, DispatchTells
    <3>2. PICK j \in Queued : TellsToDrop(news[j], belongs)
      BY <1>3, <1>4, <2>1, <3>1
    <3>3. j # 1
      BY <1>3, <3>1, <3>2
    <3> QED BY <1>4, <3>2, <3>3
  <2>3. ASSUME NEW i \in Queued', news'[i].kind = "added", news'[i].home \in belongs
        PROVE  \E j \in Queued' : j > i /\ TellsToDrop(news'[j], belongs)
    <3>1. i \in Int /\ i + 1 \in Queued /\ news'[i] = news[i + 1]
      BY <1>4
    <3>2. PICK j \in Queued : j > i + 1 /\ TellsToDrop(news[j], belongs)
      BY <2>1, <2>3, <3>1
    <3>3. j \in Int /\ 1 <= j /\ (j = 1 \/ (j - 1 \in Queued' /\ news'[j - 1] = news[j]))
      BY <1>4
    <3>4. i \in Queued' /\ 1 <= i
      BY <1>2, <2>3 DEF Queued
    <3>5. j # 1 /\ j - 1 > i
      BY <3>1, <3>2, <3>3, <3>4
    <3> QED BY <3>2, <3>3, <3>5
  <2> QED BY <2>2, <2>3
<1> QED BY <1>5, <1>6, <1>7, <1>8 DEF ReportsInv

\* Nothing to tell yet, and all that is known was just asked for.
LEMMA ReportsBegin == ReportsInit => ReportsInv
<1> SUFFICES ASSUME ReportsInit
             PROVE  ReportsInv
  OBVIOUS
<1>1. ReportsTypes
  <2>1. PICK t \in Title : reported =
           [online |-> TRUE, params |-> [f \in Fixture |-> [on |-> FALSE, title |-> t]]]
    BY DEF ReportsInit
  <2>2. reported \in ReportedState
    BY <2>1 DEF ReportedState, FixtureState
  <2>3. ASSUME NEW f \in Fixture
        PROVE  Told(f, reported.params, TRUE) \in ToldState
    BY <2>2 DEF Told, ToldState, ReportedState, FixtureState
  <2>4. toldOf \in [Fixture -> ToldState \union {NotTold}]
    BY <2>3 DEF ReportsInit
  <2>5. /\ abode \in Abode \union {NoAbode} /\ belongs \subseteq Abode
        /\ voice \in {"alexa", "gva", "smartthings"} /\ news \in Seq(Event)
    BY DEF ReportsInit
  <2> QED BY <2>2, <2>4, <2>5 DEF ReportsTypes
<1>2. news = <<>> /\ Queued = {}
  BY DEF ReportsInit, Queued
<1>3. abode \in belongs => \A f \in Fixture :
         /\ toldOf[f].on = reported.params[f].on
         /\ toldOf[f].title = reported.params[f].title
         /\ toldOf[f].online = reported.online
  <2> SUFFICES ASSUME abode \in belongs, NEW f \in Fixture
               PROVE  /\ toldOf[f].on = reported.params[f].on
                      /\ toldOf[f].title = reported.params[f].title
                      /\ toldOf[f].online = reported.online
    OBVIOUS
  <2>1. toldOf[f] = Told(f, reported.params, TRUE)
    BY DEF ReportsInit
  <2>2. reported.online = TRUE
    BY DEF ReportsInit
  <2>3. PICK t : t = Told(f, reported.params, TRUE)
    OBVIOUS
  <2>4. /\ t.on = reported.params[f].on /\ t.title = reported.params[f].title
        /\ t.online = TRUE
    BY <2>3 DEF Told
  <2> QED BY <2>1, <2>2, <2>3, <2>4
<1>4. abode \notin belongs => \A f \in Fixture : ~toldOf[f].known
  BY DEF ReportsInit, NotTold
<1> QED BY <1>1, <1>2, <1>3, <1>4
   DEF ReportsInv, StatesFollow, NamesFollow, LeaversDropped, TrueOf

\* Each event and each write keeps what is known and still to be told whole.
LEMMA ReportsStep == ReportsInv /\ [ReportsNext]_reportsVars => ReportsInv'
<1> SUFFICES ASSUME ReportsInv, [ReportsNext]_reportsVars
             PROVE  ReportsInv'
  OBVIOUS
<1>0. reported \in ReportedState
  BY DEF ReportsInv, ReportsTypes
<1>1. ASSUME NEW f \in Fixture, NEW of \in FixtureState, ReportsParams(f, of)
      PROVE  ReportsInv'
  <2>1. PICK new : new = [reported EXCEPT !.params[f] = of]
    OBVIOUS
  <2>2. new \in ReportedState
    BY <1>0, <2>1 DEF ReportedState
  <2>3. Writes(new, TRUE)
    BY <1>1, <2>1 DEF ReportsParams
  <2> QED BY <2>2, <2>3, WritesKeep
<1>2. ASSUME NEW on \in BOOLEAN, NEW bumped \in BOOLEAN,
             Writes([reported EXCEPT !.online = on], bumped)
      PROVE  ReportsInv'
  <2>1. PICK new : new = [reported EXCEPT !.online = on]
    OBVIOUS
  <2>2. new \in ReportedState /\ new.params = reported.params
    BY <1>0, <2>1 DEF ReportedState
  <2>3. Writes(new, bumped)
    BY <1>2, <2>1
  <2> QED BY <2>2, <2>3, WritesKeep
<1>3. CASE GoesOnline
  BY <1>2, <1>3, ReportsConstants DEF GoesOnline
<1>4. CASE GoesOffline
  BY <1>2, <1>4 DEF GoesOffline
<1>5. ASSUME NEW h \in Abode, JoinsAbode(h)
      PROVE  ReportsInv'
  BY <1>5, JoinKeeps
<1>6. CASE LeavesAbode
  BY <1>6, LeaveKeeps
<1>7. CASE Dispatches
  BY <1>7, DispatchKeeps
<1>8. CASE UNCHANGED reportsVars
  BY <1>8
     DEF reportsVars, ReportsInv, ReportsTypes, StatesFollow, NamesFollow,
         LeaversDropped,
       TrueOf, Queued
<1> QED BY <1>1, <1>3, <1>4, <1>5, <1>6, <1>7, <1>8 DEF ReportsNext

\* Whatever the node reported and wherever it went, and for each assistant:
\* once every event has been handled, what the assistant was told of the
\* devices it still has is what the node reported last, Google being told of
\* connectivity too, and it has none of a node that left the user's groups
\* (Handler of rmneo/handlers/notification, Marshal of the three assistants).
THEOREM ToldIsReported == ReportsSpec => []ToldAsReported
<1>1. ReportsInv => ToldAsReported
  <2> SUFFICES ASSUME ReportsInv, AllDispatched, NEW f \in Fixture, toldOf[f].known
               PROVE  /\ abode \in belongs
                      /\ toldOf[f].on = reported.params[f].on
                      /\ toldOf[f].title = reported.params[f].title
                      /\ voice = "gva" => toldOf[f].online = reported.online
    BY DEF ToldAsReported
  <2>1. Queued = {}
    BY DEF AllDispatched, Queued
  <2> QED BY <2>1 DEF ReportsInv, StatesFollow, NamesFollow, LeaversDropped, TrueOf
<1> QED BY <1>1, ReportsBegin, ReportsStep, PTL DEF ReportsSpec

----------------------------------------------------------------------------
(* VoiceReports: types, and events counted.                                *)

NewsCounted == newsMade \in 0 .. MaxNews /\ Len(news) <= newsMade

\* Events that are queued are counted.
LEMMA EmitsCounts ==
    ASSUME ReportsInv, NewsCounted, NEW events, Emits(events), events \in Seq(Event)
    PROVE  NewsCounted'
<1>1. /\ news \in Seq(Event) /\ Len(news) \in Nat /\ Len(events) \in Nat
  BY DEF ReportsInv, ReportsTypes
<1>2. news' = news \o events /\ Len(news') = Len(news) + Len(events)
  BY <1>1 DEF Emits
<1>3. newsMade + Len(events) <= MaxNews /\ newsMade' = newsMade + Len(events)
  BY DEF Emits
<1> QED BY <1>1, <1>2, <1>3, ReportsConstants DEF NewsCounted

\* A write to the shadow is one event, or none in no group.
LEMMA WritesCount ==
    ASSUME ReportsInv, NewsCounted, NEW new \in ReportedState, NEW bumped \in BOOLEAN,
           Writes(new, bumped)
    PROVE  NewsCounted'
<1>1. CASE abode = NoAbode
  BY <1>1 DEF Writes, NewsCounted
<1>2. CASE abode # NoAbode
  <2>1. PICK e : e = ShadowNews(reported, new, bumped)
    OBVIOUS
  <2>2. e \in Event
    <3>1. abode \in Abode \union {NoAbode}
      BY DEF ReportsInv, ReportsTypes
    <3>2. PICK flips \in BOOLEAN, renames \in BOOLEAN, changed \in SUBSET Fixture :
             e = [kind |-> "shadow", home |-> abode, bumped |-> bumped, flips |-> flips,
                  changed |-> changed, renames |-> renames, state |-> new]
      BY <2>1 DEF ShadowNews
    <3>3. e \in ShadowEvent
      BY <3>1, <3>2 DEF ShadowEvent
    <3> QED BY <3>3 DEF Event
  <2>3. Emits(<<e>>)
    BY <1>2, <2>1 DEF Writes
  <2>4. <<e>> \in Seq(Event)
    BY <2>2
  <2> QED BY <2>3, <2>4, EmitsCounts
<1> QED BY <1>1, <1>2

\* A node that joins another group is two events, or three.
LEMMA JoinCounts ==
    ASSUME ReportsInv, NewsCounted, NEW h \in Abode, JoinsAbode(h)
    PROVE  NewsCounted'
<1>1. ReportsTypes /\ Emits(JoinNews(h))
  BY DEF ReportsInv, JoinsAbode
<1>2. PICK c \in Event : c = CopiedNews(h)
  <2>1. CopiedNews(h) \in Event
    BY <1>1 DEF CopiedNews, ShadowEvent, Event, ReportsTypes
  <2> QED BY <2>1
<1>3. PICK a \in Event : a = MembershipNews("added", h)
  BY MembershipsAreEvents
<1>4. JoinNews(h) \in Seq(Event)
  <2>1. CASE abode = NoAbode
    BY <1>2, <1>3, <2>1 DEF JoinNews
  <2>2. CASE abode # NoAbode
    <3>1. PICK r \in Event : r = MembershipNews("removed", abode)
      BY <1>1, <2>2, MembershipsAreEvents DEF ReportsTypes
    <3> QED BY <1>2, <1>3, <2>2, <3>1 DEF JoinNews
  <2> QED BY <2>1, <2>2
<1> QED BY <1>1, <1>4, EmitsCounts

\* The shadow's state and what the assistant was told keep their types, and no
\* more events are queued than were made.
LEMMA ReportsTyped == ReportsSpec => []ReportsTypeOK
<1>1. ReportsInit => NewsCounted
  BY ReportsConstants DEF ReportsInit, NewsCounted
<1>2. ReportsInv /\ NewsCounted /\ [ReportsNext]_reportsVars => NewsCounted'
  <2> SUFFICES ASSUME ReportsInv, NewsCounted, [ReportsNext]_reportsVars
               PROVE  NewsCounted'
    OBVIOUS
  <2>0. reported \in ReportedState
    BY DEF ReportsInv, ReportsTypes
  <2>1. ASSUME NEW f \in Fixture, NEW of \in FixtureState, ReportsParams(f, of)
        PROVE  NewsCounted'
    <3>1. PICK new : new = [reported EXCEPT !.params[f] = of]
      OBVIOUS
    <3>2. new \in ReportedState
      BY <2>0, <3>1 DEF ReportedState
    <3>3. Writes(new, TRUE)
      BY <2>1, <3>1 DEF ReportsParams
    <3> QED BY <3>2, <3>3, WritesCount
  <2>2. ASSUME NEW on \in BOOLEAN, NEW bumped \in BOOLEAN,
               Writes([reported EXCEPT !.online = on], bumped)
        PROVE  NewsCounted'
    <3>1. PICK new : new = [reported EXCEPT !.online = on]
      OBVIOUS
    <3>2. new \in ReportedState
      BY <2>0, <3>1 DEF ReportedState
    <3>3. Writes(new, bumped)
      BY <2>2, <3>1
    <3> QED BY <3>2, <3>3, WritesCount
  <2>3. CASE GoesOnline
    BY <2>2, <2>3, ReportsConstants DEF GoesOnline
  <2>4. CASE GoesOffline
    BY <2>2, <2>4 DEF GoesOffline
  <2>5. CASE LeavesAbode
    <3>1. PICK e \in Event : e = MembershipNews("removed", abode)
      BY <2>5, MembershipsAreEvents DEF LeavesAbode, ReportsInv, ReportsTypes
    <3>2. Emits(<<e>>) /\ <<e>> \in Seq(Event)
      BY <2>5, <3>1 DEF LeavesAbode
    <3> QED BY <3>2, EmitsCounts
  <2>6. CASE Dispatches
    <3>1. news \in Seq(Event) /\ news # <<>> /\ news' = Tail(news) /\ newsMade' = newsMade
      BY <2>6 DEF Dispatches, ReportsInv, ReportsTypes
    <3>2. Len(news) \in Nat /\ Len(news') = Len(news) - 1
      BY <3>1
    <3> QED BY <3>1, <3>2 DEF NewsCounted
  <2>7. CASE UNCHANGED reportsVars
    BY <2>7 DEF reportsVars, NewsCounted
  <2> QED BY <2>1, <2>3, <2>4, <2>5, <2>6, <2>7, JoinCounts DEF ReportsNext
<1>3. ReportsInv /\ NewsCounted => ReportsTypeOK
  BY DEF ReportsInv, ReportsTypes, NewsCounted, ReportsTypeOK, ReportedState, ToldState
<1> QED BY <1>1, <1>2, <1>3, ReportsBegin, ReportsStep, PTL DEF ReportsSpec

----------------------------------------------------------------------------
(* VoiceControl: a request read the lamp as it is, or will not say it did; *)
(* what was answered is in the message on its way, and in the lamp once it *)
(* is the last one taken; and a cookie has the lamp's own parameters.      *)

\* A sequence, of whatever it holds.
IsSeq(s) == s \in Seq({s[i] : i \in 1 .. Len(s)})

RequestFields == {"at", "command", "house", "saw", "params", "lit"}

SwitchesOn(q) == skill = "alexa" /\ q.command = <<"on", TRUE>>

\* What is published for a command: a colour or a warmth that Alexa sets comes
\* with its mode, where the lamp has one.
FitsCommand(params, command) ==
    /\ DOMAIN params \subseteq AllParams
    /\ "level" \in DOMAIN params => params["level"] \in Levels
    /\ skill = "alexa" =>
          /\ "speed" \notin DOMAIN params
          /\ "hue" \in DOMAIN params /\ "mode" \in lampParams =>
                "mode" \in DOMAIN params /\ params["mode"] = "hsv"
          /\ "warm" \in DOMAIN params /\ "mode" \in lampParams =>
                "mode" \in DOMAIN params /\ params["mode"] = "cct"
    /\ skill # "alexa" => DOMAIN params = {command[1]}

RequestOK(q) ==
    /\ DOMAIN q = RequestFields
    /\ q.at \in {"none", "read", "publish", "answered"}
    /\ q.at # "none" => /\ q.command \in Command /\ Knows(q.command[1])
                        /\ cookie.house # NoHouse
    /\ q.at = "publish" => q.saw.level \in Levels
    /\ q.at = "answered" => FitsCommand(q.params, q.command)

LampOK ==
    /\ DOMAIN lamp = AllParams /\ lamp["level"] \in Levels
    /\ DOMAIN shadow = {"online", "params"} /\ shadow.params.level \in Levels
    /\ cookie.house # NoHouse /\ skill = "alexa" => cookie.params = lampParams
    /\ skill \in Assistant /\ lampHouse \in House

RequestsOK == DOMAIN request = SkillCall /\ \A r \in SkillCall : RequestOK(request[r])

\* The messages on their way are those of requests that were answered.
WireOK ==
    /\ IsSeq(wire)
    /\ \A i \in 1 .. Len(wire) :
          /\ wire[i].from \in SkillCall /\ request[wire[i].from].at = "answered"
          /\ wire[i].params = request[wire[i].from].params

\* The lamp is as the request taken last would have it.
AppliedOK ==
    \A r \in SkillCall : applied = r =>
        /\ request[r].at = "answered"
        /\ \A name \in DOMAIN request[r].params : lamp[name] = request[r].params[name]

\* A request that read the lamp as it is, and nobody touched it since: what it
\* read is there, and so is light once its own message is taken.
LitBy(r, q) ==
    \/ q.at = "publish" /\ wire = <<>> /\ q.saw.level = lamp["level"]
    \/ /\ q.at = "answered"
       /\ \A i \in 1 .. Len(wire) : wire[i].from = r
       /\ SwitchesOn(q) =>
             /\ "on" \in DOMAIN q.params /\ q.params["on"] = TRUE
             /\ IF "level" \in DOMAIN q.params THEN q.params["level"] > 0
                ELSE lamp["level"] > 0
LitOK == \A r \in SkillCall : request[r].lit => LitBy(r, request[r])

VoiceInv == LampOK /\ RequestsOK /\ WireOK /\ AppliedOK /\ LitOK

\* One parameter set.
LEMMA ParamOf ==
    ASSUME NEW name, NEW value
    PROVE  DOMAIN Param(name, value) = {name} /\ Param(name, value)[name] = value
BY DEF Param

\* A sequence over a set is one over any larger set.
LEMMA WiderSeq ==
    ASSUME NEW S, NEW T, S \subseteq T, NEW s \in Seq(S)
    PROVE  s \in Seq(T)
OBVIOUS

\* A sequence over any set is a sequence.
LEMMA IsSeqOf ==
    ASSUME NEW S, NEW s \in Seq(S)
    PROVE  IsSeq(s)
BY DEF IsSeq

\* A message sent is the last on its way.
LEMMA OneAppended ==
    ASSUME NEW s, IsSeq(s), NEW e
    PROVE  /\ IsSeq(Append(s, e)) /\ Len(s) \in Nat /\ Len(Append(s, e)) = Len(s) + 1
           /\ \A i \in 1 .. Len(s) : Append(s, e)[i] = s[i]
           /\ Append(s, e)[Len(s) + 1] = e
<1> DEFINE X == {s[i] : i \in 1 .. Len(s)} \union {e}
<1>1. s \in Seq(X)
  BY WiderSeq DEF IsSeq
<1>2. e \in X
  OBVIOUS
<1> HIDE DEF X
<1>3. /\ Append(s, e) \in Seq(X) /\ Len(s) \in Nat /\ Len(Append(s, e)) = Len(s) + 1
      /\ \A i \in 1 .. Len(s) : Append(s, e)[i] = s[i]
      /\ Append(s, e)[Len(s) + 1] = e
  BY <1>1, <1>2
<1>4. IsSeq(Append(s, e))
  BY <1>3, IsSeqOf
<1> QED BY <1>3, <1>4

\* A message taken was the first.
LEMMA FirstTaken ==
    ASSUME NEW s, IsSeq(s), s # <<>>
    PROVE  /\ IsSeq(Tail(s)) /\ Len(s) \in Nat /\ Len(s) >= 1 /\ Len(Tail(s)) = Len(s) - 1
           /\ Head(s) = s[1]
           /\ \A i \in 1 .. Len(s) - 1 : Tail(s)[i] = s[i + 1]
<1> DEFINE X == {s[i] : i \in 1 .. Len(s)}
<1>1. s \in Seq(X)
  BY DEF IsSeq
<1> HIDE DEF X
<1>2. /\ Tail(s) \in Seq(X) /\ Len(s) \in Nat /\ Len(s) >= 1 /\ Len(Tail(s)) = Len(s) - 1
      /\ Head(s) = s[1] /\ \A i \in 1 .. Len(s) - 1 : Tail(s)[i] = s[i + 1]
  BY <1>1
<1>3. IsSeq(Tail(s))
  BY <1>2, IsSeqOf
<1> QED BY <1>2, <1>3

\* The two parts of a command.
LEMMA CommandIs ==
    ASSUME NEW c \in Command
    PROVE  \/ c[1] = "on" /\ c[2] \in BOOLEAN /\ c = <<"on", c[2]>>
           \/ c[1] = "level" /\ c[2] \in Levels
           \/ c[1] = "adjust" /\ c[2] \in {-1, 1}
           \/ c[1] \in {"hue", "warm", "speed"}
<1>1. CASE c \in {<<"on", TRUE>>, <<"on", FALSE>>}
  <2>1. CASE c = <<"on", TRUE>>
    <3>1. c[1] = "on" /\ c[2] = TRUE
      BY <2>1
    <3> QED BY <2>1, <3>1
  <2>2. CASE c = <<"on", FALSE>>
    <3>1. c[1] = "on" /\ c[2] = FALSE
      BY <2>2
    <3> QED BY <2>2, <3>1
  <2> QED BY <1>1, <2>1, <2>2
<1>2. CASE c \in {"level"} \X Levels
  BY <1>2
<1>3. CASE c \in {"adjust"} \X {-1, 1}
  BY <1>3
<1>4. CASE c \in ({"hue"} \X Hue) \union ({"warm"} \X Warmth) \union ({"speed"} \X Speed)
  BY <1>4
<1> QED BY <1>1, <1>2, <1>3, <1>4 DEF Command

\* A level is brought within its range.
LEMMA Clamps == \A x \in Int : Clamped(x) \in Levels
BY VoiceConstants DEF Clamped, Levels

\* What Alexa publishes: a level, with the lamp on unless it is 0.
LEMMA LevelsFit ==
    ASSUME skill = "alexa", NEW level \in Int, NEW c
    PROVE  FitsCommand(AlexaLevel(level), c)
<1>1. PICK l \in Levels : l = Clamped(level)
  BY Clamps
<1>2. PICK lit : lit = (Clamped(level) > 0)
  OBVIOUS
<1>3. AlexaLevel(level) = Over(Param("level", l), Param("on", lit))
  BY <1>1, <1>2 DEF AlexaLevel
<1>4. PICK p : p = Over(Param("level", l), Param("on", lit))
  OBVIOUS
<1>5. DOMAIN p = {"level", "on"} /\ p["level"] = l
  BY <1>4 DEF Over, Param
<1> QED BY <1>1, <1>3, <1>4, <1>5 DEF FitsCommand, AllParams

\* A lamp switched on is also made bright where it is at level 0.
LEMMA SwitchesFit ==
    ASSUME skill = "alexa", NEW on \in BOOLEAN, NEW saw, NEW c
    PROVE  /\ FitsCommand(AlexaOn(on, saw), c)
           /\ "on" \in DOMAIN AlexaOn(on, saw) /\ AlexaOn(on, saw)["on"] = on
           /\ on = TRUE /\ saw.level = 0 => "level" \in DOMAIN AlexaOn(on, saw)
           /\ "level" \in DOMAIN AlexaOn(on, saw) => AlexaOn(on, saw)["level"] > 0
<1>0. FullLevel \in Levels /\ FullLevel > 0
  BY VoiceConstants DEF Levels
<1>1. CASE on = TRUE /\ saw.level = 0
  <2>1. AlexaOn(on, saw) = Over(Param("on", on), Param("level", FullLevel))
    BY <1>1 DEF AlexaOn
  <2>2. PICK p : p = Over(Param("on", on), Param("level", FullLevel))
    OBVIOUS
  <2>3. DOMAIN p = {"on", "level"} /\ p["on"] = on /\ p["level"] = FullLevel
    BY <2>2 DEF Over, Param
  <2>4. FitsCommand(p, c)
    BY <1>0, <2>3 DEF FitsCommand, AllParams
  <2> QED BY <1>0, <2>1, <2>2, <2>3, <2>4
<1>2. CASE ~(on = TRUE /\ saw.level = 0)
  <2>1. AlexaOn(on, saw) = Param("on", on)
    BY <1>2 DEF AlexaOn
  <2>2. PICK p : p = Param("on", on)
    OBVIOUS
  <2>3. DOMAIN p = {"on"} /\ p["on"] = on
    BY <2>2, ParamOf
  <2>4. FitsCommand(p, c)
    BY <2>3 DEF FitsCommand, AllParams
  <2> QED BY <1>2, <2>1, <2>2, <2>3, <2>4
<1> QED BY <1>1, <1>2

\* A colour or a warmth comes with its mode, where the lamp has one.
LEMMA ColoursFit ==
    ASSUME skill = "alexa", cookie.params = lampParams, NEW v, NEW c
    PROVE  FitsCommand(AlexaColour(v, cookie), c) /\ FitsCommand(AlexaWarmth(v, cookie), c)
<1>1. PICK t : t = TRUE
  OBVIOUS
<1>2. ASSUME NEW name \in {"hue", "warm"}, NEW mode,
             mode = (IF name = "hue" THEN "hsv" ELSE "cct")
      PROVE  FitsCommand(InMode(mode, Over(Param(name, v), Param("on", t)), cookie), c)
  <2>1. PICK a : a = Over(Param(name, v), Param("on", t))
    OBVIOUS
  <2>2. DOMAIN a = {name, "on"}
    BY <2>1 DEF Over, Param
  <2>3. PICK b : b = Over(a, Param("mode", mode))
    OBVIOUS
  <2>4. DOMAIN b = {name, "on", "mode"} /\ b["mode"] = mode
    BY <2>2, <2>3 DEF Over, Param
  <2>5. PICK p : p = InMode(mode, a, cookie)
    OBVIOUS
  <2>6. p = IF "mode" \in lampParams THEN b ELSE a
    BY <2>3, <2>5 DEF InMode, Has
  <2>7. FitsCommand(p, c)
    BY <1>2, <2>2, <2>4, <2>6 DEF FitsCommand, AllParams
  <2> QED BY <2>1, <2>5, <2>7
<1>3. /\ AlexaColour(v, cookie) = InMode("hsv", Over(Param("hue", v), Param("on", t)), cookie)
      /\ AlexaWarmth(v, cookie) = InMode("cct", Over(Param("warm", v), Param("on", t)), cookie)
  BY <1>1 DEF AlexaColour, AlexaWarmth
<1> QED BY <1>2, <1>3

\* What each assistant publishes for a command it knows.
LEMMA ParamsFit ==
    ASSUME LampOK, cookie.house # NoHouse, NEW c \in Command, Knows(c[1]),
           NEW saw, saw.level \in Levels
    PROVE  LET p == ParamsOf(c[1], c[2], saw)
           IN  /\ FitsCommand(p, c)
               /\ skill = "alexa" /\ c = <<"on", TRUE>> =>
                     /\ "on" \in DOMAIN p /\ p["on"] = TRUE
                     /\ saw.level = 0 => "level" \in DOMAIN p
                     /\ "level" \in DOMAIN p => p["level"] > 0
<1>1. PICK n, v : n = c[1] /\ v = c[2]
  OBVIOUS
<1>2. \/ n = "on" /\ v \in BOOLEAN
      \/ n = "level" /\ v \in Levels
      \/ n = "adjust" /\ v \in {-1, 1}
      \/ n \in {"hue", "warm", "speed"}
  BY <1>1, CommandIs
<1>3. c = <<"on", TRUE>> => n = "on" /\ v = TRUE
  <2>1. <<"on", TRUE>>[1] = "on" /\ <<"on", TRUE>>[2] = TRUE
    OBVIOUS
  <2> QED BY <1>1, <2>1
<1>4. Knows(n) /\ skill \in Assistant
  BY <1>1 DEF LampOK
<1>5. PICK p : p = ParamsOf(n, v, saw)
  OBVIOUS
<1>6. CASE skill # "alexa"
  <2>1. n \in {"on", "level", "hue", "warm", "speed"}
    BY <1>2, <1>4, <1>6 DEF Knows
  <2>2. p = Param(n, v)
    <3>1. CASE skill = "gva"
      BY <1>5, <2>1, <3>1 DEF ParamsOf, GvaParams, GvaSwitch, GvaColour, GvaSpeed
    <3>2. CASE skill = "smartthings"
      BY <1>5, <2>1, <3>2
         DEF ParamsOf, SmartThingsParams, SmartThingsSwitch, SmartThingsColour,
           SmartThingsSpeed
    <3> QED BY <1>4, <1>6, <3>1, <3>2 DEF Assistant
  <2>3. DOMAIN p = {n} /\ p[n] = v
    BY <2>2, ParamOf
  <2>4. n = "level" => v \in Levels
    BY <1>2
  <2>5. FitsCommand(p, c)
    BY <1>1, <1>6, <2>1, <2>3, <2>4 DEF FitsCommand, AllParams
  <2> QED BY <1>1, <1>5, <1>6, <2>5
<1>7. CASE skill = "alexa"
  <2>1. n \in {"on", "level", "adjust", "hue", "warm"} /\ cookie.params = lampParams
    BY <1>2, <1>4, <1>7 DEF Knows, LampOK
  <2>2. p = AlexaParams(n, v, cookie, saw)
    BY <1>5, <1>7 DEF ParamsOf
  <2>3. CASE n = "on"
    <3>1. p = AlexaOn(v, saw) /\ v \in BOOLEAN
      BY <1>2, <2>2, <2>3 DEF AlexaParams
    <3>2. /\ FitsCommand(p, c) /\ "on" \in DOMAIN p /\ p["on"] = v
          /\ v = TRUE /\ saw.level = 0 => "level" \in DOMAIN p
          /\ "level" \in DOMAIN p => p["level"] > 0
      BY <1>7, <3>1, SwitchesFit
    <3> QED BY <1>1, <1>3, <1>5, <3>2
  <2>4. CASE n = "level"
    <3>1. p = AlexaLevel(v) /\ v \in Levels
      BY <1>2, <2>2, <2>4 DEF AlexaParams
    <3>2. v \in Int
      BY <3>1 DEF Levels
    <3>3. FitsCommand(p, c)
      BY <1>7, <3>1, <3>2, LevelsFit
    <3> QED BY <1>1, <1>3, <1>5, <2>4, <3>3
  <2>5. CASE n = "adjust"
    <3>1. PICK l : l = IF saw.on THEN saw.level ELSE 0
      OBVIOUS
    <3>2. l \in Int /\ v \in Int
      <4>1. saw.level \in Int
        BY DEF Levels
      <4>2. l = 0 \/ l = saw.level
        BY <3>1
      <4>3. v = -1 \/ v = 1
        BY <1>2, <2>5
      <4> QED BY <4>1, <4>2, <4>3
    <3>3. p = AlexaLevel(l + v)
      BY <2>2, <2>5, <3>1 DEF AlexaParams, AlexaAdjust
    <3>4. l + v \in Int
      BY <3>2
    <3>5. FitsCommand(p, c)
      BY <1>7, <3>3, <3>4, LevelsFit
    <3> QED BY <1>1, <1>3, <1>5, <2>5, <3>5
  <2>6. CASE n \in {"hue", "warm"}
    <3>1. p = AlexaColour(v, cookie) \/ p = AlexaWarmth(v, cookie)
      BY <2>2, <2>6 DEF AlexaParams
    <3>2. FitsCommand(p, c)
      BY <1>7, <2>1, <3>1, ColoursFit
    <3> QED BY <1>1, <1>3, <1>5, <2>6, <3>2
  <2> QED BY <2>1, <2>3, <2>4, <2>5, <2>6
<1> QED BY <1>6, <1>7

\* A step of one request that is not answered by it.
LEMMA OneRequestGoesOn ==
    ASSUME VoiceInv, NEW r \in SkillCall, request[r].at # "answered",
           UNCHANGED <<lampVars, settings, shadow, wire, cookie>>,
           DOMAIN request' = SkillCall,
           \A p \in SkillCall : p # r => request'[p] = request[p],
           NEW q, q = request'[r], RequestOK(q), q.at # "answered",
           q.lit => q.at = "publish" /\ wire = <<>> /\ q.saw.level = lamp["level"]
    PROVE  VoiceInv'
<1>1. /\ lamp' = lamp /\ applied' = applied /\ mayUse' = mayUse /\ lampParams' = lampParams
      /\ skill' = skill /\ shadow' = shadow /\ wire' = wire /\ cookie' = cookie
      /\ lampHouse' = lampHouse
  BY DEF settings, lampVars
<1>2. LampOK'
  BY <1>1 DEF VoiceInv, LampOK
<1>3. \A d : RequestOK(d)' <=> RequestOK(d)
  BY <1>1 DEF RequestOK, FitsCommand, Knows
<1>4. RequestsOK'
  BY <1>1, <1>3 DEF VoiceInv, RequestsOK
<1>5. \A i \in 1 .. Len(wire) : wire[i].from # r
  BY DEF VoiceInv, WireOK
<1>6. WireOK'
  <2>1. IsSeq(wire')
    BY <1>1 DEF VoiceInv, WireOK
  <2>2. ASSUME NEW i \in 1 .. Len(wire)
        PROVE  /\ wire[i].from \in SkillCall /\ request'[wire[i].from].at = "answered"
               /\ wire[i].params = request'[wire[i].from].params
    BY <1>5 DEF VoiceInv, WireOK
  <2> QED BY <1>1, <2>1, <2>2 DEF WireOK
<1>7. applied # r
  BY DEF VoiceInv, AppliedOK
<1>8. AppliedOK'
  BY <1>1, <1>7 DEF VoiceInv, AppliedOK
<1>9. LitOK'
  <2>1. \A p, d : LitBy(p, d)' <=> LitBy(p, d)
    BY <1>1 DEF LitBy, SwitchesOn
  <2>2. request'[r].lit => LitBy(r, request'[r])
    BY DEF LitBy
  <2>3. ASSUME NEW p \in SkillCall, p # r
        PROVE  request'[p].lit => LitBy(p, request'[p])
    BY <2>3 DEF VoiceInv, LitOK
  <2>4. \A p \in SkillCall : request'[p].lit => LitBy(p, request'[p])
    BY <2>2, <2>3
  <2> QED BY <2>1, <2>4 DEF LitOK
<1> QED BY <1>2, <1>4, <1>6, <1>8, <1>9 DEF VoiceInv

\* A command begins, is refused, or reads the lamp's shadow.
LEMMA CommandStep ==
    ASSUME VoiceInv, NEW r \in SkillCall,
           (\E command \in Command : Begins(r, command)) \/ Refuses(r) \/ Reads(r)
    PROVE  VoiceInv'
<1>1. /\ DOMAIN request = SkillCall /\ RequestOK(request[r])
      /\ DOMAIN request[r] = RequestFields
  BY DEF VoiceInv, RequestsOK, RequestOK
<1>2. PICK none : none = NoRequest
  OBVIOUS
<1>3. DOMAIN none = RequestFields /\ none.at = "none" /\ none.lit = FALSE
  BY <1>2 DEF NoRequest, RequestFields
<1>4. ASSUME NEW command \in Command, Begins(r, command)
      PROVE  VoiceInv'
  <2>1. PICK q : q = [none EXCEPT !.at = "read", !.command = command, !.house = CommandHouse]
    OBVIOUS
  <2>2. /\ DOMAIN q = RequestFields /\ q.at = "read" /\ q.command = command /\ q.lit = FALSE
    BY <1>3, <2>1 DEF RequestFields
  <2>3. request' = [request EXCEPT ![r] = q]
    BY <1>2, <1>4, <2>1 DEF Begins
  <2>4. /\ request[r].at = "none" /\ Knows(command[1]) /\ cookie.house # NoHouse
        /\ UNCHANGED <<lampVars, settings, shadow, wire, cookie>>
    BY <1>4 DEF Begins
  <2>5. /\ DOMAIN request' = SkillCall /\ request'[r] = q
        /\ \A p \in SkillCall : p # r => request'[p] = request[p]
    BY <1>1, <2>3
  <2>6. RequestOK(q)
    BY <2>2, <2>4 DEF RequestOK
  <2> QED BY <2>2, <2>4, <2>5, <2>6, OneRequestGoesOn
<1>5. CASE Refuses(r)
  <2>1. request' = [request EXCEPT ![r] = none]
    BY <1>2, <1>5 DEF Refuses
  <2>2. /\ request[r].at = "read"
        /\ UNCHANGED <<lampVars, settings, shadow, wire, cookie>>
    BY <1>5 DEF Refuses
  <2>3. /\ DOMAIN request' = SkillCall /\ request'[r] = none
        /\ \A p \in SkillCall : p # r => request'[p] = request[p]
    BY <1>1, <2>1
  <2>4. RequestOK(none)
    BY <1>3 DEF RequestOK
  <2> QED BY <1>3, <2>2, <2>3, <2>4, OneRequestGoesOn
<1>6. CASE Reads(r)
  <2>1. PICK lit : lit = (wire = <<>> /\ shadow.params = lamp)
    OBVIOUS
  <2>2. PICK saw : saw = [on |-> shadow.params.on, level |-> shadow.params.level]
    OBVIOUS
  <2>3. request' = [request EXCEPT ![r].at = "publish", ![r].saw = saw, ![r].lit = lit]
    BY <1>6, <2>1, <2>2 DEF Reads
  <2>4. /\ request[r].at = "read"
        /\ UNCHANGED <<lampVars, settings, shadow, wire, cookie>>
    BY <1>6 DEF Reads
  <2>5. PICK q : q = request'[r]
    OBVIOUS
  <2>6. /\ DOMAIN request' = SkillCall
        /\ \A p \in SkillCall : p # r => request'[p] = request[p]
    BY <1>1, <2>3
  <2>7. /\ DOMAIN q = RequestFields /\ q.at = "publish" /\ q.command = request[r].command
        /\ q.saw = saw /\ q.lit = lit
    BY <1>1, <2>3, <2>5 DEF RequestFields
  <2>8. saw.level = shadow.params.level /\ shadow.params.level \in Levels
    BY <2>2 DEF VoiceInv, LampOK
  <2>9. RequestOK(q)
    <3>1. /\ request[r].command \in Command /\ Knows(request[r].command[1])
          /\ cookie.house # NoHouse
      BY <1>1, <2>4 DEF RequestOK
    <3> QED BY <2>7, <2>8, <3>1 DEF RequestOK
  <2>10. q.lit => wire = <<>> /\ q.saw.level = lamp["level"]
    BY <2>1, <2>7, <2>8
  <2> QED BY <2>4, <2>5, <2>6, <2>7, <2>9, <2>10, OneRequestGoesOn
<1> QED BY <1>4, <1>5, <1>6

\* What happens to the lamp and its cookie while no message is taken.
LEMMA QuietStep ==
    ASSUME VoiceInv,
           Reports \/ (\E h \in House : Moves(h)) \/ Drops \/ Discovers \/ UNCHANGED voiceVars
    PROVE  VoiceInv'
<1>0. /\ LampOK /\ RequestsOK /\ WireOK /\ AppliedOK /\ LitOK
  BY DEF VoiceInv
<1>1. ASSUME lamp' = lamp, applied' = applied, lampParams' = lampParams, lampHouse' \in House,
             skill' = skill, wire' = wire, request' = request,
             DOMAIN shadow' = {"online", "params"}, shadow'.params.level \in Levels,
             \/ cookie' = cookie
             \/ cookie'.house # NoHouse /\ (skill = "alexa" => cookie'.params = lampParams)
      PROVE  VoiceInv'
  <2>1. LampOK'
    BY <1>0, <1>1 DEF LampOK
  <2>2. \A d : RequestOK(d) => RequestOK(d)'
    BY <1>1 DEF RequestOK, FitsCommand, Knows
  <2>3. RequestsOK'
    BY <1>0, <1>1, <2>2 DEF RequestsOK
  <2>4. WireOK' /\ AppliedOK'
    BY <1>0, <1>1 DEF WireOK, AppliedOK
  <2>5. \A p, d : LitBy(p, d)' <=> LitBy(p, d)
    BY <1>1 DEF LitBy, SwitchesOn
  <2>6. LitOK'
    BY <1>0, <1>1, <2>5 DEF LitOK
  <2> QED BY <2>1, <2>3, <2>4, <2>6 DEF VoiceInv
<1>2. /\ DOMAIN shadow = {"online", "params"} /\ shadow.params.level \in Levels
      /\ lamp["level"] \in Levels /\ lampHouse \in House
  BY <1>0 DEF LampOK
<1>3. CASE Reports
  <2>1. PICK s : s = [online |-> TRUE, params |-> lamp]
    OBVIOUS
  <2>2. DOMAIN s = {"online", "params"} /\ s.params = lamp
    BY <2>1
  <2>3. shadow' = s
    BY <1>3, <2>1 DEF Reports
  <2> QED BY <1>1, <1>2, <1>3, <2>2, <2>3 DEF Reports, lampVars, settings
<1>4. ASSUME NEW h \in House, Moves(h)
      PROVE  VoiceInv'
  BY <1>1, <1>2, <1>4 DEF Moves, settings
<1>5. CASE Drops
  <2>1. PICK s : s = [shadow EXCEPT !.online = FALSE]
    OBVIOUS
  <2>2. DOMAIN s = {"online", "params"} /\ s.params = shadow.params
    BY <1>2, <2>1
  <2>3. shadow' = s \/ shadow' = shadow
    BY <1>5, <2>1 DEF Drops
  <2>4. DOMAIN shadow' = {"online", "params"} /\ shadow'.params.level \in Levels
    BY <1>2, <2>2, <2>3
  <2> QED BY <1>1, <1>2, <1>5, <2>4 DEF Drops, settings
<1>6. CASE Discovers
  <2>1. lampHouse # NoHouse
    BY <1>2, VoiceConstants
  <2>2. PICK c : c = [house |-> lampHouse, params |-> lampParams]
    OBVIOUS
  <2>3. PICK d : d = [house |-> lampHouse, params |-> {}]
    OBVIOUS
  <2>4. c.house = lampHouse /\ c.params = lampParams /\ d.house = lampHouse
    BY <2>2, <2>3
  <2>5. cookie' = c \/ (skill # "alexa" /\ cookie' = d)
    BY <1>6, <2>2, <2>3 DEF Discovers, AlexaCookie, GvaCookie, SmartThingsCookie
  <2>6. cookie'.house # NoHouse /\ (skill = "alexa" => cookie'.params = lampParams)
    BY <2>1, <2>4, <2>5
  <2> QED BY <1>1, <1>2, <1>6, <2>6 DEF Discovers, lampVars, settings
<1>7. CASE UNCHANGED voiceVars
  BY <1>1, <1>2, <1>7 DEF voiceVars
<1> QED BY <1>3, <1>4, <1>5, <1>6, <1>7

\* A hand on the lamp: no request can say any more what it should show.
LEMMA HandStep ==
    ASSUME VoiceInv, ByHand
    PROVE  VoiceInv'
<1>0. /\ LampOK /\ RequestsOK /\ WireOK
  BY DEF VoiceInv
<1>1. /\ applied' = "hand" /\ lampParams' = lampParams /\ lampHouse' = lampHouse
      /\ skill' = skill /\ wire' = wire /\ shadow' = shadow /\ cookie' = cookie
      /\ request' = [r \in SkillCall |-> [request[r] EXCEPT !.lit = FALSE]]
  BY DEF ByHand, settings
<1>2. PICK on \in BOOLEAN, level \in Levels :
         lamp' = [lamp EXCEPT !.on = on, !.level = level]
  BY DEF ByHand
<1>3. DOMAIN lamp' = AllParams /\ lamp'["level"] = level
  BY <1>0, <1>2 DEF LampOK, AllParams
<1>4. LampOK'
  BY <1>0, <1>1, <1>3 DEF LampOK
<1>5. /\ DOMAIN request' = SkillCall
      /\ \A r \in SkillCall :
            /\ DOMAIN request'[r] = RequestFields /\ request'[r].lit = FALSE
            /\ request'[r].at = request[r].at /\ request'[r].command = request[r].command
            /\ request'[r].saw = request[r].saw /\ request'[r].params = request[r].params
  <2>1. ASSUME NEW r \in SkillCall
        PROVE  /\ DOMAIN request'[r] = RequestFields /\ request'[r].lit = FALSE
               /\ request'[r].at = request[r].at /\ request'[r].command = request[r].command
               /\ request'[r].saw = request[r].saw /\ request'[r].params = request[r].params
    <3>1. PICK q : q = request[r]
      OBVIOUS
    <3>2. DOMAIN q = RequestFields
      BY <1>0, <3>1 DEF RequestsOK, RequestOK
    <3>3. PICK d : d = [q EXCEPT !.lit = FALSE]
      OBVIOUS
    <3>4. /\ DOMAIN d = RequestFields /\ d.lit = FALSE /\ d.at = q.at /\ d.command = q.command
          /\ d.saw = q.saw /\ d.params = q.params
      BY <3>2, <3>3 DEF RequestFields
    <3>5. request'[r] = d
      BY <1>1, <3>1, <3>3
    <3> QED BY <3>1, <3>4, <3>5
  <2> QED BY <1>1, <2>1
<1>6. RequestsOK'
  <2>1. \A p, c : FitsCommand(p, c)' <=> FitsCommand(p, c)
    BY <1>1 DEF FitsCommand
  <2>2. \A n : Knows(n)' <=> Knows(n)
    BY <1>1 DEF Knows
  <2>3. ASSUME NEW r \in SkillCall
        PROVE  RequestOK(request[r])'
    <3>1. RequestOK(request[r])
      BY <1>0 DEF RequestsOK
    <3> QED BY <1>1, <1>5, <2>1, <2>2, <3>1 DEF RequestOK
  <2> QED BY <1>5, <2>3 DEF RequestsOK
<1>7. WireOK'
  BY <1>0, <1>1, <1>5 DEF WireOK
<1>8. AppliedOK'
  BY <1>1, VoiceConstants DEF AppliedOK
<1>9. LitOK'
  BY <1>5 DEF LitOK
<1> QED BY <1>4, <1>6, <1>7, <1>8, <1>9 DEF VoiceInv

\* A message arrives: it is lost, or the lamp is as it says.
LEMMA TakesStep ==
    ASSUME VoiceInv, Takes
    PROVE  VoiceInv'
<1>0. /\ LampOK /\ RequestsOK /\ WireOK /\ AppliedOK /\ LitOK
  BY DEF VoiceInv
<1>1. /\ lampParams' = lampParams /\ lampHouse' = lampHouse /\ skill' = skill
      /\ shadow' = shadow /\ cookie' = cookie /\ wire # <<>> /\ wire' = Tail(wire)
      /\ request' = Remembered(applied')
  BY DEF Takes, settings
<1>2. /\ IsSeq(wire') /\ Len(wire) \in Nat /\ Len(wire) >= 1 /\ Len(wire') = Len(wire) - 1
      /\ Head(wire) = wire[1]
      /\ \A i \in 1 .. Len(wire) - 1 : wire'[i] = wire[i + 1]
  BY <1>0, <1>1, FirstTaken DEF WireOK
<1>3. /\ 1 \in 1 .. Len(wire)
      /\ \A i \in 1 .. Len(wire') : i + 1 \in 1 .. Len(wire) /\ wire'[i] = wire[i + 1]
  BY <1>2
<1>4. PICK m : m = wire[1]
  OBVIOUS
<1>5. /\ m.from \in SkillCall /\ request[m.from].at = "answered"
      /\ m.params = request[m.from].params
  BY <1>0, <1>3, <1>4 DEF WireOK
<1>6. PICK p : p = m.params
  OBVIOUS
<1>7. /\ DOMAIN p \subseteq AllParams
      /\ "level" \in DOMAIN p => p["level"] \in Levels
  BY <1>0, <1>5, <1>6 DEF RequestsOK, RequestOK, FitsCommand
<1>8. \/ applied' = m.from /\ lamp' = Over(p, lamp)
      \/ applied' = applied /\ lamp' = lamp
  BY <1>2, <1>4, <1>6 DEF Takes
<1>9. lamp' = Over(p, lamp) =>
         /\ DOMAIN lamp' = DOMAIN p \union DOMAIN lamp
         /\ \A n \in DOMAIN p : lamp'[n] = p[n]
         /\ "level" \notin DOMAIN p => lamp'["level"] = lamp["level"]
  <2>1. ASSUME NEW o, o = Over(p, lamp)
        PROVE  /\ DOMAIN o = DOMAIN p \union DOMAIN lamp
               /\ \A n \in DOMAIN p : o[n] = p[n]
               /\ "level" \notin DOMAIN p => o["level"] = lamp["level"]
    <3>1. "level" \in DOMAIN lamp
      BY <1>0 DEF LampOK, AllParams
    <3> QED BY <2>1, <3>1 DEF Over
  <2> QED BY <2>1
<1>10. DOMAIN lamp' = AllParams /\ lamp'["level"] \in Levels
  BY <1>0, <1>7, <1>8, <1>9 DEF LampOK
<1>11. LampOK'
  BY <1>0, <1>1, <1>10 DEF LampOK
<1>12. PICK none : none = NoRequest
  OBVIOUS
<1>13. DOMAIN none = RequestFields /\ none.at = "none" /\ none.lit = FALSE
  BY <1>12 DEF NoRequest, RequestFields
<1>14. /\ DOMAIN request' = SkillCall
       /\ \A r \in SkillCall :
             \/ request'[r] = request[r]
             \/ /\ request'[r] = none /\ r # applied'
                /\ \A i \in 1 .. Len(wire') : wire'[i].from # r
  BY <1>1, <1>12 DEF Remembered
<1>15. RequestsOK'
  <2>1. \A d : RequestOK(d)' <=> RequestOK(d)
    BY <1>1 DEF RequestOK, FitsCommand, Knows
  <2>2. RequestOK(none)
    BY <1>13 DEF RequestOK
  <2> QED BY <1>0, <1>14, <2>1, <2>2 DEF RequestsOK
<1>16. WireOK'
  <2>1. ASSUME NEW i \in 1 .. Len(wire')
        PROVE  /\ wire'[i].from \in SkillCall /\ request'[wire'[i].from].at = "answered"
               /\ wire'[i].params = request'[wire'[i].from].params
    <3>1. /\ wire'[i].from \in SkillCall /\ request[wire'[i].from].at = "answered"
          /\ wire'[i].params = request[wire'[i].from].params
      BY <1>0, <1>3 DEF WireOK
    <3>2. request'[wire'[i].from] = request[wire'[i].from]
      BY <1>14, <3>1
    <3> QED BY <3>1, <3>2
  <2> QED BY <1>2, <2>1 DEF WireOK
<1>17. AppliedOK'
  <2> SUFFICES ASSUME NEW r \in SkillCall, applied' = r
               PROVE  /\ request'[r].at = "answered"
                      /\ \A n \in DOMAIN request'[r].params : lamp'[n] = request'[r].params[n]
    BY DEF AppliedOK
  <2>1. request'[r] = request[r]
    BY <1>14
  <2>2. CASE applied' = m.from /\ lamp' = Over(p, lamp)
    BY <1>5, <1>6, <1>9, <2>1, <2>2
  <2>3. CASE applied' = applied /\ lamp' = lamp
    BY <1>0, <2>1, <2>3 DEF AppliedOK
  <2> QED BY <1>8, <2>2, <2>3
<1>18. LitOK'
  <2> SUFFICES ASSUME NEW r \in SkillCall, NEW q, q = request'[r], q.lit
               PROVE  LitBy(r, q)'
    BY DEF LitOK
  <2>1. q = request[r]
    BY <1>13, <1>14
  <2>3. /\ q.at = "answered" /\ \A i \in 1 .. Len(wire) : wire[i].from = r
        /\ SwitchesOn(q) =>
              /\ "on" \in DOMAIN q.params /\ q.params["on"] = TRUE
              /\ IF "level" \in DOMAIN q.params THEN q.params["level"] > 0
                 ELSE lamp["level"] > 0
    BY <1>0, <1>1, <2>1 DEF LitOK, LitBy
  <2>4. p = q.params
    BY <1>3, <1>4, <1>5, <1>6, <2>1, <2>3
  <2>5. "level" \notin DOMAIN q.params => lamp'["level"] = lamp["level"]
    BY <1>8, <1>9, <2>4
  <2>6. \A i \in 1 .. Len(wire') : wire'[i].from = r
    BY <1>3, <2>3
  <2>7. SwitchesOn(q)' <=> SwitchesOn(q)
    BY <1>1 DEF SwitchesOn
  <2> QED BY <2>3, <2>5, <2>6, <2>7 DEF LitBy
<1> QED BY <1>11, <1>15, <1>16, <1>17, <1>18 DEF VoiceInv

\* A command publishes and answers: nobody else's reading is the last now.
LEMMA PublishStep ==
    ASSUME VoiceInv, NEW r \in SkillCall, Publishes(r)
    PROVE  VoiceInv'
<1>0. /\ LampOK /\ RequestsOK /\ WireOK /\ AppliedOK /\ LitOK
  BY DEF VoiceInv
<1>1. /\ lamp' = lamp /\ applied' = applied /\ lampParams' = lampParams
      /\ lampHouse' = lampHouse /\ skill' = skill /\ shadow' = shadow /\ cookie' = cookie
  BY DEF Publishes, lampVars, settings
<1>2. PICK q : q = request[r]
  OBVIOUS
<1>3. /\ q.at = "publish" /\ DOMAIN q = RequestFields /\ q.command \in Command
      /\ Knows(q.command[1]) /\ cookie.house # NoHouse /\ q.saw.level \in Levels
  BY <1>0, <1>2 DEF Publishes, RequestsOK, RequestOK
<1>4. PICK p : p = ParamsOf(q.command[1], q.command[2], q.saw)
  OBVIOUS
<1>5. /\ FitsCommand(p, q.command)
      /\ SwitchesOn(q) =>
            /\ "on" \in DOMAIN p /\ p["on"] = TRUE
            /\ q.saw.level = 0 => "level" \in DOMAIN p
            /\ "level" \in DOMAIN p => p["level"] > 0
  BY <1>0, <1>3, <1>4, ParamsFit DEF SwitchesOn
<1>6. PICK m : m = [house |-> TopicOf(r), params |-> p, from |-> r]
  OBVIOUS
<1>7. m.params = p /\ m.from = r
  BY <1>6
<1>8. PICK d : d = [q EXCEPT !.at = "answered", !.params = p, !.saw = NoRequest.saw]
  OBVIOUS
<1>9. /\ DOMAIN d = RequestFields /\ d.at = "answered" /\ d.params = p
      /\ d.command = q.command /\ d.lit = q.lit
  BY <1>3, <1>8 DEF RequestFields
<1>10. /\ wire' = Append(wire, m)
       /\ request' = [b \in SkillCall |-> IF b = r THEN d ELSE [request[b] EXCEPT !.lit = FALSE]]
  BY <1>2, <1>4, <1>6, <1>8 DEF Publishes
<1>11. /\ DOMAIN request' = SkillCall /\ request'[r] = d
       /\ \A b \in SkillCall : b # r =>
             /\ DOMAIN request'[b] = RequestFields /\ request'[b].lit = FALSE
             /\ request'[b].at = request[b].at /\ request'[b].command = request[b].command
             /\ request'[b].saw = request[b].saw /\ request'[b].params = request[b].params
  <2>1. ASSUME NEW b \in SkillCall, b # r
        PROVE  /\ DOMAIN request'[b] = RequestFields /\ request'[b].lit = FALSE
               /\ request'[b].at = request[b].at /\ request'[b].command = request[b].command
               /\ request'[b].saw = request[b].saw /\ request'[b].params = request[b].params
    <3>1. PICK c : c = request[b]
      OBVIOUS
    <3>2. DOMAIN c = RequestFields
      BY <1>0, <3>1 DEF RequestsOK, RequestOK
    <3>3. PICK e : e = [c EXCEPT !.lit = FALSE]
      OBVIOUS
    <3>4. /\ DOMAIN e = RequestFields /\ e.lit = FALSE /\ e.at = c.at /\ e.command = c.command
          /\ e.saw = c.saw /\ e.params = c.params
      BY <3>2, <3>3 DEF RequestFields
    <3>5. request'[b] = e
      BY <1>10, <2>1, <3>1, <3>3
    <3> QED BY <3>1, <3>4, <3>5
  <2> QED BY <1>10, <2>1
<1>12. LampOK'
  BY <1>0, <1>1 DEF LampOK
<1>13. RequestsOK'
  <2>1. \A x, c : FitsCommand(x, c)' <=> FitsCommand(x, c)
    BY <1>1 DEF FitsCommand
  <2>2. \A n : Knows(n)' <=> Knows(n)
    BY <1>1 DEF Knows
  <2>3. RequestOK(d)'
    BY <1>1, <1>3, <1>5, <1>9, <2>1, <2>2 DEF RequestOK
  <2>4. ASSUME NEW b \in SkillCall, b # r
        PROVE  RequestOK(request[b])'
    <3>1. RequestOK(request[b])
      BY <1>0 DEF RequestsOK
    <3> QED BY <1>1, <1>11, <2>1, <2>2, <2>4, <3>1 DEF RequestOK
  <2> QED BY <1>11, <2>3, <2>4 DEF RequestsOK
<1>14. /\ IsSeq(wire') /\ Len(wire) \in Nat /\ Len(wire') = Len(wire) + 1
       /\ \A i \in 1 .. Len(wire) : wire'[i] = wire[i]
       /\ wire'[Len(wire) + 1] = m
  BY <1>0, <1>10, OneAppended DEF WireOK
<1>15. \A i \in 1 .. Len(wire') : i \in 1 .. Len(wire) \/ i = Len(wire) + 1
  BY <1>14
<1>16. WireOK'
  <2>1. ASSUME NEW i \in 1 .. Len(wire')
        PROVE  /\ wire'[i].from \in SkillCall /\ request'[wire'[i].from].at = "answered"
               /\ wire'[i].params = request'[wire'[i].from].params
    <3>1. CASE i \in 1 .. Len(wire)
      <4>1. /\ wire'[i] = wire[i] /\ wire[i].from \in SkillCall
            /\ request[wire[i].from].at = "answered"
            /\ wire[i].params = request[wire[i].from].params
        BY <1>0, <1>14, <3>1 DEF WireOK
      <4>2. wire[i].from # r
        BY <1>2, <1>3, <4>1
      <4> QED BY <1>11, <4>1, <4>2
    <3>2. CASE i = Len(wire) + 1
      BY <1>7, <1>9, <1>11, <1>14, <3>2
    <3> QED BY <1>15, <3>1, <3>2
  <2> QED BY <1>14, <2>1 DEF WireOK
<1>17. AppliedOK'
  <2> SUFFICES ASSUME NEW b \in SkillCall, applied = b
               PROVE  /\ request'[b].at = "answered"
                      /\ \A n \in DOMAIN request'[b].params : lamp[n] = request'[b].params[n]
    BY <1>1 DEF AppliedOK
  <2>1. /\ request[b].at = "answered"
        /\ \A n \in DOMAIN request[b].params : lamp[n] = request[b].params[n]
    BY <1>0 DEF AppliedOK
  <2>2. b # r
    BY <1>2, <1>3, <2>1
  <2> QED BY <1>11, <2>1, <2>2
<1>18. LitOK'
  <2> SUFFICES ASSUME d.lit
               PROVE  LitBy(r, d)'
    BY <1>11 DEF LitOK
  <2>1. wire = <<>> /\ q.saw.level = lamp["level"]
    BY <1>0, <1>2, <1>3, <1>9 DEF LitOK, LitBy
  <2>2. \A i \in 1 .. Len(wire') : wire'[i].from = r
    <3>1. Len(wire) = 0
      BY <2>1
    <3>2. \A i \in 1 .. Len(wire') : i = Len(wire) + 1
      BY <1>15, <3>1
    <3> QED BY <1>7, <1>14, <3>2
  <2>3. SwitchesOn(d)' => SwitchesOn(q)
    BY <1>1, <1>9 DEF SwitchesOn
  <2>4. lamp["level"] = 0 \/ lamp["level"] > 0
    BY <1>0 DEF LampOK, Levels
  <2>5. SwitchesOn(q) => /\ "on" \in DOMAIN p /\ p["on"] = TRUE
                         /\ IF "level" \in DOMAIN p THEN p["level"] > 0 ELSE lamp'["level"] > 0
    BY <1>1, <1>5, <2>1, <2>4
  <2> QED BY <1>9, <2>2, <2>3, <2>5 DEF LitBy
<1> QED BY <1>12, <1>13, <1>16, <1>17, <1>18 DEF VoiceInv

\* Nothing asked yet.
LEMMA VoiceBegins == VoiceInit => VoiceInv
<1> SUFFICES ASSUME VoiceInit
             PROVE  VoiceInv
  OBVIOUS
<1>1. PICK h \in Hue, w \in Warmth, s \in Speed, m \in {"hsv", "cct"} :
         lamp = [on |-> FALSE, level |-> FullLevel, hue |-> h, warm |-> w, mode |-> m, speed |-> s]
  BY DEF VoiceInit
<1>2. DOMAIN lamp = AllParams /\ lamp["level"] \in Levels /\ lamp.level \in Levels
  BY <1>1, VoiceConstants DEF AllParams, Levels
<1>3. LampOK
  <2>1. DOMAIN shadow = {"online", "params"} /\ shadow.params = lamp
    BY DEF VoiceInit
  <2>2. cookie.house = NoHouse
    BY DEF VoiceInit
  <2>3. skill \in Assistant /\ lampHouse \in House
    BY DEF VoiceInit
  <2> QED BY <1>2, <2>1, <2>2, <2>3 DEF LampOK
<1>4. PICK none : none = NoRequest
  OBVIOUS
<1>5. DOMAIN none = RequestFields /\ none.at = "none" /\ none.lit = FALSE
  BY <1>4 DEF NoRequest, RequestFields
<1>6. request = [r \in SkillCall |-> none] /\ wire = <<>> /\ applied = "none"
  BY <1>4 DEF VoiceInit
<1>7. RequestsOK
  BY <1>5, <1>6 DEF RequestsOK, RequestOK
<1>8. WireOK
  BY <1>6 DEF WireOK, IsSeq
<1>9. AppliedOK
  BY <1>6, VoiceConstants DEF AppliedOK
<1>10. LitOK
  BY <1>5, <1>6 DEF LitOK
<1> QED BY <1>3, <1>7, <1>8, <1>9, <1>10 DEF VoiceInv

\* What was answered and taken shows, whatever was set before: Alexa's colours
\* come with their mode, where the lamp has one.
LEMMA AnswersShow == VoiceInv => CommandsTakeHold
<1> SUFFICES ASSUME VoiceInv
             PROVE  CommandsTakeHold
  OBVIOUS
<1>0. LampOK /\ RequestsOK /\ AppliedOK /\ LitOK
  BY DEF VoiceInv
<1>1. AnswerComesTrue
  <2> SUFFICES ASSUME NEW r \in SkillCall, request[r].at = "answered", applied = r,
                      ~LeavesMode(request[r]), shadow.params = lamp
               PROVE  /\ DOMAIN request[r].params \ {"mode"} \subseteq Sees(lamp)
                      /\ \A name \in DOMAIN request[r].params \ {"mode"} :
                            lamp[name] = request[r].params[name]
    BY DEF AnswerComesTrue
  <2>1. PICK q : q = request[r]
    OBVIOUS
  <2>2. \A name \in DOMAIN q.params : lamp[name] = q.params[name]
    BY <1>0, <2>1 DEF AppliedOK
  <2>3. FitsCommand(q.params, q.command) /\ Knows(q.command[1]) /\ q.command \in Command
    BY <1>0, <2>1 DEF RequestsOK, RequestOK
  <2>4. DOMAIN q.params \ {"mode"} \subseteq Sees(lamp)
    <3>1. CASE skill = "alexa"
      <4>1. "hue" \in DOMAIN q.params => ModeOf(lamp) # "cct"
        BY <2>2, <2>3, <3>1 DEF FitsCommand, ModeOf
      <4>2. "warm" \in DOMAIN q.params => ModeOf(lamp) # "hsv"
        BY <2>2, <2>3, <3>1 DEF FitsCommand, ModeOf
      <4> QED BY <2>3, <3>1, <4>1, <4>2 DEF FitsCommand, Sees, AlexaSees, AllParams
    <3>2. CASE skill # "alexa"
      <4>1. DOMAIN q.params = {q.command[1]} /\ q.command[1] \in {"on", "level", "speed"}
        <5>1. q.command[1] \in {"on", "level", "adjust", "hue", "warm", "speed"}
          BY <2>3, CommandIs
        <5> QED BY <2>1, <2>3, <3>2, <5>1 DEF FitsCommand, Knows, LeavesMode
      <4> QED BY <1>0, <3>2, <4>1 DEF Sees, GvaSees, SmartThingsSees, LampOK, Assistant
    <3> QED BY <3>1, <3>2
  <2> QED BY <2>1, <2>2, <2>4
<1>2. SwitchedOnIsLit
  <2> SUFFICES ASSUME NEW r \in SkillCall, request[r].at = "answered", applied = r,
                      request[r].lit, skill = "alexa", request[r].command = <<"on", TRUE>>
               PROVE  lamp.on /\ lamp.level > 0
    BY DEF SwitchedOnIsLit
  <2>1. PICK q : q = request[r]
    OBVIOUS
  <2>2. \A name \in DOMAIN q.params : lamp[name] = q.params[name]
    BY <1>0, <2>1 DEF AppliedOK
  <2>3. /\ "on" \in DOMAIN q.params /\ q.params["on"] = TRUE
        /\ IF "level" \in DOMAIN q.params THEN q.params["level"] > 0 ELSE lamp["level"] > 0
    BY <1>0, <2>1 DEF LitOK, LitBy, SwitchesOn
  <2> QED BY <2>2, <2>3
<1> QED BY <1>1, <1>2 DEF CommandsTakeHold

\* What was answered is on its way or in the lamp, in every state.
LEMMA VoiceAlways == VoiceSpec => []VoiceInv
<1>1. VoiceInv /\ [VoiceNext]_voiceVars => VoiceInv'
  <2> SUFFICES ASSUME VoiceInv, [VoiceNext]_voiceVars
               PROVE  VoiceInv'
    OBVIOUS
  <2>1. CASE Takes
    BY <2>1, TakesStep
  <2>2. CASE ByHand
    BY <2>2, HandStep
  <2>3. CASE Reports \/ (\E h \in House : Moves(h)) \/ Drops \/ Discovers \/ UNCHANGED voiceVars
    BY <2>3, QuietStep
  <2>4. ASSUME NEW r \in SkillCall,
               (\E command \in Command : Begins(r, command)) \/ Refuses(r) \/ Reads(r)
        PROVE  VoiceInv'
    BY <2>4, CommandStep
  <2>5. ASSUME NEW r \in SkillCall, Publishes(r)
        PROVE  VoiceInv'
    BY <2>5, PublishStep
  <2> QED BY <2>1, <2>2, <2>3, <2>4, <2>5 DEF VoiceNext
<1> QED BY <1>1, VoiceBegins, PTL DEF VoiceSpec

\* A command that was answered by any of the assistants, and whose message the
\* lamp took last, shows as it was answered in what the lamp reports next,
\* and a lamp that Alexa switched on gives light, however invocations, hands,
\* discoveries, moves and lost connections interleave (TurnOn and the other
\* handlers of src/alexa, Execute of src/gva, the command handler of
\* src/smartthings).
THEOREM AnsweredTakesHold == VoiceSpec => []CommandsTakeHold
BY VoiceAlways, AnswersShow, PTL

----------------------------------------------------------------------------
(* VoiceControl: types; what is published sets a parameter to a value of   *)
(* its own.                                                                *)

Setting(name) ==
    CASE name = "on" -> BOOLEAN
      [] name = "level" -> Levels
      [] name = "hue" -> Hue
      [] name = "warm" -> Warmth
      [] name = "mode" -> {"hsv", "cct"}
      [] OTHER -> Speed

Settable(params) ==
    DOMAIN params \subseteq AllParams /\ \A name \in DOMAIN params : params[name] \in Setting(name)

VoiceTypes ==
    /\ lamp \in Lamp /\ shadow \in [online : BOOLEAN, params : Lamp]
    /\ mayUse \subseteq House /\ lampParams \subseteq AllParams /\ online \in BOOLEAN
    /\ cookie \in [house : House \union {NoHouse}, params : SUBSET AllParams]
    /\ changes \in 0 .. MaxChanges
    /\ applied \in SkillCall \union {"none", "hand"}
    /\ \A i \in 1 .. Len(wire) : wire[i].house \in House /\ Settable(wire[i].params)
    /\ \A r \in SkillCall : request[r].at \in {"read", "publish"} => request[r].house \in House

\* A lamp is its parameters, each of its own values.
LEMMA LampIs ==
    ASSUME NEW l
    PROVE  l \in Lamp <=> l = [n \in AllParams |-> l[n]] /\ Settable(l)
<1>1. ASSUME l \in Lamp PROVE l = [n \in AllParams |-> l[n]] /\ Settable(l)
  <2>1. /\ l = [on |-> l.on, level |-> l.level, hue |-> l.hue, warm |-> l.warm, mode |-> l.mode,
                speed |-> l.speed]
        /\ l["on"] \in BOOLEAN /\ l["level"] \in Levels /\ l["hue"] \in Hue /\ l["warm"] \in Warmth
        /\ l["mode"] \in {"hsv", "cct"} /\ l["speed"] \in Speed
    BY <1>1 DEF Lamp
  <2>2. DOMAIN l = AllParams /\ l = [n \in DOMAIN l |-> l[n]]
    BY <2>1 DEF AllParams
  <2>3. \A n \in AllParams : l[n] \in Setting(n)
    BY <2>1 DEF AllParams, Setting
  <2> QED BY <2>2, <2>3 DEF Settable
<1>2. ASSUME l = [n \in AllParams |-> l[n]], Settable(l) PROVE l \in Lamp
  <2>1. DOMAIN l = AllParams
    BY <1>2
  <2>2. /\ l["on"] \in Setting("on") /\ l["level"] \in Setting("level") /\ l["hue"] \in Setting("hue")
        /\ l["warm"] \in Setting("warm") /\ l["mode"] \in Setting("mode")
        /\ l["speed"] \in Setting("speed")
    BY <1>2, <2>1 DEF Settable, AllParams
  <2>3. l["on"] \in BOOLEAN
    BY <2>2, Zenon DEF Setting
  <2>4. /\ l["level"] \in Levels /\ l["hue"] \in Hue /\ l["warm"] \in Warmth
        /\ l["mode"] \in {"hsv", "cct"} /\ l["speed"] \in Speed
    BY <2>2 DEF Setting
  <2>5. PICK on, level, hue, warm, mode, speed :
           /\ on = l["on"] /\ level = l["level"] /\ hue = l["hue"] /\ warm = l["warm"]
           /\ mode = l["mode"] /\ speed = l["speed"]
    OBVIOUS
  <2>6. l = [on |-> on, level |-> level, hue |-> hue, warm |-> warm, mode |-> mode, speed |-> speed]
    BY <1>2, <2>5 DEF AllParams
  <2>7. [on |-> on, level |-> level, hue |-> hue, warm |-> warm, mode |-> mode, speed |-> speed] \in Lamp
    BY <2>3, <2>4, <2>5 DEF Lamp
  <2> QED BY <2>6, <2>7
<1> QED BY <1>1, <1>2

\* What is set over what was set is of its values.
LEMMA OverTyped ==
    ASSUME NEW new, NEW old, Settable(new), Settable(old)
    PROVE  Settable(Over(new, old))
BY DEF Settable, Over

\* One parameter, of its own values.
LEMMA ParamTyped ==
    ASSUME NEW name \in AllParams, NEW value \in Setting(name)
    PROVE  Settable(Param(name, value))
BY DEF Settable, Param

\* The value of a command is one of the parameter it names.
LEMMA CommandSets ==
    ASSUME NEW c \in Command, c[1] # "adjust"
    PROVE  c[1] \in AllParams /\ c[2] \in Setting(c[1])
<1>1. CASE c \in {<<"on", TRUE>>, <<"on", FALSE>>}
  <2>1. c[1] = "on" /\ c[2] \in BOOLEAN
    <3>1. CASE c = <<"on", TRUE>>
      BY <3>1
    <3>2. CASE c = <<"on", FALSE>>
      BY <3>2
    <3> QED BY <1>1, <3>1, <3>2
  <2> QED BY <2>1 DEF AllParams, Setting
<1>2. CASE c \in {"level"} \X Levels
  BY <1>2 DEF AllParams, Setting
<1>3. CASE c \in {"hue"} \X Hue
  BY <1>3 DEF AllParams, Setting
<1>4. CASE c \in {"warm"} \X Warmth
  BY <1>4 DEF AllParams, Setting
<1>5. CASE c \in {"speed"} \X Speed
  BY <1>5 DEF AllParams, Setting
<1>6. CASE c \in {"adjust"} \X {-1, 1}
  BY <1>6
<1> QED BY <1>1, <1>2, <1>3, <1>4, <1>5, <1>6 DEF Command

\* Alexa's level, with the lamp on unless it is 0.
LEMMA LevelTyped ==
    ASSUME NEW level \in Int
    PROVE  Settable(AlexaLevel(level))
<1>1. Clamped(level) \in Setting("level") /\ (Clamped(level) > 0) \in Setting("on")
  <2>1. Clamped(level) \in Levels
    BY Clamps
  <2>2. (Clamped(level) > 0) \in BOOLEAN
    OBVIOUS
  <2> QED BY <2>1, <2>2 DEF Setting
<1>2. "level" \in AllParams /\ "on" \in AllParams
  BY DEF AllParams
<1> QED BY <1>1, <1>2, ParamTyped, OverTyped DEF AlexaLevel

\* Alexa's colour or warmth, with its mode where the lamp has one.
LEMMA ColourTyped ==
    ASSUME NEW name \in {"hue", "warm"}, NEW v \in Setting(name), NEW mode \in {"hsv", "cct"}, NEW c
    PROVE  Settable(InMode(mode, Over(Param(name, v), Param("on", TRUE)), c))
<1>1. name \in AllParams /\ "on" \in AllParams /\ "mode" \in AllParams
  BY DEF AllParams
<1>2. TRUE \in Setting("on") /\ mode \in Setting("mode")
  BY DEF Setting
<1>3. Settable(Over(Param(name, v), Param("on", TRUE)))
  BY <1>1, <1>2, ParamTyped, OverTyped
<1>4. Settable(Over(Over(Param(name, v), Param("on", TRUE)), Param("mode", mode)))
  BY <1>1, <1>2, <1>3, ParamTyped, OverTyped
<1> QED BY <1>3, <1>4 DEF InMode

\* Whatever an assistant publishes for a command it knows is of the values of
\* the parameters it sets.
LEMMA ParamsTyped ==
    ASSUME skill \in Assistant, NEW c \in Command, Knows(c[1]), NEW saw, saw.level \in Levels
    PROVE  Settable(ParamsOf(c[1], c[2], saw))
<1>1. PICK n, v : n = c[1] /\ v = c[2]
  OBVIOUS
<1>2. n # "adjust" => n \in AllParams /\ v \in Setting(n)
  BY <1>1, CommandSets
<1>3. \/ n = "on" \/ (n = "level" /\ v \in Levels) \/ (n = "adjust" /\ v \in {-1, 1})
      \/ n \in {"hue", "warm", "speed"}
  BY <1>1, CommandIs
<1>4. CASE skill # "alexa"
  <2>1. n \in {"on", "level", "hue", "warm", "speed"}
    BY <1>1, <1>3, <1>4 DEF Knows
  <2>2. ParamsOf(n, v, saw) = Param(n, v)
    <3>1. CASE skill = "gva"
      BY <2>1, <3>1 DEF ParamsOf, GvaParams, GvaSwitch, GvaColour, GvaSpeed
    <3>2. CASE skill = "smartthings"
      BY <2>1, <3>2
         DEF ParamsOf, SmartThingsParams, SmartThingsSwitch, SmartThingsColour,
           SmartThingsSpeed
    <3> QED BY <1>4, <3>1, <3>2 DEF Assistant
  <2> QED BY <1>1, <1>2, <2>1, <2>2, ParamTyped
<1>5. CASE skill = "alexa"
  <2>1. n \in {"on", "level", "adjust", "hue", "warm"}
    BY <1>1, <1>3, <1>5 DEF Knows
  <2>2. ParamsOf(n, v, saw) = AlexaParams(n, v, cookie, saw)
    BY <1>5 DEF ParamsOf
  <2>3. CASE n = "on"
    <3>1. FullLevel \in Setting("level") /\ "on" \in AllParams /\ "level" \in AllParams
      BY VoiceConstants DEF Setting, Levels, AllParams
    <3>2. Settable(Param("on", v)) /\ Settable(Param("level", FullLevel))
      BY <1>2, <2>3, <3>1, ParamTyped
    <3>3. Settable(AlexaOn(v, saw))
      BY <3>2, OverTyped DEF AlexaOn
    <3>4. ParamsOf(n, v, saw) = AlexaOn(v, saw)
      BY <2>2, <2>3 DEF AlexaParams
    <3> QED BY <1>1, <3>3, <3>4
  <2>4. CASE n = "level"
    <3>1. v \in Int
      BY <1>3, <2>4 DEF Levels
    <3>2. ParamsOf(n, v, saw) = AlexaLevel(v)
      BY <2>2, <2>4 DEF AlexaParams
    <3> QED BY <1>1, <3>1, <3>2, LevelTyped
  <2>5. CASE n = "adjust"
    <3>1. PICK l : l = IF saw.on THEN saw.level ELSE 0
      OBVIOUS
    <3>2. l + v \in Int
      <4>1. saw.level \in Int
        BY DEF Levels
      <4>2. l = 0 \/ l = saw.level
        BY <3>1
      <4>3. v = -1 \/ v = 1
        BY <1>3, <2>5
      <4> QED BY <4>1, <4>2, <4>3
    <3>3. ParamsOf(n, v, saw) = AlexaLevel(l + v)
      BY <2>2, <2>5, <3>1 DEF AlexaParams, AlexaAdjust
    <3> QED BY <1>1, <3>2, <3>3, LevelTyped
  <2>6. CASE n = "hue"
    <3>1. ParamsOf(n, v, saw) = AlexaColour(v, cookie)
      BY <2>2, <2>6 DEF AlexaParams
    <3>2. v \in Setting("hue")
      BY <1>2, <2>6
    <3> QED BY <1>1, <3>1, <3>2, ColourTyped DEF AlexaColour
  <2>7. CASE n = "warm"
    <3>1. ParamsOf(n, v, saw) = AlexaWarmth(v, cookie)
      BY <2>2, <2>7 DEF AlexaParams
    <3>2. v \in Setting("warm")
      BY <1>2, <2>7
    <3> QED BY <1>1, <3>1, <3>2, ColourTyped DEF AlexaWarmth
  <2> QED BY <2>1, <2>3, <2>4, <2>5, <2>6, <2>7
<1> QED BY <1>4, <1>5

\* Messages on their way are taken, and their answers forgotten.
LEMMA TakenTyped ==
    ASSUME VoiceInv, VoiceTypes, Takes
    PROVE  VoiceTypes'
<1>1. /\ UNCHANGED <<lampHouse, settings, online, shadow, cookie, changes>>
      /\ wire # <<>> /\ wire' = Tail(wire) /\ request' = Remembered(applied')
  BY DEF Takes
<1>2. /\ Len(wire) \in Nat /\ Len(wire) >= 1 /\ Len(wire') = Len(wire) - 1
      /\ Head(wire) = wire[1] /\ \A i \in 1 .. Len(wire) - 1 : wire'[i] = wire[i + 1]
  BY <1>1, FirstTaken DEF VoiceInv, WireOK
<1>3. /\ 1 \in 1 .. Len(wire)
      /\ \A i \in 1 .. Len(wire') : i + 1 \in 1 .. Len(wire) /\ wire'[i] = wire[i + 1]
  BY <1>2
<1>4. \A i \in 1 .. Len(wire') : wire'[i].house \in House /\ Settable(wire'[i].params)
  BY <1>3 DEF VoiceTypes
<1>5. lamp' \in Lamp
  <2>1. CASE lamp' = lamp
    BY <2>1 DEF VoiceTypes
  <2>2. CASE lamp' = Over(wire[1].params, lamp)
    <3>1. Settable(wire[1].params) /\ Settable(lamp) /\ DOMAIN lamp = AllParams
      BY <1>3, LampIs DEF VoiceTypes
    <3>2. Settable(lamp') /\ DOMAIN lamp' = AllParams /\ lamp' = [n \in DOMAIN lamp' |-> lamp'[n]]
      <4>1. PICK o : o = Over(wire[1].params, lamp)
        OBVIOUS
      <4>2. Settable(o)
        BY <3>1, <4>1, OverTyped
      <4>3. DOMAIN o = AllParams /\ o = [n \in DOMAIN o |-> o[n]]
        BY <3>1, <4>1 DEF Over, Settable
      <4> QED BY <2>2, <4>1, <4>2, <4>3
    <3> QED BY <3>2, LampIs
  <2> QED BY <1>2, <2>1, <2>2 DEF Takes
<1>6. applied' \in SkillCall \union {"none", "hand"}
  <2>1. wire[1].from \in SkillCall
    BY <1>3 DEF VoiceInv, WireOK
  <2> QED BY <1>2, <2>1 DEF Takes, VoiceTypes
<1>7. PICK none : none = NoRequest
  OBVIOUS
<1>8. none.at = "none"
  BY <1>7 DEF NoRequest
<1>9. \A r \in SkillCall : request'[r] = request[r] \/ request'[r] = none
  BY <1>1, <1>7 DEF Remembered
<1>10. \A r \in SkillCall : request'[r].at \in {"read", "publish"} => request'[r].house \in House
  BY <1>8, <1>9 DEF VoiceTypes
<1> QED BY <1>1, <1>4, <1>5, <1>6, <1>10 DEF VoiceTypes, settings

\* The lamp is changed by hand.
LEMMA HandTyped ==
    ASSUME VoiceInv, VoiceTypes, ByHand
    PROVE  VoiceTypes'
<1>1. /\ UNCHANGED <<lampHouse, settings, online, shadow, wire, cookie>>
      /\ changes' = changes + 1 /\ changes < MaxChanges /\ applied' = "hand"
  BY DEF ByHand
<1>2. changes' \in 0 .. MaxChanges
  BY <1>1, VoiceConstants DEF VoiceTypes
<1>3. PICK on \in BOOLEAN, level \in Levels : lamp' = [lamp EXCEPT !.on = on, !.level = level]
  BY DEF ByHand
<1>4. lamp' \in Lamp
  <2>1. PICK l : l = [lamp EXCEPT !.on = on, !.level = level]
    OBVIOUS
  <2>2. lamp = [n \in AllParams |-> lamp[n]] /\ Settable(lamp)
    BY LampIs DEF VoiceTypes
  <2>3. on \in Setting("on") /\ level \in Setting("level")
    BY DEF Setting
  <2>4. l = [n \in AllParams |-> l[n]] /\ DOMAIN l = AllParams
    BY <2>1, <2>2
  <2>5. \A n \in AllParams : l[n] \in Setting(n)
    BY <2>1, <2>2, <2>3 DEF Settable
  <2>6. Settable(l)
    BY <2>4, <2>5 DEF Settable
  <2>7. lamp' = l
    BY <1>3, <2>1
  <2> QED BY <2>4, <2>6, <2>7, LampIs
<1>5. \A r \in SkillCall : request'[r].at \in {"read", "publish"} => request'[r].house \in House
  <2> SUFFICES ASSUME NEW r \in SkillCall
               PROVE  request'[r].at \in {"read", "publish"} => request'[r].house \in House
    OBVIOUS
  <2>1. PICK q : q = [request[r] EXCEPT !.lit = FALSE]
    OBVIOUS
  <2>2. request'[r] = q
    BY <2>1 DEF ByHand
  <2>3. q.at = request[r].at /\ q.house = request[r].house
    BY <2>1 DEF VoiceInv, RequestsOK, RequestOK, RequestFields
  <2> QED BY <2>2, <2>3 DEF VoiceTypes
<1> QED BY <1>1, <1>2, <1>4, <1>5 DEF VoiceTypes, settings

\* The lamp reports, moves or is cut off, and is discovered.
LEMMA QuietTyped ==
    ASSUME VoiceInv, VoiceTypes, Reports \/ (\E h \in House : Moves(h)) \/ Drops \/ Discovers
    PROVE  VoiceTypes'
<1>1. UNCHANGED <<lamp, settings, wire, request, applied>>
  BY DEF Reports, Moves, Drops, Discovers, lampVars
<1>2. changes' \in 0 .. MaxChanges /\ online' \in BOOLEAN
  <2>1. changes' = changes \/ (changes < MaxChanges /\ changes' = changes + 1)
    BY DEF Reports, Moves, Drops, Discovers
  <2>2. changes' \in 0 .. MaxChanges
    BY <2>1, VoiceConstants DEF VoiceTypes
  <2>3. online' = online \/ online' = FALSE
    BY DEF Reports, Moves, Drops, Discovers, lampVars
  <2> QED BY <2>2, <2>3 DEF VoiceTypes
<1>3. shadow' \in [online : BOOLEAN, params : Lamp]
  <2>1. CASE Drops
    <3>1. PICK s : s = [shadow EXCEPT !.online = FALSE]
      OBVIOUS
    <3>2. s \in [online : BOOLEAN, params : Lamp]
      BY <3>1 DEF VoiceTypes
    <3>3. shadow' = shadow \/ shadow' = s
      BY <2>1, <3>1 DEF Drops
    <3> QED BY <3>2, <3>3 DEF VoiceTypes
  <2>2. CASE Reports
    BY <2>2 DEF Reports, VoiceTypes
  <2>3. CASE Discovers \/ \E h \in House : Moves(h)
    BY <2>3 DEF Moves, Discovers, VoiceTypes
  <2> QED BY <2>1, <2>2, <2>3
<1>4. cookie' \in [house : House \union {NoHouse}, params : SUBSET AllParams]
  <2>1. CASE Discovers
    <3>1. lampHouse \in House /\ lampParams \in SUBSET AllParams
      BY DEF VoiceInv, LampOK, VoiceTypes
    <3>2. PICK P \in SUBSET AllParams : cookie' = [house |-> lampHouse, params |-> P]
      BY <2>1, <3>1 DEF Discovers, AlexaCookie, GvaCookie, SmartThingsCookie
    <3> QED BY <3>1, <3>2
  <2> QED BY <2>1 DEF Reports, Moves, Drops, VoiceTypes
<1> QED BY <1>1, <1>2, <1>3, <1>4 DEF VoiceTypes, settings

\* A command begins, is refused, reads or publishes.
LEMMA RequestTyped ==
    ASSUME VoiceInv, VoiceTypes, NEW r \in SkillCall,
           (\E command \in Command : Begins(r, command)) \/ Refuses(r) \/ Reads(r) \/ Publishes(r)
    PROVE  VoiceTypes'
<1>1. UNCHANGED <<lampVars, settings, shadow, cookie, changes>>
  BY DEF Begins, Refuses, Reads, Publishes
<1>2. /\ DOMAIN request = SkillCall /\ \A p \in SkillCall : DOMAIN request[p] = RequestFields
      /\ lampHouse \in House /\ skill \in Assistant
  BY DEF VoiceInv, RequestsOK, RequestOK, LampOK
<1>3. PICK none : none = NoRequest
  OBVIOUS
<1>4. none.at = "none" /\ DOMAIN none = RequestFields
  BY <1>3 DEF NoRequest, RequestFields
<1>5. CASE Publishes(r)
  <2>1. PICK q : q = request[r]
    OBVIOUS
  <2>2. /\ q.at = "publish" /\ q.command \in Command /\ Knows(q.command[1])
        /\ q.saw.level \in Levels /\ q.house \in House
    BY <1>5, <2>1 DEF Publishes, VoiceInv, RequestsOK, RequestOK, VoiceTypes
  <2>3. PICK params : params = ParamsOf(q.command[1], q.command[2], q.saw)
    OBVIOUS
  <2>4. Settable(params)
    BY <1>2, <2>2, <2>3, ParamsTyped
  <2>5. PICK m : m = [house |-> q.house, params |-> params, from |-> r]
    OBVIOUS
  <2>6. wire' = Append(wire, m)
    BY <1>5, <2>1, <2>3, <2>5 DEF Publishes, TopicOf
  <2>7. /\ Len(wire) \in Nat /\ Len(wire') = Len(wire) + 1
        /\ \A i \in 1 .. Len(wire) : wire'[i] = wire[i]
        /\ wire'[Len(wire) + 1] = m
    BY <2>6, OneAppended DEF VoiceInv, WireOK
  <2>8. \A i \in 1 .. Len(wire') : wire'[i].house \in House /\ Settable(wire'[i].params)
    <3>1. m.house \in House /\ Settable(m.params)
      BY <2>2, <2>4, <2>5
    <3>2. \A i \in 1 .. Len(wire') : i \in 1 .. Len(wire) \/ i = Len(wire) + 1
      BY <2>7
    <3> QED BY <2>7, <3>1, <3>2 DEF VoiceTypes
  <2>9. \A p \in SkillCall : request'[p].at \in {"read", "publish"} => request'[p].house \in House
    <3> SUFFICES ASSUME NEW p \in SkillCall
                 PROVE  request'[p].at \in {"read", "publish"} => request'[p].house \in House
      OBVIOUS
    <3>1. CASE p = r
      <4>1. PICK d : d = [q EXCEPT !.at = "answered", !.params = params, !.saw = NoRequest.saw]
        OBVIOUS
      <4>2. d.at = "answered"
        BY <1>2, <2>1, <4>1 DEF RequestFields
      <4>3. request'[p] = d
        BY <1>5, <2>1, <2>3, <3>1, <4>1 DEF Publishes
      <4> QED BY <4>2, <4>3
    <3>2. CASE p # r
      <4>1. PICK d : d = [request[p] EXCEPT !.lit = FALSE]
        OBVIOUS
      <4>2. d.at = request[p].at /\ d.house = request[p].house
        BY <1>2, <4>1 DEF RequestFields
      <4>3. request'[p] = d
        BY <1>5, <3>2, <4>1 DEF Publishes
      <4> QED BY <4>2, <4>3 DEF VoiceTypes
    <3> QED BY <3>1, <3>2
  <2> QED BY <1>1, <2>8, <2>9 DEF VoiceTypes, lampVars, settings
<1>6. ASSUME NEW d, d.at \in {"read", "publish"} => d.house \in House,
             request' = [request EXCEPT ![r] = d], wire' = wire
      PROVE  VoiceTypes'
  <2>1. \A p \in SkillCall : request'[p].at \in {"read", "publish"} => request'[p].house \in House
    BY <1>2, <1>6 DEF VoiceTypes
  <2> QED BY <1>1, <1>6, <2>1 DEF VoiceTypes, lampVars, settings
<1>7. CASE Refuses(r)
  BY <1>3, <1>4, <1>6, <1>7 DEF Refuses
<1>8. ASSUME NEW command \in Command, Begins(r, command) PROVE VoiceTypes'
  <2>1. PICK d : d = [none EXCEPT !.at = "read", !.command = command, !.house = CommandHouse]
    OBVIOUS
  <2>2. d.house = CommandHouse
    BY <1>4, <2>1 DEF RequestFields
  <2>3. CommandHouse \in House
    BY <1>2, <1>8 DEF Begins, Allowed
  <2>4. request' = [request EXCEPT ![r] = d] /\ wire' = wire
    BY <1>3, <1>8, <2>1 DEF Begins
  <2> QED BY <1>6, <2>2, <2>3, <2>4
<1>9. CASE Reads(r)
  <2>1. PICK saw, lit : /\ request' = [request EXCEPT ![r].at = "publish", ![r].saw = saw, ![r].lit = lit]
                        /\ wire' = wire /\ request[r].at = "read"
    BY <1>9 DEF Reads
  <2>2. PICK d : d = [request[r] EXCEPT !.at = "publish", !.saw = saw, !.lit = lit]
    OBVIOUS
  <2>3. d.house = request[r].house
    BY <1>2, <2>2 DEF RequestFields
  <2>4. request' = [request EXCEPT ![r] = d]
    BY <1>2, <2>1, <2>2
  <2>5. d.house \in House
    BY <2>1, <2>3 DEF VoiceTypes
  <2> QED BY <1>6, <2>1, <2>4, <2>5
<1> QED BY <1>5, <1>7, <1>8, <1>9

\* The lamp, its shadow, the messages on their way to it and the requests keep
\* their types, whichever assistant sets which parameter.
LEMMA VoiceTyped == VoiceSpec => []VoiceTypeOK
<1>1. VoiceInit => VoiceTypes
  <2> SUFFICES ASSUME VoiceInit PROVE VoiceTypes
    OBVIOUS
  <2>1. lamp \in Lamp
    <3>1. PICK h \in Hue, w \in Warmth, s \in Speed, m \in {"hsv", "cct"} :
             lamp = [on |-> FALSE, level |-> FullLevel, hue |-> h, warm |-> w, mode |-> m, speed |-> s]
      BY DEF VoiceInit
    <3>2. FullLevel \in Levels
      BY VoiceConstants DEF Levels
    <3>3. [on |-> FALSE, level |-> FullLevel, hue |-> h, warm |-> w, mode |-> m, speed |-> s] \in Lamp
      BY <3>2 DEF Lamp
    <3> QED BY <3>1, <3>3
  <2>2. PICK none : none = NoRequest
    OBVIOUS
  <2>3. none.at = "none"
    BY <2>2 DEF NoRequest
  <2>4. \A r \in SkillCall : request[r] = none
    BY <2>2 DEF VoiceInit
  <2>5. shadow \in [online : BOOLEAN, params : Lamp] /\ online \in BOOLEAN
    BY <2>1 DEF VoiceInit
  <2>6. cookie \in [house : House \union {NoHouse}, params : SUBSET AllParams]
    BY DEF VoiceInit
  <2>7. /\ mayUse \subseteq House /\ lampParams \subseteq AllParams
        /\ changes \in 0 .. MaxChanges /\ applied \in SkillCall \union {"none", "hand"}
        /\ Len(wire) = 0
    BY VoiceConstants DEF VoiceInit, AllParams
  <2> QED BY <2>1, <2>3, <2>4, <2>5, <2>6, <2>7 DEF VoiceTypes
<1>2. VoiceInv /\ VoiceTypes /\ [VoiceNext]_voiceVars => VoiceTypes'
  <2>1. VoiceTypes /\ UNCHANGED voiceVars => VoiceTypes'
    BY DEF VoiceTypes, voiceVars
  <2> QED BY <2>1, TakenTyped, HandTyped, QuietTyped, RequestTyped DEF VoiceNext
<1>3. VoiceInv /\ VoiceTypes => VoiceTypeOK
  BY DEF VoiceInv, LampOK, RequestsOK, RequestOK, WireOK, VoiceTypes, VoiceTypeOK, Settable
<1> QED BY <1>1, <1>2, <1>3, VoiceAlways, PTL DEF VoiceSpec

----------------------------------------------------------------------------
(* MCMessages: all of them.  A behaviour of it is one of one component     *)
(* while the others stay where they start.                                 *)

\* Each component starts, and steps or stays, as its own specification says.
LEMMA MessagesSteps ==
    /\ MessagesInit => /\ DeliveryInit /\ VoiceInit /\ ReportsInit /\ ChecksInit
                       /\ SeriesInit /\ QueryInit /\ TableInit /\ AutoInit
    /\ [MessagesNext]_messagesVars =>
          /\ [DeliveryNext]_deliveryVars /\ [VoiceNext]_voiceVars
          /\ [ReportsNext]_reportsVars /\ [ChecksNext]_checksVars
          /\ [SeriesNext]_tsVars /\ [QueryNext]_queryVars
          /\ [TableNext]_tableVars /\ [AutoNext]_autoVars
<1>1. MessagesInit => /\ DeliveryInit /\ VoiceInit /\ ReportsInit /\ ChecksInit
                      /\ SeriesInit /\ QueryInit /\ TableInit /\ AutoInit
  BY DEF MessagesInit
<1>2. MessagesNext =>
          /\ [DeliveryNext]_deliveryVars /\ [VoiceNext]_voiceVars
          /\ [ReportsNext]_reportsVars /\ [ChecksNext]_checksVars
          /\ [SeriesNext]_tsVars /\ [QueryNext]_queryVars
          /\ [TableNext]_tableVars /\ [AutoNext]_autoVars
  BY DEF MessagesNext
<1>3. messagesVars' = messagesVars =>
          /\ deliveryVars' = deliveryVars /\ voiceVars' = voiceVars
          /\ reportsVars' = reportsVars /\ checksVars' = checksVars
          /\ tsVars' = tsVars /\ queryVars' = queryVars
          /\ tableVars' = tableVars /\ autoVars' = autoVars
  BY DEF messagesVars
<1> QED BY <1>1, <1>2, <1>3

\* Every component of the run of MCMessages follows its own specification: a
\* step of one is no step of another.
THEOREM MessagesOfEach ==
    MessagesSpec =>
        /\ DeliverySpec /\ VoiceSpec /\ ReportsSpec /\ ChecksSpec
        /\ SeriesSpec /\ QuerySpec /\ TableSpec /\ AutoSpec
BY MessagesSteps, PTL DEF MessagesSpec, DeliverySpec, VoiceSpec, ReportsSpec, ChecksSpec,
                          SeriesSpec, QuerySpec, TableSpec, AutoSpec

\* What nodes, users and assistants tell each other keeps its types: tokens
\* are no later than those issued, the stream is of rows of the raw table and
\* a batch a prefix of it, no chunk is tried more often than it may be, and
\* automations name nodes with conditions on them.
THEOREM MessagesTypes == MessagesSpec => []MessagesTypeOK
<1>1. /\ DeliveryTypeOK /\ VoiceTypeOK /\ ReportsTypeOK /\ ChecksTypeOK
      /\ SeriesTypeOK /\ QueryTypeOK /\ TableTypeOK /\ AutoTypeOK
      => MessagesTypeOK
  BY DEF MessagesTypeOK
<1> QED BY <1>1, MessagesOfEach, DeliveryTyped, VoiceTyped, ReportsTyped, ChecksTyped,
           SeriesTyped, QueryTyped, TableTyped, AutoTyped, PTL

=============================================================================
