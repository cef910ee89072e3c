--------------------------- MODULE DevicesProofs ---------------------------
(***************************************************************************)
(* Proofs about nodes and those who own them, one component after another: *)
(* the fabric of a group, the sign-ins of its users and the counts of a    *)
(* bulk job, for any numbers of groups, rows, users and invocations at     *)
(* work; and about all of them together (MCDevices), with what             *)
(* NodePlacementProofs and FleetProofs show of the others.                 *)
(***************************************************************************)
EXTENDS MCDevices, NodePlacementProofs, FleetProofs, FiniteSetTheorems, TLAPS

---------------------------------------------------------------------------
(* GroupFabric: the fabric is kept *)

\* A fabric that has been made, with versions that have begun.
MadeFabric == [made : {"none", "creation"} \union EnableCall,
               admin : Nat \ {0}, operate : Nat \ {0}]

\* A removal about to write the column back has the fabric of the column.
KeptInv ==
    /\ fabric = NoFabric \/ fabric \in MadeFabric
    /\ DOMAIN exitCall = ExitCall
    /\ \A c \in ExitCall : {"at", "saw", "was"} \subseteq DOMAIN exitCall[c]
    /\ \A c \in ExitCall : exitCall[c].at = "rotate" =>
          /\ exitCall[c].saw \in MadeFabric
          /\ fabric # NoFabric /\ fabric.made = exitCall[c].saw.made

\* A fabric is not the absence of one, and one with a version incremented is
\* the same fabric.
LEMMA MadeFabrics ==
    /\ NoFabric \notin MadeFabric
    /\ \A maker \in {"creation"} \union EnableCall : NewFabric(maker) \in MadeFabric
    /\ \A f \in MadeFabric, access \in Seats :
          /\ Incremented(f, CatOf(access)) \in MadeFabric
          /\ Incremented(f, CatOf(access)).made = f.made
<1>1. NoFabric \notin MadeFabric
  BY DEF NoFabric, MadeFabric
<1>2. \A maker \in {"creation"} \union EnableCall : NewFabric(maker) \in MadeFabric
  BY DEF NewFabric, MadeFabric
<1>3. ASSUME NEW f \in MadeFabric
      PROVE  /\ [f EXCEPT !.admin = @ + 1] \in MadeFabric
             /\ [f EXCEPT !.admin = @ + 1].made = f.made
             /\ [f EXCEPT !.operate = @ + 1] \in MadeFabric
             /\ [f EXCEPT !.operate = @ + 1].made = f.made
  BY DEF MadeFabric
<1> QED BY <1>1, <1>2, <1>3 DEF Incremented, CatOf

\* The exits after a step of one of them that is not about to write next.
LEMMA ExitGoesOn ==
    ASSUME KeptInv, NEW c \in ExitCall, fabric' = fabric, NEW e,
           {"at", "saw", "was"} \subseteq DOMAIN e,
           e.at = "rotate" => e.saw = fabric /\ fabric # NoFabric,
           exitCall' = [exitCall EXCEPT ![c] = e]
    PROVE  KeptInv'
BY DEF KeptInv

\* Every step keeps KeptInv, and the fabric there is.
LEMMA KeptStep ==
    ASSUME KeptInv, [FabricNext]_fabricVars
    PROVE  KeptInv' /\ (fabric # NoFabric => fabric'.made = fabric.made)
<1>1. ASSUME NEW c \in ExitCall, Rotate(c)
      PROVE  KeptInv' /\ (fabric # NoFabric => fabric'.made = fabric.made)
  <2> DEFINE saw == exitCall[c].saw
             e == [exitCall[c] EXCEPT !.at = "done"]
  <2>1. saw \in MadeFabric /\ fabric.made = saw.made /\ fabric # NoFabric
    BY <1>1 DEF Rotate, KeptInv
  <2>2. \/ fabric' = Incremented(saw, CatOf("primary"))
        \/ fabric' = Incremented(saw, CatOf("secondary"))
    BY <1>1 DEF Rotate, CatOf
  <2>3. fabric' \in MadeFabric /\ fabric'.made = fabric.made /\ fabric' # NoFabric
    BY <2>1, <2>2, MadeFabrics DEF Seats
  <2>4. exitCall' = [exitCall EXCEPT ![c] = e]
    BY <1>1 DEF Rotate
  <2>5. {"at", "saw", "was"} \subseteq DOMAIN e /\ e.at = "done"
    BY DEF KeptInv
  <2> HIDE DEF e
  <2> QED BY <2>3, <2>4, <2>5 DEF KeptInv
<1>2. ASSUME NEW c \in EnableCall, StoreFabric(c)
      PROVE  KeptInv' /\ (fabric # NoFabric => fabric'.made = fabric.made)
  BY <1>2, MadeFabrics DEF StoreFabric, KeptInv
<1>3. ASSUME NEW c \in ExitCall,
             \/ \E u, t \in FabricUser : BeginExit(c, u, t)
             \/ RemoveMember(c) \/ RefuseExit(c) \/ ReadFabric(c) \/ HookFails(c)
             \/ ExitReturns(c)
      PROVE  KeptInv' /\ fabric' = fabric
  <2>1. fabric' = fabric
    BY <1>3 DEF BeginExit, RemoveMember, RefuseExit, ReadFabric, HookFails, ExitReturns
  <2>2. ASSUME NEW at \in {"hook", "done"}, exitCall' = [exitCall EXCEPT ![c].at = at]
        PROVE  KeptInv'
    <3> DEFINE e == [exitCall[c] EXCEPT !.at = at]
    <3>1. {"at", "saw", "was"} \subseteq DOMAIN e /\ e.at = at
      BY DEF KeptInv
    <3> HIDE DEF e
    <3>2. exitCall' = [exitCall EXCEPT ![c] = e]
      BY <2>2 DEF e
    <3> QED BY <2>1, <3>1, <3>2, ExitGoesOn
  <2>3. CASE \E u, t \in FabricUser : BeginExit(c, u, t)
    BY <2>1, <2>3, ExitGoesOn DEF BeginExit
  <2>4. CASE RefuseExit(c) \/ ExitReturns(c)
    BY <2>1, <2>4, ExitGoesOn DEF RefuseExit, ExitReturns, IdleExit
  <2>5. CASE ReadFabric(c)
    <3> DEFINE e == [exitCall[c] EXCEPT !.saw = fabric,
                            !.at = IF fabric = NoFabric THEN "done" ELSE "rotate"]
    <3>1. /\ {"at", "saw", "was"} \subseteq DOMAIN e /\ e.saw = fabric
          /\ e.at = "rotate" => fabric # NoFabric
      BY DEF KeptInv
    <3>2. exitCall' = [exitCall EXCEPT ![c] = e]
      BY <2>5 DEF ReadFabric
    <3> HIDE DEF e
    <3> QED BY <2>1, <3>1, <3>2, ExitGoesOn
  <2>6. CASE RemoveMember(c) \/ HookFails(c)
    BY <2>2, <2>6 DEF RemoveMember, HookFails
  <2> QED BY <1>3, <2>1, <2>3, <2>4, <2>5, <2>6
<1>4. ASSUME fabric' = fabric, exitCall' = exitCall
      PROVE  KeptInv' /\ fabric' = fabric
  BY <1>4 DEF KeptInv
<1>5. ASSUME NEW u \in FabricUser,
             \/ \E access \in Seats \ {"none"} : Join(u, access)
             \/ \E c \in NocCall : BeginNoc(c, u)
             \/ \E c \in EnableCall : BeginEnable(c, u)
      PROVE  KeptInv' /\ fabric' = fabric
  BY <1>4, <1>5 DEF Join, BeginNoc, BeginEnable
<1>6. ASSUME NEW c \in NocCall, LoadFabric(c) \/ SignNoc(c)
      PROVE  KeptInv' /\ fabric' = fabric
  BY <1>4, <1>6 DEF LoadFabric, SignNoc
<1>7. CASE UNCHANGED fabricVars
  BY <1>4, <1>7 DEF fabricVars
<1> QED BY <1>1, <1>2, <1>3, <1>5, <1>6, <1>7 DEF FabricNext

\* Whoever enables Matter on the group, at once or while a removal rotates a
\* version (the hook writes the whole column back), a fabric devices trust is
\* never replaced by another.
THEOREM OneFabricForGood == FabricSpec => FabricIsKept
<1>1. FabricInit => KeptInv
  <2> SUFFICES ASSUME FabricInit PROVE KeptInv
    OBVIOUS
  <2>1. \A c \in ExitCall : exitCall[c] = IdleExit
    BY DEF FabricInit
  <2>2. {"at", "saw", "was"} \subseteq DOMAIN IdleExit /\ IdleExit.at = "idle"
    BY DEF IdleExit
  <2> QED BY <2>1, <2>2, MadeFabrics DEF FabricInit, KeptInv
<1>2. KeptInv /\ [FabricNext]_fabricVars => KeptInv'
  BY KeptStep
<1>3. KeptInv /\ [FabricNext]_fabricVars =>
        [fabric # NoFabric => fabric'.made = fabric.made]_fabricVars
  BY KeptStep
<1> QED BY <1>1, <1>2, <1>3, PTL DEF FabricSpec, FabricIsKept

---------------------------------------------------------------------------
(* GroupFabric: a removed member's certificates are superseded.  With one  *)
(* removal at a time nothing comes between a hook's read of the column and *)
(* its write, so versions only grow, and what the hook advances is the     *)
(* role the member lost.                                                   *)

OneExit == \A c, d \in ExitCall : c = d

Cat == {"admin", "operate"}
AnyFabric == MadeFabric \union {NoFabric}
ExitState == [at : {"idle", "remove", "hook", "rotate", "done"},
              target : FabricUser \union {NoFabricUser}, was : Seats, sharer : BOOLEAN,
              saw : AnyFabric]
NocState == [at : {"idle", "load", "sign"}, user : FabricUser \union {NoFabricUser},
             saw : AnyFabric]

RemovalTypes ==
    /\ fabric \in AnyFabric
    /\ seat \in [FabricUser -> Seats] /\ lastSeat \in [FabricUser -> Seats]
    /\ exitCall \in [ExitCall -> ExitState] /\ nocCall \in [NocCall -> NocState]
    /\ nocs \subseteq [user : FabricUser, cat : Cat, version : Nat]

NotAhead(f) == fabric # NoFabric /\ f \in MadeFabric /\ \A cat \in Cat : f[cat] <= fabric[cat]

\* No version handed out, or held for a certificate, is ahead of the column.
VersionsInv ==
    /\ \A n \in nocs : fabric # NoFabric /\ n.version <= fabric[n.cat]
    /\ \A c \in NocCall : nocCall[c].at \in {"load", "sign"} => nocCall[c].user \in FabricUser
    /\ \A c \in NocCall : nocCall[c].at = "sign" => NotAhead(nocCall[c].saw)

\* A member being removed keeps its role until then, and has none after.
ExitOK(e) ==
    /\ e.at \in {"remove", "hook", "rotate"} => e.target \in FabricUser
    /\ e.at = "remove" => e.was \in {"none", seat[e.target]}
    /\ e.at \in {"hook", "rotate"} =>
          e.was # "none" /\ seat[e.target] = "none" /\ lastSeat[e.target] = e.was
    /\ e.at = "rotate" => e.saw = fabric /\ fabric # NoFabric
ExitsInv == \A c \in ExitCall : ExitOK(exitCall[c])

Behind(u) == \A n \in nocs : n.user = u /\ n.cat = CatOf(lastSeat[u]) => n.version < fabric[n.cat]
Exiting(u) == \E c \in ExitCall : exitCall[c].target = u /\ exitCall[c].at \in {"hook", "rotate"}
BehindInv ==
    \A u \in FabricUser : seat[u] = "none" /\ lastSeat[u] # "none" /\ ~Exiting(u) => Behind(u)

RemovalInv == RemovalTypes /\ VersionsInv /\ ExitsInv /\ BehindInv

\* A made fabric has natural versions, and one incremented has a larger one.
LEMMA Versions ==
    /\ \A f \in MadeFabric : f.admin \in Nat /\ f.operate \in Nat /\ f["admin"] = f.admin
                             /\ f["operate"] = f.operate
    /\ \A f \in MadeFabric, cat \in Cat :
          /\ Incremented(f, cat) \in MadeFabric
          /\ Incremented(f, cat)[cat] = f[cat] + 1
          /\ \A other \in Cat \ {cat} : Incremented(f, cat)[other] = f[other]
    /\ \A access \in Seats : CatOf(access) \in Cat
    /\ NoFabric \notin MadeFabric
<1>1. ASSUME NEW f \in MadeFabric
      PROVE  /\ f.admin \in Nat /\ f.operate \in Nat
             /\ f["admin"] = f.admin /\ f["operate"] = f.operate
             /\ f = [made |-> f.made, admin |-> f.admin, operate |-> f.operate]
  BY DEF MadeFabric
<1>2. ASSUME NEW f \in MadeFabric, NEW g, g = [f EXCEPT !.admin = @ + 1]
      PROVE  g \in MadeFabric /\ g.admin = f.admin + 1 /\ g.operate = f.operate
  BY <1>2 DEF MadeFabric
<1>3. ASSUME NEW f \in MadeFabric, NEW g, g = [f EXCEPT !.operate = @ + 1]
      PROVE  g \in MadeFabric /\ g.operate = f.operate + 1 /\ g.admin = f.admin
  BY <1>3 DEF MadeFabric
<1>4. ASSUME NEW f \in MadeFabric, NEW cat \in Cat
      PROVE  /\ Incremented(f, cat) \in MadeFabric
             /\ Incremented(f, cat)[cat] = f[cat] + 1
             /\ \A other \in Cat \ {cat} : Incremented(f, cat)[other] = f[other]
  <2>1. PICK g : g = Incremented(f, cat)
    OBVIOUS
  <2>2. CASE cat = "admin"
    <3>1. g = [f EXCEPT !.admin = @ + 1]
      BY <2>1, <2>2 DEF Incremented
    <3>2. g \in MadeFabric /\ g.admin = f.admin + 1 /\ g.operate = f.operate
      BY <1>2, <3>1
    <3> QED BY <1>1, <2>1, <2>2, <3>2 DEF Cat
  <2>3. CASE cat = "operate"
    <3>1. g = [f EXCEPT !.operate = @ + 1]
      BY <2>1, <2>3 DEF Incremented
    <3>2. g \in MadeFabric /\ g.operate = f.operate + 1 /\ g.admin = f.admin
      BY <1>3, <3>1
    <3> QED BY <1>1, <2>1, <2>3, <3>2 DEF Cat
  <2> QED BY <2>2, <2>3 DEF Cat
<1> QED BY <1>1, <1>4, MadeFabrics DEF CatOf, Cat

\* Joining concerns nobody being removed.
LEMMA JoinStep ==
    ASSUME RemovalInv, ~RolesMayChange, NEW u \in FabricUser, NEW access \in Seats \ {"none"},
           Join(u, access)
    PROVE  RemovalInv'
<1>1. /\ seat[u] = "none" /\ \A c \in ExitCall : exitCall[c].target # u
      /\ seat' = [seat EXCEPT ![u] = access]
      /\ UNCHANGED <<fabric, lastSeat, nocs, exitCall, nocCall>>
  BY DEF Join
<1>2. RemovalTypes'
  BY <1>1 DEF RemovalInv, RemovalTypes
<1>3. VersionsInv'
  BY <1>1 DEF RemovalInv, VersionsInv, NotAhead
<1>4. ExitsInv'
  BY <1>1 DEF RemovalInv, RemovalTypes, ExitsInv, ExitOK
<1>5. BehindInv'
  BY <1>1 DEF RemovalInv, RemovalTypes, BehindInv, Behind, Exiting
<1> QED BY <1>2, <1>3, <1>4, <1>5 DEF RemovalInv

\* An invocation goes on to a state of its own kind: nothing else is touched.
LEMMA NocGoesOn ==
    ASSUME RemovalInv, NEW c \in NocCall, NEW e \in NocState,
           nocCall' = [nocCall EXCEPT ![c] = e],
           e.at \in {"load", "sign"} => e.user \in FabricUser,
           e.at = "sign" => NotAhead(e.saw),
           UNCHANGED <<fabric, seat, lastSeat, exitCall>>,
           nocs' \subseteq [user : FabricUser, cat : Cat, version : Nat],
           \A n \in nocs' \ nocs : /\ fabric # NoFabric /\ n.version <= fabric[n.cat]
                                   /\ seat[n.user] # "none"
    PROVE  RemovalInv'
<1>1. RemovalTypes'
  BY DEF RemovalInv, RemovalTypes
<1>2. VersionsInv'
  BY DEF RemovalInv, RemovalTypes, VersionsInv, NotAhead
<1>3. ExitsInv'
  BY DEF RemovalInv, ExitsInv, ExitOK
<1>4. BehindInv'
  BY DEF RemovalInv, RemovalTypes, BehindInv, Behind, Exiting
<1> QED BY <1>1, <1>2, <1>3, <1>4 DEF RemovalInv

\* A certificate is for a member, under a version that is not ahead.
LEMMA NocsStep ==
    ASSUME RemovalInv, NEW c \in NocCall,
           (\E u \in FabricUser : BeginNoc(c, u)) \/ LoadFabric(c) \/ SignNoc(c)
    PROVE  RemovalInv'
<1>0. IdleNoc \in NocState /\ IdleNoc.at = "idle"
  BY DEF IdleNoc, NocState, AnyFabric
<1>1. nocCall[c] \in NocState /\ nocs \subseteq [user : FabricUser, cat : Cat, version : Nat]
      /\ fabric \in AnyFabric
  BY DEF RemovalInv, RemovalTypes
<1>2. ASSUME NEW u \in FabricUser, BeginNoc(c, u) PROVE RemovalInv'
  <2> DEFINE e == [at |-> "load", user |-> u, saw |-> NoFabric]
  <2>1. e \in NocState /\ e.at = "load" /\ e.user = u
    BY DEF NocState, AnyFabric
  <2>2. /\ nocCall' = [nocCall EXCEPT ![c] = e]
        /\ UNCHANGED <<fabric, seat, lastSeat, exitCall, nocs>>
    BY <1>2 DEF BeginNoc
  <2> HIDE DEF e
  <2> QED BY <1>1, <2>1, <2>2, NocGoesOn
<1>3. CASE LoadFabric(c)
  <2> DEFINE e == [nocCall[c] EXCEPT !.at = "sign", !.saw = fabric]
  <2>1. UNCHANGED <<fabric, seat, lastSeat, exitCall, nocs>> /\ nocCall[c].user \in FabricUser
    BY <1>3 DEF LoadFabric, RemovalInv, VersionsInv
  <2>2. CASE fabric = NoFabric
    <3>1. nocCall' = [nocCall EXCEPT ![c] = IdleNoc]
      BY <1>3, <2>2 DEF LoadFabric
    <3> QED BY <1>0, <1>1, <2>1, <3>1, NocGoesOn
  <2>3. CASE fabric # NoFabric
    <3>1. nocCall' = [nocCall EXCEPT ![c] = e]
      BY <1>3, <2>3 DEF LoadFabric
    <3>2. e \in NocState /\ e.at = "sign" /\ e.user \in FabricUser /\ e.saw = fabric
      BY <1>1, <2>1 DEF NocState
    <3>3. NotAhead(fabric)
      BY <1>1, <2>3, Versions DEF NotAhead, AnyFabric, Cat
    <3> HIDE DEF e
    <3>4. nocs' \subseteq [user : FabricUser, cat : Cat, version : Nat] /\ nocs' \ nocs = {}
      BY <1>1, <2>1
    <3> QED BY <2>1, <3>1, <3>2, <3>3, <3>4, NocGoesOn
  <2> QED BY <2>2, <2>3
<1>4. CASE SignNoc(c)
  <2> DEFINE u == nocCall[c].user
             saw == nocCall[c].saw
             cat == CatOf(seat[u])
             n == [user |-> u, cat |-> cat, version |-> saw[cat]]
  <2>1. /\ u \in FabricUser /\ NotAhead(saw) /\ seat[u] \in Seats
        /\ UNCHANGED <<fabric, seat, lastSeat, exitCall>>
        /\ nocCall' = [nocCall EXCEPT ![c] = IdleNoc]
    BY <1>4 DEF SignNoc, RemovalInv, RemovalTypes, VersionsInv
  <2>2. nocs' = nocs \/ (nocs' = nocs \union {n} /\ seat[u] # "none")
    BY <1>4 DEF SignNoc, Refused, InWholeGroup, Noc
  <2>3. cat \in Cat /\ saw[cat] \in Nat /\ saw[cat] <= fabric[cat] /\ fabric # NoFabric
    <3>1. cat \in Cat
      BY <2>1, Versions
    <3> HIDE DEF cat
    <3> QED BY <2>1, <3>1, Versions DEF NotAhead, Cat
  <2>4. n \in [user : FabricUser, cat : Cat, version : Nat]
    BY <2>1, <2>3
  <2>5. n.user = u /\ n.cat = cat /\ n.version = saw[cat]
    OBVIOUS
  <2> HIDE DEF n, cat
  <2> QED BY <1>0, <1>1, <2>1, <2>2, <2>3, <2>4, <2>5, NocGoesOn
<1> QED BY <1>2, <1>3, <1>4

\* The one exit takes a step that leaves the column alone.
LEMMA RemovalGoesOn ==
    ASSUME RemovalInv, OneExit, NEW c \in ExitCall, NEW e \in ExitState,
           exitCall' = [exitCall EXCEPT ![c] = e], ExitOK(e)',
           seat' \in [FabricUser -> Seats], lastSeat' \in [FabricUser -> Seats],
           UNCHANGED <<fabric, nocs, nocCall>>,
           \A u \in FabricUser :
               /\ seat'[u] = "none" /\ lastSeat'[u] # "none"
               /\ ~ (e.target = u /\ e.at \in {"hook", "rotate"})
               => \/ nocs = {}
                  \/ /\ seat[u] = "none" /\ lastSeat[u] = lastSeat'[u]
                     /\ ~ (exitCall[c].target = u /\ exitCall[c].at \in {"hook", "rotate"})
    PROVE  RemovalInv'
<1>1. \A d \in ExitCall : d = c
  BY DEF OneExit
<1>2. exitCall'[c] = e
  BY DEF RemovalInv, RemovalTypes
<1>3. RemovalTypes'
  BY DEF RemovalInv, RemovalTypes
<1>4. VersionsInv'
  BY DEF RemovalInv, VersionsInv, NotAhead
<1>5. ExitsInv'
  BY <1>1, <1>2 DEF ExitsInv
<1>6. ASSUME NEW u \in FabricUser, seat'[u] = "none", lastSeat'[u] # "none", ~Exiting(u)'
      PROVE  Behind(u)'
  <2>1. ~ (e.target = u /\ e.at \in {"hook", "rotate"})
    BY <1>2, <1>6 DEF Exiting
  <2>2. CASE nocs = {}
    BY <2>2 DEF Behind
  <2>3. CASE /\ seat[u] = "none" /\ lastSeat[u] = lastSeat'[u]
             /\ ~ (exitCall[c].target = u /\ exitCall[c].at \in {"hook", "rotate"})
    <3>1. ~Exiting(u)
      BY <1>1, <2>3 DEF Exiting
    <3>2. Behind(u)
      BY <1>6, <2>3, <3>1 DEF RemovalInv, BehindInv
    <3> QED BY <2>3, <3>2 DEF Behind
  <2> QED BY <1>6, <2>1, <2>2, <2>3
<1>7. BehindInv'
  BY <1>6 DEF BehindInv
<1> QED BY <1>3, <1>4, <1>5, <1>7 DEF RemovalInv

\* The hook's write advances the version of the role the member lost.
LEMMA RotateStep ==
    ASSUME RemovalInv, OneExit, NEW c \in ExitCall, Rotate(c)
    PROVE  RemovalInv'
<1> DEFINE t == exitCall[c].target
           cat == CatOf(exitCall[c].was)
           e == [exitCall[c] EXCEPT !.at = "done"]
<1>1. /\ exitCall[c] \in ExitState /\ fabric \in MadeFabric /\ cat \in Cat
      /\ t \in FabricUser /\ lastSeat[t] = exitCall[c].was
      /\ fabric' = Incremented(fabric, cat)
      /\ exitCall' = [exitCall EXCEPT ![c] = e]
      /\ UNCHANGED <<seat, lastSeat, nocs, nocCall>>
  <2>1. exitCall[c] \in ExitState /\ exitCall[c].at = "rotate" /\ ExitOK(exitCall[c])
    BY DEF Rotate, RemovalInv, RemovalTypes, ExitsInv
  <2>2. fabric \in MadeFabric /\ exitCall[c].saw = fabric /\ t \in FabricUser
        /\ lastSeat[t] = exitCall[c].was
    BY <2>1 DEF ExitOK, RemovalInv, RemovalTypes, AnyFabric
  <2>3. exitCall[c].was \in Seats
    BY <2>1 DEF ExitState
  <2> QED BY <2>1, <2>2, <2>3, Versions DEF Rotate
<1>2. e \in ExitState /\ e.at = "done"
  BY <1>1 DEF ExitState
<1>3. /\ fabric' \in MadeFabric /\ fabric' # NoFabric /\ fabric # NoFabric
      /\ fabric'[cat] = fabric[cat] + 1
      /\ \A other \in Cat \ {cat} : fabric'[other] = fabric[other]
      /\ \A any \in Cat : fabric[any] \in Nat
  BY <1>1, Versions DEF Cat
<1> HIDE DEF cat, e
<1>4. \A any \in Cat : fabric[any] \in Nat /\ fabric'[any] \in Nat /\ fabric[any] <= fabric'[any]
  BY <1>1, <1>3
<1>5. RemovalTypes'
  BY <1>1, <1>2, <1>3 DEF RemovalInv, RemovalTypes, AnyFabric
<1>6. VersionsInv'
  <2>1. ASSUME NEW n \in nocs PROVE n.version <= fabric'[n.cat]
    <3>1. n.cat \in Cat /\ n.version \in Nat /\ n.version <= fabric[n.cat]
      BY <2>1 DEF RemovalInv, RemovalTypes, VersionsInv
    <3> QED BY <1>4, <3>1
  <2>2. ASSUME NEW f, NotAhead(f) PROVE NotAhead(f)'
    <3>1. \A any \in Cat : f[any] \in Nat /\ f[any] <= fabric[any]
      BY <2>2, Versions DEF NotAhead, Cat
    <3> QED BY <1>3, <1>4, <2>2, <3>1 DEF NotAhead
  <2> QED BY <1>1, <1>3, <2>1, <2>2 DEF RemovalInv, VersionsInv
<1>7. ExitsInv'
  <2>1. \A d \in ExitCall : exitCall'[d] = e
    BY <1>1 DEF OneExit, RemovalInv, RemovalTypes
  <2> QED BY <1>2, <2>1 DEF ExitsInv, ExitOK
<1>8. ASSUME NEW u \in FabricUser, seat'[u] = "none", lastSeat'[u] # "none"
      PROVE  Behind(u)'
  <2> SUFFICES ASSUME NEW n \in nocs, n.user = u, n.cat = CatOf(lastSeat[u])
               PROVE  n.version < fabric'[n.cat]
    BY <1>1 DEF Behind
  <2>1. n.cat \in Cat /\ n.version \in Nat /\ n.version <= fabric[n.cat]
    BY DEF RemovalInv, RemovalTypes, VersionsInv
  <2>2. CASE n.cat = cat
    BY <1>3, <2>1, <2>2
  <2>3. CASE n.cat # cat
    <3>1. u # t
      BY <1>1, <2>3 DEF cat
    <3>2. ~Exiting(u)
      BY <3>1 DEF Exiting, OneExit
    <3>3. n.version < fabric[n.cat]
      BY <1>1, <1>8, <3>2 DEF RemovalInv, BehindInv, Behind
    <3> QED BY <1>3, <2>1, <2>3, <3>3
  <2> QED BY <2>2, <2>3
<1>9. BehindInv'
  BY <1>8 DEF BehindInv
<1> QED BY <1>5, <1>6, <1>7, <1>9 DEF RemovalInv

\* The other steps of a removal.
LEMMA RemovalStep ==
    ASSUME RemovalInv, OneExit, NEW c \in ExitCall,
           \/ \E u, t \in FabricUser : BeginExit(c, u, t)
           \/ RemoveMember(c) \/ RefuseExit(c) \/ ReadFabric(c) \/ HookFails(c)
           \/ ExitReturns(c)
    PROVE  RemovalInv'
<1> DEFINE t == exitCall[c].target
<1>0. IdleExit \in ExitState /\ IdleExit.at = "idle"
  BY DEF IdleExit, ExitState, AnyFabric, Seats
<1>1. /\ exitCall[c] \in ExitState /\ ExitOK(exitCall[c]) /\ fabric \in AnyFabric
      /\ seat \in [FabricUser -> Seats] /\ lastSeat \in [FabricUser -> Seats]
  BY DEF RemovalInv, RemovalTypes, ExitsInv
<1>2. ASSUME NEW u \in FabricUser, NEW v \in FabricUser, BeginExit(c, u, v)
      PROVE  RemovalInv'
  <2>1. PICK was \in {seat[v], "none"} :
          exitCall' = [exitCall EXCEPT ![c] =
              [at |-> "remove", target |-> v, was |-> was,
               sharer |-> u = v \/ seat[u] = "primary", saw |-> NoFabric]]
    BY <1>2 DEF BeginExit
  <2> PICK e : e = [at |-> "remove", target |-> v, was |-> was,
                    sharer |-> u = v \/ seat[u] = "primary", saw |-> NoFabric]
    OBVIOUS
  <2>2. /\ UNCHANGED <<fabric, seat, lastSeat, nocs, nocCall>>
        /\ exitCall[c].at = "idle"
    BY <1>2 DEF BeginExit
  <2>3. e \in ExitState
    BY <1>1 DEF ExitState, AnyFabric, Seats
  <2>4. e.at = "remove" /\ e.target = v /\ e.was = was
    OBVIOUS
  <2>5. exitCall' = [exitCall EXCEPT ![c] = e]
    BY <2>1
  <2>6. ExitOK(e)'
    BY <2>1, <2>2, <2>4 DEF ExitOK
  <2> QED BY <1>1, <2>2, <2>3, <2>4, <2>5, <2>6, RemovalGoesOn
<1>3. CASE RemoveMember(c)
  <2> DEFINE at == IF exitCall[c].was = "none" THEN "done" ELSE "hook"
  <2> PICK e : e = [exitCall[c] EXCEPT !.at = at]
    OBVIOUS
  <2>1. /\ exitCall[c].at = "remove" /\ t \in FabricUser
        /\ exitCall[c].was \in {"none", seat[t]} /\ exitCall[c].was \in Seats
    BY <1>1, <1>3 DEF RemoveMember, ExitOK, ExitState
  <2>2. /\ exitCall' = [exitCall EXCEPT ![c] = e]
        /\ seat' = [seat EXCEPT ![t] = "none"]
        /\ UNCHANGED <<fabric, nocs, nocCall>>
    BY <1>3 DEF RemoveMember
  <2>3. lastSeat' = [lastSeat EXCEPT ![t] =
            IF seat[t] = "none" THEN lastSeat[t]
            ELSE IF exitCall[c].was = "none" THEN "none" ELSE seat[t]]
    BY <1>3 DEF RemoveMember
  <2>4. /\ e \in ExitState /\ e.at = at /\ e.target = t /\ e.was = exitCall[c].was
    BY <1>1 DEF ExitState
  <2>5. ExitOK(e)'
    BY <1>1, <2>1, <2>2, <2>3, <2>4 DEF ExitOK
  <2>6. seat' \in [FabricUser -> Seats] /\ lastSeat' \in [FabricUser -> Seats]
    BY <1>1, <2>2, <2>3 DEF Seats
  <2>7. ASSUME NEW u \in FabricUser, seat'[u] = "none", lastSeat'[u] # "none",
               ~ (e.target = u /\ e.at \in {"hook", "rotate"})
        PROVE  seat[u] = "none" /\ lastSeat[u] = lastSeat'[u]
    <3>1. CASE u = t
      BY <1>1, <2>1, <2>2, <2>3, <2>4, <2>7, <3>1
    <3>2. CASE u # t
      BY <1>1, <2>1, <2>2, <2>3, <2>7, <3>2
    <3> QED BY <3>1, <3>2
  <2>8. e \in ExitState /\ exitCall[c].at \notin {"hook", "rotate"}
    BY <2>1, <2>4
  <2> HIDE DEF at
  <2> QED BY ONLY OneExit, RemovalInv, <2>2, <2>5, <2>6, <2>7, <2>8, RemovalGoesOn
<1>4. CASE RefuseExit(c)
  <2>1. /\ UNCHANGED <<fabric, seat, lastSeat, nocs, nocCall>>
        /\ exitCall' = [exitCall EXCEPT ![c] = IdleExit] /\ exitCall[c].at = "remove"
    BY <1>4 DEF RefuseExit
  <2>2. ExitOK(IdleExit)'
    BY <1>0 DEF ExitOK, IdleExit
  <2> QED BY <1>0, <1>1, <2>1, <2>2, RemovalGoesOn
<1>5. CASE ExitReturns(c)
  <2>1. /\ UNCHANGED <<fabric, seat, lastSeat, nocs, nocCall>>
        /\ exitCall' = [exitCall EXCEPT ![c] = IdleExit] /\ exitCall[c].at = "done"
    BY <1>5 DEF ExitReturns
  <2>2. ExitOK(IdleExit)'
    BY <1>0 DEF ExitOK, IdleExit
  <2> QED BY <1>0, <1>1, <2>1, <2>2, RemovalGoesOn
<1>6. CASE ReadFabric(c)
  <2> PICK e : e = [exitCall[c] EXCEPT !.saw = fabric,
                            !.at = IF fabric = NoFabric THEN "done" ELSE "rotate"]
    OBVIOUS
  <2>1. /\ UNCHANGED <<fabric, seat, lastSeat, nocs, nocCall>>
        /\ exitCall' = [exitCall EXCEPT ![c] = e] /\ exitCall[c].at = "hook"
    BY <1>6 DEF ReadFabric
  <2>2. /\ e \in ExitState /\ e.target = t /\ e.was = exitCall[c].was /\ e.saw = fabric
        /\ e.at = IF fabric = NoFabric THEN "done" ELSE "rotate"
    BY <1>1 DEF ExitState
  <2>3. ExitOK(e)'
    BY <1>1, <2>1, <2>2 DEF ExitOK
  <2>4. fabric = NoFabric => nocs = {}
    BY DEF RemovalInv, VersionsInv
  <2> QED BY <1>1, <2>1, <2>2, <2>3, <2>4, RemovalGoesOn
<1>7. CASE HookFails(c)
  <2> PICK e : e = [exitCall[c] EXCEPT !.at = "done"]
    OBVIOUS
  <2>1. /\ UNCHANGED <<fabric, seat, nocs, nocCall>>
        /\ exitCall' = [exitCall EXCEPT ![c] = e]
        /\ lastSeat' = [lastSeat EXCEPT ![t] = "none"]
    BY <1>7 DEF HookFails
  <2>2. e \in ExitState /\ e.at = "done"
    BY <1>1 DEF ExitState
  <2>3. ExitOK(e)'
    BY <2>2 DEF ExitOK
  <2>4. lastSeat' \in [FabricUser -> Seats]
    BY <1>1, <2>1 DEF Seats
  <2>5. ASSUME NEW u \in FabricUser, seat'[u] = "none", lastSeat'[u] # "none"
        PROVE  seat[u] = "none" /\ lastSeat[u] = lastSeat'[u] /\ u # t
    BY <1>1, <2>1, <2>5
  <2> QED BY <1>1, <2>1, <2>2, <2>3, <2>4, <2>5, RemovalGoesOn
<1> QED BY <1>2, <1>3, <1>4, <1>5, <1>6, <1>7

\* Enabling the capability changes no fabric there is.
LEMMA EnableStep ==
    ASSUME RemovalInv, NEW c \in EnableCall,
           (\E u \in FabricUser : BeginEnable(c, u)) \/ StoreFabric(c)
    PROVE  RemovalInv'
<1>1. /\ UNCHANGED <<seat, lastSeat, nocs, exitCall, nocCall>>
      /\ \/ fabric' = fabric
         \/ fabric = NoFabric /\ fabric' = NewFabric(c)
  BY DEF BeginEnable, StoreFabric
<1>2. CASE fabric' = fabric
  BY <1>1, <1>2 DEF RemovalInv, RemovalTypes, VersionsInv, NotAhead, ExitsInv, ExitOK,
                    BehindInv, Behind, Exiting
<1>3. CASE fabric = NoFabric /\ fabric' = NewFabric(c)
  <2>1. fabric' \in MadeFabric /\ fabric' # NoFabric
    BY <1>3, MadeFabrics
  <2>2. nocs = {} /\ \A d \in NocCall : nocCall[d].at # "sign"
    BY <1>3 DEF RemovalInv, VersionsInv, NotAhead
  <2>3. RemovalTypes' /\ VersionsInv'
    BY <1>1, <2>1, <2>2 DEF RemovalInv, RemovalTypes, VersionsInv, AnyFabric
  <2>4. ExitsInv'
    BY <1>1, <1>3 DEF RemovalInv, ExitsInv, ExitOK
  <2>5. BehindInv'
    BY <1>1, <2>2 DEF BehindInv, Behind
  <2> QED BY <2>3, <2>4, <2>5 DEF RemovalInv
<1> QED BY <1>1, <1>2, <1>3

\* Members removed one at a time, by removals whose hooks may fail and that
\* certificates are issued in the middle of: once the removal has returned, no
\* certificate of the member carries a version its role still has.
THEOREM RemovalSupersedes ==
    OneExit /\ ~RolesMayChange => (FabricSpec => []RemovedIsSuperseded)
<1> SUFFICES ASSUME OneExit, ~RolesMayChange PROVE FabricSpec => []RemovedIsSuperseded
  OBVIOUS
<1>1. FabricInit => RemovalInv
  <2> SUFFICES ASSUME FabricInit PROVE RemovalInv
    OBVIOUS
  <2>1. \A c \in ExitCall : exitCall[c] = IdleExit
    BY DEF FabricInit
  <2>2. \A c \in NocCall : nocCall[c] = IdleNoc
    BY DEF FabricInit
  <2>3. IdleExit \in ExitState /\ IdleExit.at = "idle"
    BY DEF IdleExit, ExitState, AnyFabric, Seats
  <2>4. IdleNoc \in NocState /\ IdleNoc.at = "idle"
    BY DEF IdleNoc, NocState, AnyFabric
  <2>5. fabric \in AnyFabric
    BY MadeFabrics DEF FabricInit, AnyFabric
  <2>6. /\ seat \in [FabricUser -> Seats]
        /\ lastSeat = [u \in FabricUser |-> "none"] /\ nocs = {}
    BY DEF FabricInit, Seats
  <2>7. RemovalTypes
    BY <2>3, <2>4, <2>5, <2>6 DEF RemovalTypes, FabricInit, Seats
  <2> QED BY <2>1, <2>2, <2>3, <2>4, <2>6, <2>7
          DEF RemovalInv, VersionsInv, ExitsInv, ExitOK, BehindInv
<1>2. RemovalInv /\ [FabricNext]_fabricVars => RemovalInv'
  <2> SUFFICES ASSUME RemovalInv, [FabricNext]_fabricVars PROVE RemovalInv'
    OBVIOUS
  <2>1. CASE UNCHANGED fabricVars
    BY <2>1 DEF fabricVars, RemovalInv, RemovalTypes, VersionsInv, NotAhead, ExitsInv, ExitOK,
                BehindInv, Behind, Exiting
  <2> QED BY <2>1, JoinStep, RotateStep, RemovalStep, NocsStep, EnableStep DEF FabricNext
<1>3. RemovalInv => RemovedIsSuperseded
  BY DEF RemovalInv, BehindInv, Behind, Exiting, RemovedIsSuperseded
<1> QED BY <1>1, <1>2, <1>3, PTL DEF FabricSpec

---------------------------------------------------------------------------
(* GroupFabric: types, and versions of four digits at most *)

\* A fabric whose versions the next removal may still write.
Started == {f \in MadeFabric : f.admin <= TopVersion + 1 /\ f.operate <= TopVersion + 1}

\* What is about to be written back, or signed with, is a fabric.
FabricInv ==
    /\ FabricTypeOK
    /\ fabric = NoFabric \/ fabric \in Started
    /\ \A c \in ExitCall : exitCall[c].at = "rotate" => exitCall[c].saw \in Started
    /\ \A c \in NocCall :
          /\ nocCall[c].at = "sign" => nocCall[c].saw \in Started
          /\ nocCall[c].at # "idle" => nocCall[c].user \in FabricUser

\* Every started fabric is one of the column, and stays so when a version of
\* four digits is incremented.
LEMMA StartedFabrics ==
    /\ Started \subseteq Fabric /\ NoFabric \in Fabric
    /\ \A maker \in {"creation"} \union EnableCall : NewFabric(maker) \in Started
    /\ \A f \in Started, cat \in Cat :
          /\ f[cat] \in 1 .. TopVersion + 1
          /\ CanIncrement(f[cat]) => Incremented(f, cat) \in Started
<1>1. TopVersion \in Nat \ {0}
  BY FabricConstants
<1>2. Started \subseteq Fabric /\ NoFabric \in Fabric
  BY <1>1 DEF Started, MadeFabric, Fabric, NoFabric
<1>3. ASSUME NEW maker \in {"creation"} \union EnableCall
      PROVE  NewFabric(maker) \in Started
  BY <1>1, MadeFabrics DEF Started, NewFabric
<1>4. ASSUME NEW f \in Started, NEW cat \in Cat
      PROVE  /\ f[cat] \in 1 .. TopVersion + 1
             /\ CanIncrement(f[cat]) => Incremented(f, cat) \in Started
  <2>1. /\ f \in MadeFabric /\ f["admin"] = f.admin /\ f["operate"] = f.operate
        /\ f.admin \in Nat \ {0} /\ f.operate \in Nat \ {0}
        /\ f.admin <= TopVersion + 1 /\ f.operate <= TopVersion + 1
    BY Versions DEF Started, MadeFabric
  <2>2. f[cat] \in 1 .. TopVersion + 1
    BY <1>1, <2>1 DEF Cat
  <2>3. ASSUME CanIncrement(f[cat]) PROVE Incremented(f, cat) \in Started
    <3>1. PICK g : g = Incremented(f, cat)
      OBVIOUS
    <3>2. /\ g \in MadeFabric /\ g[cat] = f[cat] + 1
          /\ \A other \in Cat \ {cat} : g[other] = f[other]
          /\ g["admin"] = g.admin /\ g["operate"] = g.operate
      BY <2>1, <3>1, Versions
    <3>3. f[cat] <= TopVersion
      BY <2>3 DEF CanIncrement
    <3>4. g.admin <= TopVersion + 1 /\ g.operate <= TopVersion + 1
      BY <1>1, <2>1, <3>2, <3>3 DEF Cat
    <3> QED BY <3>1, <3>2, <3>4 DEF Started
  <2> QED BY <2>2, <2>3
<1> QED BY <1>2, <1>3, <1>4

\* Where a removal and the making of a certificate are, while nothing else
\* than their own records moves.
ExitRecord == [at : {"idle", "remove", "hook", "rotate", "done"},
               target : FabricUser \union {NoFabricUser},
               was : Seats, sharer : BOOLEAN, saw : Fabric]
NocRecord == [at : {"idle", "load", "sign"}, user : FabricUser \union {NoFabricUser},
              saw : Fabric]

\* A removal goes on to a record of its type.
LEMMA ExitTyped ==
    ASSUME FabricInv, NEW c \in ExitCall, NEW e \in ExitRecord,
           exitCall' = [exitCall EXCEPT ![c] = e], e.at = "rotate" => e.saw \in Started,
           seat' \in [FabricUser -> Seats], lastSeat' \in [FabricUser -> Seats],
           fabric' = fabric \/ fabric' \in Started, exits' \in 0 .. MaxExits,
           UNCHANGED <<nocs, nocCall, enableCall>>
    PROVE  FabricInv'
<1>1. fabric' \in Fabric /\ (fabric' = NoFabric \/ fabric' \in Started)
  BY StartedFabrics DEF FabricInv, FabricTypeOK
<1>2. exitCall' \in [ExitCall -> ExitRecord]
  BY DEF FabricInv, FabricTypeOK, ExitRecord
<1>3. FabricTypeOK'
  BY <1>1, <1>2 DEF FabricInv, FabricTypeOK, ExitRecord
<1>4. \A d \in ExitCall : exitCall'[d] \in {e, exitCall[d]}
  BY DEF FabricInv, FabricTypeOK
<1> QED BY <1>1, <1>3, <1>4 DEF FabricInv

\* Nor do the steps of removals leave their types.
LEMMA ExitsTyped ==
    ASSUME FabricInv, NEW c \in ExitCall,
           \/ \E u, t \in FabricUser : BeginExit(c, u, t)
           \/ RemoveMember(c) \/ RefuseExit(c) \/ ReadFabric(c)
           \/ Rotate(c) \/ HookFails(c) \/ ExitReturns(c)
    PROVE  FabricInv'
<1>0. /\ exitCall[c] \in ExitRecord /\ fabric \in Fabric /\ exits \in 0 .. MaxExits
      /\ seat \in [FabricUser -> Seats] /\ lastSeat \in [FabricUser -> Seats]
      /\ DOMAIN exitCall = ExitCall
  BY DEF FabricInv, FabricTypeOK, ExitRecord
<1>1. IdleExit \in ExitRecord /\ IdleExit.at = "idle"
  BY StartedFabrics DEF IdleExit, ExitRecord, Seats
<1>2. ASSUME NEW u \in FabricUser, NEW t \in FabricUser, BeginExit(c, u, t)
      PROVE  FabricInv'
  <2>1. PICK was \in {seat[t], "none"} :
          exitCall' = [exitCall EXCEPT ![c] =
              [at |-> "remove", target |-> t, was |-> was,
               sharer |-> u = t \/ seat[u] = "primary", saw |-> NoFabric]]
    BY <1>2 DEF BeginExit
  <2>2. PICK e : e = [at |-> "remove", target |-> t, was |-> was,
                      sharer |-> u = t \/ seat[u] = "primary", saw |-> NoFabric]
    OBVIOUS
  <2>3. was \in Seats
    BY <1>0 DEF Seats
  <2>4. e \in ExitRecord /\ e.at = "remove"
    BY <2>2, <2>3, StartedFabrics DEF ExitRecord
  <2>5. exits' \in 0 .. MaxExits
    BY <1>0, <1>2, FabricConstants DEF BeginExit
  <2>6. UNCHANGED <<fabric, seat, lastSeat, nocs, nocCall, enableCall>>
    BY <1>2 DEF BeginExit
  <2> QED BY <1>0, <2>1, <2>2, <2>4, <2>5, <2>6, ExitTyped
<1>3. CASE RefuseExit(c) \/ ExitReturns(c)
  <2>1. /\ exitCall' = [exitCall EXCEPT ![c] = IdleExit]
        /\ UNCHANGED <<fabric, seat, lastSeat, nocs, exits, nocCall, enableCall>>
    BY <1>3 DEF RefuseExit, ExitReturns
  <2> QED BY <1>0, <1>1, <2>1, ExitTyped
<1>4. CASE RemoveMember(c)
  <2> DEFINE at == IF exitCall[c].was = "none" THEN "done" ELSE "hook"
  <2>1. PICK e : e = [exitCall[c] EXCEPT !.at = at]
    OBVIOUS
  <2>2. e \in ExitRecord /\ e.at # "rotate"
    BY <1>0, <2>1 DEF ExitRecord
  <2>3. exitCall' = [exitCall EXCEPT ![c] = e]
    BY <1>4, <2>1 DEF RemoveMember
  <2>4. seat' \in [FabricUser -> Seats] /\ lastSeat' \in [FabricUser -> Seats]
    BY <1>0, <1>4 DEF RemoveMember, Seats
  <2>5. UNCHANGED <<fabric, nocs, exits, nocCall, enableCall>>
    BY <1>4 DEF RemoveMember
  <2> QED BY <1>0, <2>2, <2>3, <2>4, <2>5, ExitTyped
<1>5. CASE ReadFabric(c)
  <2>1. PICK e : e = [exitCall[c] EXCEPT !.saw = fabric,
                          !.at = IF fabric = NoFabric THEN "done" ELSE "rotate"]
    OBVIOUS
  <2>2. /\ e \in ExitRecord /\ e.saw = fabric
        /\ e.at = "rotate" => fabric # NoFabric
    BY <1>0, <2>1 DEF ExitRecord
  <2>3. exitCall' = [exitCall EXCEPT ![c] = e]
    BY <1>5, <2>1 DEF ReadFabric
  <2>4. UNCHANGED <<fabric, seat, lastSeat, nocs, exits, nocCall, enableCall>>
    BY <1>5 DEF ReadFabric
  <2>5. e.at = "rotate" => e.saw \in Started
    BY <2>2 DEF FabricInv
  <2> QED BY <1>0, <2>2, <2>3, <2>4, <2>5, ExitTyped
<1>6. CASE Rotate(c) \/ HookFails(c)
  <2>1. PICK e : e = [exitCall[c] EXCEPT !.at = "done"]
    OBVIOUS
  <2>2. e \in ExitRecord /\ e.at = "done"
    BY <1>0, <2>1 DEF ExitRecord
  <2>3. exitCall' = [exitCall EXCEPT ![c] = e]
    BY <1>6, <2>1 DEF Rotate, HookFails
  <2>4. CASE Rotate(c)
    <3>1. exitCall[c].saw \in Started /\ exitCall[c].was \in Seats
      BY <1>0, <2>4 DEF Rotate, FabricInv, ExitRecord
    <3>2. CatOf(exitCall[c].was) \in Cat
      BY <3>1, Versions
    <3>3. fabric' \in Started
      BY <2>4, <3>1, <3>2, StartedFabrics DEF Rotate
    <3>4. UNCHANGED <<seat, lastSeat, nocs, exits, nocCall, enableCall>>
      BY <2>4 DEF Rotate
    <3> QED BY <1>0, <2>2, <2>3, <3>3, <3>4, ExitTyped
  <2>5. CASE HookFails(c)
    <3>1. /\ lastSeat' = [lastSeat EXCEPT ![exitCall[c].target] = "none"]
          /\ UNCHANGED <<fabric, seat, nocs, exits, nocCall, enableCall>>
      BY <2>5 DEF HookFails
    <3>2. lastSeat' \in [FabricUser -> Seats]
      BY <1>0, <3>1 DEF Seats
    <3> QED BY <1>0, <2>2, <2>3, <3>1, <3>2, ExitTyped
  <2> QED BY <1>6, <2>4, <2>5
<1> QED BY <1>2, <1>3, <1>4, <1>5, <1>6

\* The making of a certificate goes on to a record of its type.
LEMMA NocTyped ==
    ASSUME FabricInv, NEW c \in NocCall, NEW e \in NocRecord,
           nocCall' = [nocCall EXCEPT ![c] = e], e.at = "sign" => e.saw \in Started,
           e.at # "idle" => e.user \in FabricUser,
           nocs' \subseteq [user : FabricUser, cat : Cat, version : 1 .. TopVersion + 1],
           UNCHANGED <<fabric, seat, lastSeat, exits, exitCall, enableCall>>
    PROVE  FabricInv'
<1>1. nocCall' \in [NocCall -> NocRecord]
  BY DEF FabricInv, FabricTypeOK, NocRecord
<1>2. FabricTypeOK'
  BY <1>1 DEF FabricInv, FabricTypeOK, NocRecord, Cat
<1>3. \A d \in NocCall : nocCall'[d] \in {e, nocCall[d]}
  BY DEF FabricInv, FabricTypeOK
<1> QED BY <1>2, <1>3 DEF FabricInv

\* Every certificate has a version of a fabric there was.
LEMMA NocsTyped ==
    ASSUME FabricInv, NEW c \in NocCall,
           (\E u \in FabricUser : BeginNoc(c, u)) \/ LoadFabric(c) \/ SignNoc(c)
    PROVE  FabricInv'
<1>0. /\ nocCall[c] \in NocRecord /\ fabric \in Fabric /\ seat \in [FabricUser -> Seats]
      /\ nocs \subseteq [user : FabricUser, cat : Cat, version : 1 .. TopVersion + 1]
      /\ nocCall[c].at # "idle" => nocCall[c].user \in FabricUser
  BY DEF FabricInv, FabricTypeOK, NocRecord, Cat
<1>1. IdleNoc \in NocRecord /\ IdleNoc.at = "idle"
  BY StartedFabrics DEF IdleNoc, NocRecord
<1>2. ASSUME NEW u \in FabricUser, BeginNoc(c, u)
      PROVE  FabricInv'
  <2>1. PICK e : e = [at |-> "load", user |-> u, saw |-> NoFabric]
    OBVIOUS
  <2>2. e \in NocRecord /\ e.at = "load" /\ e.user = u
    BY <2>1, StartedFabrics DEF NocRecord
  <2>3. /\ nocCall' = [nocCall EXCEPT ![c] = e]
        /\ UNCHANGED <<fabric, seat, lastSeat, nocs, exits, exitCall, enableCall>>
    BY <1>2, <2>1 DEF BeginNoc
  <2> QED BY <1>0, <2>2, <2>3, NocTyped
<1>3. CASE LoadFabric(c)
  <2>1. UNCHANGED <<fabric, seat, lastSeat, nocs, exits, exitCall, enableCall>>
    BY <1>3 DEF LoadFabric
  <2>2. CASE fabric = NoFabric
    <3>1. nocCall' = [nocCall EXCEPT ![c] = IdleNoc]
      BY <1>3, <2>2 DEF LoadFabric
    <3> QED BY <1>0, <1>1, <2>1, <3>1, NocTyped
  <2>3. CASE fabric # NoFabric
    <3>1. PICK e : e = [nocCall[c] EXCEPT !.at = "sign", !.saw = fabric]
      OBVIOUS
    <3>2. /\ nocCall' = [nocCall EXCEPT ![c] = e] /\ nocCall[c].at = "load"
      BY <1>3, <2>3, <3>1 DEF LoadFabric
    <3>3. e \in NocRecord /\ e.at = "sign" /\ e.saw = fabric /\ e.user \in FabricUser
      BY <1>0, <3>1, <3>2 DEF NocRecord
    <3>4. fabric \in Started
      BY <2>3 DEF FabricInv
    <3> QED BY <1>0, <2>1, <3>2, <3>3, <3>4, NocTyped
  <2> QED BY <2>2, <2>3
<1>4. CASE SignNoc(c)
  <2> DEFINE u == nocCall[c].user
             cat == CatOf(seat[u])
             saw == nocCall[c].saw
  <2>1. /\ u \in FabricUser /\ saw \in Started
        /\ nocCall' = [nocCall EXCEPT ![c] = IdleNoc]
        /\ UNCHANGED <<fabric, seat, lastSeat, exits, exitCall, enableCall>>
        /\ nocs' = nocs \/ nocs' = nocs \union {Noc(u, seat[u], saw)}
    BY <1>0, <1>4 DEF SignNoc, FabricInv
  <2>2. cat \in Cat
    BY <1>0, <2>1, Versions
  <2>3. saw[cat] \in 1 .. TopVersion + 1
    BY <2>1, <2>2, StartedFabrics
  <2>4. Noc(u, seat[u], saw) = [user |-> u, cat |-> cat, version |-> saw[cat]]
    BY DEF Noc
  <2> HIDE DEF cat, saw
  <2>5. Noc(u, seat[u], saw) \in [user : FabricUser, cat : Cat, version : 1 .. TopVersion + 1]
    BY <2>1, <2>2, <2>3, <2>4
  <2> QED BY <1>0, <1>1, <2>1, <2>5, NocTyped
<1> QED BY <1>2, <1>3, <1>4

\* Every step keeps the types.
LEMMA FabricTyped ==
    ASSUME FabricInv, [FabricNext]_fabricVars
    PROVE  FabricInv'
<1>1. CASE UNCHANGED fabricVars
  BY <1>1 DEF fabricVars, FabricInv, FabricTypeOK
<1>2. ASSUME NEW u \in FabricUser, NEW access \in Seats \ {"none"}, Join(u, access)
      PROVE  FabricInv'
  BY <1>2 DEF Join, FabricInv, FabricTypeOK, Seats
<1>3. ASSUME NEW c \in EnableCall,
             (\E u \in FabricUser : BeginEnable(c, u)) \/ StoreFabric(c)
      PROVE  FabricInv'
  <2>1. /\ UNCHANGED <<seat, lastSeat, nocs, exits, exitCall, nocCall>>
        /\ enableCall' \in [EnableCall -> {"idle", "made", "stored"}]
        /\ fabric' = fabric \/ fabric' = NewFabric(c)
    BY <1>3 DEF BeginEnable, StoreFabric, FabricInv, FabricTypeOK
  <2>2. fabric' \in Fabric /\ (fabric' = NoFabric \/ fabric' \in Started)
    <3>1. NewFabric(c) \in Started /\ Started \subseteq Fabric
      BY StartedFabrics
    <3>2. fabric \in Fabric /\ (fabric = NoFabric \/ fabric \in Started)
      BY DEF FabricInv, FabricTypeOK
    <3> QED BY <2>1, <3>1, <3>2
  <2> QED BY <2>1, <2>2 DEF FabricInv, FabricTypeOK
<1> QED BY <1>1, <1>2, <1>3, ExitsTyped, NocsTyped DEF FabricNext

\* A group has no fabric, or the one it was created with.
LEMMA FabricInitial == ASSUME FabricInit PROVE FabricInv
<1>1. IdleExit \in ExitRecord /\ IdleExit.at = "idle"
  BY StartedFabrics DEF IdleExit, ExitRecord, Seats
<1>2. IdleNoc \in NocRecord /\ IdleNoc.at = "idle"
  BY StartedFabrics DEF IdleNoc, NocRecord
<1>3. fabric = NoFabric \/ fabric \in Started
  BY StartedFabrics DEF FabricInit
<1>4. seat \in [FabricUser -> Seats] /\ lastSeat \in [FabricUser -> Seats]
  BY DEF FabricInit, Seats
<1>5. /\ exitCall \in [ExitCall -> ExitRecord] /\ \A c \in ExitCall : exitCall[c].at = "idle"
      /\ nocCall \in [NocCall -> NocRecord] /\ \A c \in NocCall : nocCall[c].at = "idle"
  BY <1>1, <1>2 DEF FabricInit
<1>6. FabricTypeOK
  BY <1>3, <1>4, <1>5, StartedFabrics, FabricConstants
     DEF FabricInit, FabricTypeOK, ExitRecord, NocRecord
<1> QED BY <1>3, <1>5, <1>6 DEF FabricInv

---------------------------------------------------------------------------
(* Federation: contacts are kept *)

\* A sign-in that records contacts writes only those the user still lacks.
LEMMA RecordsLacking ==
    ASSUME NEW c \in SignInCall, RecordVerifiedContacts(c), NEW u \in DOMAIN users,
           NEW attr \in {"mail", "phone"}, users[u][attr] # NoContact
    PROVE  users'[u][attr] = users[u][attr]
<1> DEFINE v == signIns[c].row.id
           add == Missing(c)
           to == [a \in {"mail", "phone"} |->
                     IF add[a] # NoContact THEN add[a] ELSE users[v][a]]
<1>1. CASE users' = users
  BY <1>1
<1>2. CASE users' # users
  <2>1. StillLacks(v, add) /\ users' = [users EXCEPT ![v] = to]
    BY <1>2 DEF RecordVerifiedContacts
  <2>2. CASE u = v
    <3>1. add[attr] = NoContact
      BY <2>1, <2>2 DEF StillLacks
    <3>2. to[attr] = users[v][attr]
      BY <3>1
    <3> HIDE DEF to
    <3> QED BY <2>1, <2>2, <3>2
  <2>3. CASE u # v
    BY <2>1, <2>3
  <2> QED BY <2>2, <2>3
<1> QED BY <1>1, <1>2

\* A user is created under an ID no other has.
LEMMA CreatesAnother ==
    ASSUME NEW c \in SignInCall, CreateUser(c), NEW u \in DOMAIN users
    PROVE  users'[u] = users[u]
<1> DEFINE w == NewUserID(c)
<1>1. CASE users' = users
  BY <1>1
<1>2. CASE users' # users
  <2>1. /\ IdIsFree(w)
        /\ users' = [v \in DOMAIN users \union {w} |->
                        IF v = w THEN signIns[c].known ELSE users[v]]
    BY <1>2 DEF CreateUser
  <2>2. u # w
    BY <2>1 DEF IdIsFree
  <2> QED BY <2>1, <2>2
<1> QED BY <1>1, <1>2

\* No step takes a contact from a user, or a user from the table.
LEMMA UsersKeep ==
    ASSUME [FederationNext]_federationVars, NEW u \in DOMAIN users
    PROVE  /\ u \in DOMAIN users'
           /\ \A attr \in {"mail", "phone"} :
                 users[u][attr] # NoContact => users'[u][attr] = users[u][attr]
<1>1. CASE \E c \in SignInCall : RecordVerifiedContacts(c)
  <2>1. DOMAIN users' = DOMAIN users
    BY <1>1 DEF RecordVerifiedContacts
  <2> QED BY <1>1, <2>1, RecordsLacking
<1>2. CASE \E c \in SignInCall : CreateUser(c)
  <2>1. DOMAIN users \subseteq DOMAIN users'
    BY <1>2 DEF CreateUser
  <2> QED BY <1>2, <2>1, CreatesAnother
<1>3. CASE users' = users
  BY <1>3
<1> QED BY <1>1, <1>2, <1>3
        DEF FederationNext, HandleFederationStart, HandleFederationCallback, SigninWithPassword,
            ExchangeCode, LookupByMail, LookupByPhone, Completes, ProfileEdited, federationVars

\* No sign-in changes a contact a user has (RecordVerifiedContacts and the
\* condition of the update, CreateUser's condition), whatever other sign-ins
\* wrote since it looked the user up and whatever ID its provider names.
THEOREM ContactsStay == FederationSpec => ContactsAreKept
<1>1. [FederationNext]_federationVars =>
        [\A u \in DOMAIN users : \A attr \in {"mail", "phone"} :
            users[u][attr] # NoContact =>
                users'[u][attr] = users[u][attr]]_federationVars
  BY UsersKeep
<1> QED BY <1>1, PTL DEF FederationSpec, ContactsAreKept

---------------------------------------------------------------------------
(* Federation: who signs in has a proven contact.  A call carries contacts *)
(* its provider vouched for, then a row found by one of them; that the row *)
(* still has it when the call ends is that contacts are kept.              *)

Attr == {"mail", "phone"}

Vouched(contacts, proven) ==
    /\ \A attr \in Attr : contacts[attr] # NoContact => <<attr, contacts[attr]>> \in proven
    /\ \E attr \in Attr : contacts[attr] # NoContact

HasProven(u, proven) ==
    /\ u \in DOMAIN users
    /\ \E attr \in Attr : users[u][attr] # NoContact /\ <<attr, users[u][attr]>> \in proven

CallInv(call) ==
    /\ call.at = "exchange" => call.account \in Account
    /\ call.at \in {"mail", "phone", "resolved"} => Vouched(call.known, call.proven)
    /\ call.at = "phone" => call.byMail = NotFound \/ HasProven(call.byMail.id, call.proven)
    /\ call.at = "resolved" => call.row = NotFound \/ HasProven(call.row.id, call.proven)
    /\ call.at = "complete" => HasProven(call.subject, call.proven)

ProvenInv ==
    /\ accounts \in [Account -> UpstreamAccount]
    /\ DOMAIN signIns = SignInCall
    /\ \A c \in SignInCall : CallInv(signIns[c])
    /\ \A s \in signedIn : HasProven(s.subject, s.proven)

\* Whoever has a proven contact keeps it.
LEMMA ProvenStays ==
    ASSUME [FederationNext]_federationVars, NEW u, NEW proven, HasProven(u, proven)
    PROVE  HasProven(u, proven)'
BY UsersKeep DEF HasProven, Attr

\* A call that goes on with what is so of it leaves the others as they were.
LEMMA CallGoesOn ==
    ASSUME ProvenInv, [FederationNext]_federationVars, NEW c \in SignInCall, NEW to, Goes(c, to),
           CallInv(to)', UNCHANGED <<accounts, signedIn>>
    PROVE  ProvenInv'
<1>1. \A d \in SignInCall : CallInv(signIns[d])'
  <2> SUFFICES ASSUME NEW d \in SignInCall PROVE CallInv(signIns[d])'
    OBVIOUS
  <2>1. CASE d = c
    BY <2>1 DEF Goes, ProvenInv
  <2>2. CASE d # c
    <3>1. signIns'[d] = signIns[d]
      BY <2>2 DEF Goes, ProvenInv
    <3>2. CallInv(signIns[d])
      BY DEF ProvenInv
    <3> QED BY <3>1, <3>2, ProvenStays DEF CallInv
  <2> QED BY <2>1, <2>2
<1>2. \A s \in signedIn : HasProven(s.subject, s.proven)'
  BY ProvenStays DEF ProvenInv
<1> QED BY <1>1, <1>2 DEF ProvenInv, Goes

\* What a provider verified is proven.
LEMMA VerifiedIsVouched ==
    ASSUME ProvenInv, NEW a \in Account,
           VerifiedContacts(a) # [mail |-> NoContact, phone |-> NoContact]
    PROVE  Vouched(VerifiedContacts(a), Proven(a))
<1> DEFINE contacts == VerifiedContacts(a)
<1>1. accounts[a] \in UpstreamAccount
  BY DEF ProvenInv
<1>2. contacts.mail # NoContact => <<"mail", contacts.mail>> \in Proven(a)
  BY <1>1 DEF VerifiedContacts, Proven, UpstreamAccount
<1>3. contacts.phone # NoContact => <<"phone", contacts.phone>> \in Proven(a)
  BY <1>1 DEF VerifiedContacts, Proven, UpstreamAccount
<1>4. contacts.mail # NoContact \/ contacts.phone # NoContact
  BY DEF VerifiedContacts
<1> QED BY <1>2, <1>3, <1>4 DEF Vouched, Attr

\* A row found by a contact has it.
LEMMA FoundHasProven ==
    ASSUME NEW attr \in Attr, NEW contacts, NEW proven, Vouched(contacts, proven),
           NEW found \in LookupContact(attr, contacts[attr]), found # NotFound
    PROVE  HasProven(found.id, proven)
<1>1. contacts[attr] # NoContact /\ found \in RowsWith(attr, contacts[attr])
  BY DEF LookupContact
<1>2. found.id \in DOMAIN users /\ users[found.id][attr] = contacts[attr]
  BY <1>1 DEF RowsWith
<1> QED BY <1>1, <1>2 DEF Vouched, HasProven

\* A sign-in under way goes on from what it holds.
LEMMA SignInStep ==
    ASSUME ProvenInv, NEW c \in SignInCall, FederationNext,
           \/ \E leg \in legs, a \in Account : HandleFederationCallback(c, leg, a)
           \/ \E a \in Account : SigninWithPassword(c, a)
           \/ ExchangeCode(c) \/ LookupByMail(c) \/ LookupByPhone(c)
           \/ RecordVerifiedContacts(c) \/ CreateUser(c) \/ Completes(c)
    PROVE  ProvenInv'
<1> DEFINE call == signIns[c]
<1>1. CallInv(call)
  BY DEF ProvenInv
<1>2. ASSUME SignInEnds(c), UNCHANGED <<accounts, signedIn>> PROVE ProvenInv'
  <2>1. CallInv([at |-> "done"])'
    BY DEF CallInv
  <2> QED BY <1>2, <2>1, CallGoesOn DEF SignInEnds
<1>3. ASSUME NEW a \in Account, NEW f, LooksUp(c, a, f), UNCHANGED <<accounts, signedIn>>
      PROVE  ProvenInv'
  <2> DEFINE to == [at |-> "mail", flow |-> f, account |-> a, known |-> VerifiedContacts(a),
                    proven |-> Proven(a)]
  <2>1. CASE VerifiedContacts(a) = [mail |-> NoContact, phone |-> NoContact]
    BY <1>2, <1>3, <2>1 DEF LooksUp
  <2>2. CASE VerifiedContacts(a) # [mail |-> NoContact, phone |-> NoContact]
    <3>1. Goes(c, to)
      BY <1>3, <2>2 DEF LooksUp
    <3>2. Vouched(VerifiedContacts(a), Proven(a))
      BY <2>2, VerifiedIsVouched
    <3>3. PICK k : k = to
      OBVIOUS
    <3>4. k.at = "mail" /\ Vouched(k.known, k.proven)
      BY <3>2, <3>3
    <3>5. CallInv(k)'
      BY <3>4 DEF CallInv, Vouched
    <3> HIDE DEF to
    <3> QED BY <1>3, <3>1, <3>3, <3>5, CallGoesOn
  <2> QED BY <2>1, <2>2
<1>4. CASE \E leg \in legs, a \in Account : HandleFederationCallback(c, leg, a)
  <2>1. PICK k : Goes(c, k) /\ k.at = "exchange" /\ k.account \in Account
    BY <1>4 DEF HandleFederationCallback
  <2>2. CallInv(k)'
    BY <2>1 DEF CallInv
  <2> QED BY <1>4, <2>1, <2>2, CallGoesOn DEF HandleFederationCallback
<1>5. CASE \E a \in Account : SigninWithPassword(c, a)
  BY <1>3, <1>5 DEF SigninWithPassword
<1>6. CASE ExchangeCode(c)
  BY <1>1, <1>2, <1>3, <1>6 DEF ExchangeCode, CallInv
<1>7. CASE LookupByMail(c)
  <2>1. PICK found \in LookupContact("mail", call.known.mail) :
           Goes(c, [at |-> "phone", flow |-> call.flow, account |-> call.account,
                    known |-> call.known, proven |-> call.proven, byMail |-> found])
    BY <1>7 DEF LookupByMail
  <2>2. Vouched(call.known, call.proven)
    BY <1>1, <1>7 DEF LookupByMail, CallInv
  <2>3. found = NotFound \/ HasProven(found.id, call.proven)
    BY <2>2, FoundHasProven DEF Attr
  <2>4. PICK k : k = [at |-> "phone", flow |-> call.flow, account |-> call.account,
                      known |-> call.known, proven |-> call.proven, byMail |-> found]
    OBVIOUS
  <2>5. /\ k.at = "phone" /\ Vouched(k.known, k.proven)
        /\ k.byMail = NotFound \/ HasProven(k.byMail.id, k.proven)
    BY <2>2, <2>3, <2>4
  <2>6. CallInv(k)'
    BY <2>5, ProvenStays DEF CallInv, Vouched, NotFound
  <2> QED BY <1>7, <2>1, <2>4, <2>6, CallGoesOn DEF LookupByMail
<1>8. CASE LookupByPhone(c)
  <2>1. PICK found \in LookupContact("phone", call.known.phone) :
           IF call.byMail # NotFound /\ found # NotFound /\ call.byMail.id # found.id
           THEN SignInEnds(c)
           ELSE Resolved(c, IF call.byMail # NotFound THEN call.byMail ELSE found)
    BY <1>8 DEF LookupByPhone
  <2>2. Vouched(call.known, call.proven)
    BY <1>1, <1>8 DEF LookupByPhone, CallInv
  <2>3. /\ found = NotFound \/ HasProven(found.id, call.proven)
        /\ call.byMail = NotFound \/ HasProven(call.byMail.id, call.proven)
    BY <1>1, <1>8, <2>2, FoundHasProven DEF Attr, LookupByPhone, CallInv
  <2>4. PICK chosen : chosen = IF call.byMail # NotFound THEN call.byMail ELSE found
    OBVIOUS
  <2>5. CASE Resolved(c, chosen)
    <3>1. PICK k : k = [at |-> "resolved", flow |-> call.flow, account |-> call.account,
                        known |-> call.known, proven |-> call.proven, row |-> chosen]
      OBVIOUS
    <3>2. /\ k.at = "resolved" /\ Vouched(k.known, k.proven)
          /\ k.row = NotFound \/ HasProven(k.row.id, k.proven)
      BY <2>2, <2>3, <2>4, <3>1
    <3>3. CallInv(k)'
      BY <3>2, ProvenStays DEF CallInv, Vouched, NotFound
    <3>4. Goes(c, k)
      BY <2>5, <3>1 DEF Resolved
    <3> QED BY <1>8, <3>3, <3>4, CallGoesOn DEF LookupByPhone
  <2>6. CASE SignInEnds(c)
    BY <1>2, <1>8, <2>6 DEF LookupByPhone
  <2> QED BY <2>1, <2>4, <2>5, <2>6
<1>9. ASSUME NEW u, NEW proven, proven = call.proven, SignedIn(c, u), HasProven(u, proven)',
             UNCHANGED <<accounts, signedIn>>
      PROVE  ProvenInv'
  <2>1. PICK k : k = [at |-> "complete", flow |-> call.flow, proven |-> proven, subject |-> u]
    OBVIOUS
  <2>2. k.at = "complete" /\ k.subject = u /\ k.proven = proven
    BY <2>1
  <2>3. CallInv(k)'
    BY <1>9, <2>2 DEF CallInv
  <2> QED BY <1>9, <2>1, <2>3, CallGoesOn DEF SignedIn
<1>10. CASE RecordVerifiedContacts(c)
  <2>1. PICK u, proven : u = call.row.id /\ proven = call.proven
    OBVIOUS
  <2>2. HasProven(u, proven)'
    BY <1>1, <1>10, <2>1, ProvenStays DEF RecordVerifiedContacts, CallInv
  <2>3. SignedIn(c, u) \/ SignInEnds(c)
    BY <1>10, <2>1 DEF RecordVerifiedContacts
  <2> QED BY <1>2, <1>9, <1>10, <2>1, <2>2, <2>3 DEF RecordVerifiedContacts
<1>11. CASE CreateUser(c)
  <2>1. PICK u, proven : u = NewUserID(c) /\ proven = call.proven
    OBVIOUS
  <2>2. CASE IdIsFree(u)
    <3>1. users' = [v \in DOMAIN users \union {u} |-> IF v = u THEN call.known ELSE users[v]]
      BY <1>11, <2>1, <2>2 DEF CreateUser
    <3>2. u \in DOMAIN users' /\ users'[u] = call.known
      BY <3>1
    <3>3. Vouched(call.known, proven)
      BY <1>1, <1>11, <2>1 DEF CreateUser, CallInv
    <3>4. HasProven(u, proven)'
      BY <3>2, <3>3 DEF Vouched, HasProven
    <3>5. SignedIn(c, u)
      BY <1>11, <2>1, <2>2 DEF CreateUser
    <3> QED BY <1>9, <1>11, <2>1, <3>4, <3>5 DEF CreateUser
  <2>3. CASE ~IdIsFree(u)
    BY <1>2, <1>11, <2>1, <2>3 DEF CreateUser
  <2> QED BY <2>2, <2>3
<1>12. CASE Completes(c)
  <2>1. \A d \in SignInCall : CallInv(signIns[d])'
    <3>1. \A d \in SignInCall : signIns'[d] = signIns[d] \/ signIns'[d].at = "done"
      BY <1>12 DEF Completes, SignInEnds, Goes, ProvenInv
    <3> QED BY <3>1, ProvenStays DEF ProvenInv, CallInv
  <2>2. HasProven(call.subject, call.proven)
    BY <1>1, <1>12 DEF Completes, CallInv
  <2>3. \A s \in signedIn' : s \in signedIn \/ (s.subject = call.subject /\ s.proven = call.proven)
    BY <1>12 DEF Completes
  <2>4. \A s \in signedIn' : HasProven(s.subject, s.proven)
    BY <2>2, <2>3 DEF ProvenInv
  <2>5. UNCHANGED <<accounts, users>> /\ DOMAIN signIns' = SignInCall
    BY <1>12 DEF Completes, SignInEnds, Goes, ProvenInv
  <2> QED BY <2>1, <2>4, <2>5 DEF ProvenInv, HasProven
<1> QED BY <1>4, <1>5, <1>6, <1>7, <1>8, <1>10, <1>11, <1>12

\* Whoever signs in becomes a user who has one of the contacts the provider
\* had verified for them, whatever was recorded on the user or changed upstream
\* between the lookups and the end of the sign-in, for any numbers of accounts,
\* flows and calls (ResolveOrCreateUserByContacts).
THEOREM SignInsAreProven == FederationSpec => []SignedInByContact
<1>1. FederationInit => ProvenInv
  BY DEF FederationInit, ProvenInv, CallInv
<1>2. ProvenInv /\ [FederationNext]_federationVars => ProvenInv'
  <2>1. ProvenInv /\ UNCHANGED federationVars => ProvenInv'
    BY DEF federationVars, ProvenInv, CallInv, HasProven
  <2>2. ASSUME ProvenInv, FederationNext,
               \/ \E f \in Flow, p \in Provider : HandleFederationStart(f, p)
               \/ \E a \in Account : ProfileEdited(a)
        PROVE  ProvenInv'
    <3>1. UNCHANGED <<users, signIns, signedIn>> /\ accounts' \in [Account -> UpstreamAccount]
      BY <2>2 DEF HandleFederationStart, ProfileEdited, ProvenInv
    <3> QED BY <2>2, <3>1 DEF ProvenInv, CallInv, HasProven
  <2> QED BY <2>1, <2>2, SignInStep DEF FederationNext
<1>3. ProvenInv => SignedInByContact
  BY DEF ProvenInv, HasProven, Attr, SignedInByContact
<1> QED BY <1>1, <1>2, <1>3, PTL DEF FederationSpec

---------------------------------------------------------------------------
(* Federation: types *)

\* What a call holds, by where it is: a user it found stays one.
SignInTyped(call) ==
    /\ call.at \in {"new", "exchange", "mail", "phone", "resolved", "complete", "done"}
    /\ call.at = "exchange" => call.account \in Account /\ call.flow \in Flow
    /\ call.at \in {"mail", "phone", "resolved"} =>
          /\ call.account \in Account /\ call.known \in Contacts
          /\ call.flow \in Flow \union {NoFlow}
    /\ call.at = "phone" => call.byMail = NotFound \/ call.byMail.id \in DOMAIN users
    /\ call.at = "resolved" => call.row = NotFound \/ call.row.id \in DOMAIN users
    /\ call.at = "complete" =>
          call.flow \in Flow \union {NoFlow} /\ call.subject \in DOMAIN users

UsersTyped == DOMAIN users \subseteq UserID /\ \A u \in DOMAIN users : users[u] \in Contacts
FlowsTyped ==
    /\ DOMAIN flows = Flow
    /\ \A f \in Flow : /\ {"provider", "nonce", "subject"} \subseteq DOMAIN flows[f]
                       /\ flows[f].subject \in DOMAIN users \union {NoSubject}

FederationInv ==
    /\ accounts \in [Account -> UpstreamAccount]
    /\ UsersTyped /\ FlowsTyped
    /\ \A leg \in legs : leg.flow \in Flow /\ leg.provider \in Provider
    /\ DOMAIN signIns = SignInCall
    /\ \A c \in SignInCall : SignInTyped(signIns[c])

\* A call goes on to where its type lets it; users are only added.
LEMMA SignInGoesOn ==
    ASSUME FederationInv, NEW c \in SignInCall, NEW to, Goes(c, to), SignInTyped(to)',
           UsersTyped', DOMAIN users \subseteq DOMAIN users', UNCHANGED <<accounts, legs>>,
           FlowsTyped' \/ flows' = flows
    PROVE  FederationInv'
<1>1. \A d \in SignInCall : SignInTyped(signIns[d])'
  <2> SUFFICES ASSUME NEW d \in SignInCall PROVE SignInTyped(signIns[d])'
    OBVIOUS
  <2>1. CASE d = c
    BY <2>1 DEF Goes, FederationInv
  <2>2. CASE d # c
    <3>1. signIns'[d] = signIns[d] /\ SignInTyped(signIns[d])
      BY <2>2 DEF Goes, FederationInv
    <3> QED BY <3>1 DEF SignInTyped
  <2> QED BY <2>1, <2>2
<1>2. FlowsTyped'
  BY DEF FederationInv, FlowsTyped
<1> QED BY <1>1, <1>2 DEF FederationInv, Goes

\* A lookup finds a user there is, or none.
LEMMA FoundIsUser ==
    ASSUME NEW attr, NEW contact, NEW found \in LookupContact(attr, contact)
    PROVE  found = NotFound \/ found.id \in DOMAIN users
BY DEF LookupContact, RowsWith

\* What a provider knows are contacts.
LEMMA KnownContacts ==
    ASSUME FederationInv, NEW a \in Account
    PROVE  VerifiedContacts(a) \in Contacts
<1>1. accounts[a] \in UpstreamAccount
  BY DEF FederationInv
<1>2. /\ accounts[a].mail \in Mail \union {NoContact}
      /\ accounts[a].phone \in Phone \union {NoContact}
  BY <1>1 DEF UpstreamAccount
<1> QED BY <1>2 DEF VerifiedContacts, Contacts

\* A call that knows its account goes on, or ends.
LEMMA LooksUpTyped ==
    ASSUME FederationInv, NEW c \in SignInCall, NEW a \in Account,
           NEW f \in Flow \union {NoFlow}, LooksUp(c, a, f) \/ SignInEnds(c),
           UNCHANGED <<accounts, users, flows, legs>>
    PROVE  FederationInv'
<1>1. UsersTyped' /\ DOMAIN users \subseteq DOMAIN users'
  BY DEF FederationInv, UsersTyped
<1>2. CASE SignInEnds(c)
  <2>1. SignInTyped([at |-> "done"])'
    BY DEF SignInTyped
  <2> QED BY <1>1, <1>2, <2>1, SignInGoesOn DEF SignInEnds
<1>3. CASE ~SignInEnds(c)
  <2>1. PICK k : k = [at |-> "mail", flow |-> f, account |-> a, known |-> VerifiedContacts(a),
                      proven |-> Proven(a)]
    OBVIOUS
  <2>2. Goes(c, k)
    BY <1>3, <2>1 DEF LooksUp
  <2>3. k.at = "mail" /\ k.account = a /\ k.flow = f /\ k.known = VerifiedContacts(a)
    BY <2>1
  <2>4. SignInTyped(k)'
    BY <2>3, KnownContacts DEF SignInTyped
  <2> QED BY <1>1, <2>2, <2>4, SignInGoesOn
<1> QED BY <1>2, <1>3

\* A call looks users up and goes on with those it found.
LEMMA LookupsTyped ==
    ASSUME FederationInv, NEW c \in SignInCall, LookupByMail(c) \/ LookupByPhone(c)
    PROVE  FederationInv'
<1> DEFINE call == signIns[c]
<1>1. /\ SignInTyped(call) /\ UNCHANGED <<accounts, users, flows, legs>>
      /\ UsersTyped' /\ DOMAIN users \subseteq DOMAIN users'
  BY DEF FederationInv, LookupByMail, LookupByPhone, UsersTyped
<1>2. CASE LookupByMail(c)
  <2>1. PICK found \in LookupContact("mail", call.known.mail) :
           Goes(c, [at |-> "phone", flow |-> call.flow, account |-> call.account,
                    known |-> call.known, proven |-> call.proven, byMail |-> found])
    BY <1>2 DEF LookupByMail
  <2>2. found = NotFound \/ found.id \in DOMAIN users
    BY FoundIsUser
  <2>3. PICK k : k = [at |-> "phone", flow |-> call.flow, account |-> call.account,
                      known |-> call.known, proven |-> call.proven, byMail |-> found]
    OBVIOUS
  <2>4. /\ k.at = "phone" /\ k.flow = call.flow /\ k.account = call.account
        /\ k.known = call.known /\ k.byMail = found /\ call.at = "mail"
    BY <1>2, <2>3 DEF LookupByMail
  <2>5. SignInTyped(k)'
    BY <1>1, <2>2, <2>4 DEF SignInTyped, NotFound
  <2> QED BY <1>1, <2>1, <2>3, <2>5, SignInGoesOn
<1>3. CASE LookupByPhone(c)
  <2>1. PICK found \in LookupContact("phone", call.known.phone) :
           IF call.byMail # NotFound /\ found # NotFound /\ call.byMail.id # found.id
           THEN SignInEnds(c)
           ELSE Resolved(c, IF call.byMail # NotFound THEN call.byMail ELSE found)
    BY <1>3 DEF LookupByPhone
  <2>2. found = NotFound \/ found.id \in DOMAIN users
    BY FoundIsUser
  <2>3. PICK chosen : chosen = IF call.byMail # NotFound THEN call.byMail ELSE found
    OBVIOUS
  <2>4. call.at = "phone" /\ (chosen = NotFound \/ chosen.id \in DOMAIN users)
    BY <1>1, <1>3, <2>2, <2>3 DEF LookupByPhone, SignInTyped
  <2>5. CASE Resolved(c, chosen)
    <3>1. PICK k : k = [at |-> "resolved", flow |-> call.flow, account |-> call.account,
                        known |-> call.known, proven |-> call.proven, row |-> chosen]
      OBVIOUS
    <3>2. /\ k.at = "resolved" /\ k.flow = call.flow /\ k.account = call.account
          /\ k.known = call.known /\ k.row = chosen
      BY <3>1
    <3>3. SignInTyped(k)'
      BY <1>1, <2>4, <3>2 DEF SignInTyped, NotFound
    <3>4. Goes(c, k)
      BY <2>5, <3>1 DEF Resolved
    <3> QED BY <1>1, <3>3, <3>4, SignInGoesOn
  <2>6. CASE SignInEnds(c)
    <3>1. SignInTyped([at |-> "done"])'
      BY DEF SignInTyped
    <3> QED BY <1>1, <2>6, <3>1, SignInGoesOn DEF SignInEnds
  <2> QED BY <2>1, <2>3, <2>5, <2>6
<1> QED BY <1>2, <1>3

\* A user gets contacts it lacks, or is made with those that are known.
LEMMA ResolvesTyped ==
    ASSUME FederationInv, NEW c \in SignInCall, RecordVerifiedContacts(c) \/ CreateUser(c)
    PROVE  FederationInv'
<1> DEFINE call == signIns[c]
<1>1. /\ SignInTyped(call) /\ call.at = "resolved" /\ UNCHANGED <<accounts, flows, legs>>
  BY DEF FederationInv, RecordVerifiedContacts, CreateUser
<1>2. PICK k : k = call.known
  OBVIOUS
<1>3. /\ k \in Contacts /\ call.account \in Account /\ call.flow \in Flow \union {NoFlow}
      /\ call.row = NotFound \/ call.row.id \in DOMAIN users
  BY <1>1, <1>2 DEF SignInTyped
<1>4. ASSUME NEW u, NEW to, to = [at |-> "complete", flow |-> call.flow, proven |-> call.proven,
                                  subject |-> u],
             u \in DOMAIN users', Goes(c, to), UsersTyped', DOMAIN users \subseteq DOMAIN users'
      PROVE  FederationInv'
  <2>1. to.at = "complete" /\ to.flow = call.flow /\ to.subject = u
    BY <1>4
  <2>2. SignInTyped(to)'
    BY <1>3, <1>4, <2>1 DEF SignInTyped
  <2> QED BY <1>1, <1>4, <2>2, SignInGoesOn
<1>5. ASSUME SignInEnds(c), users' = users
      PROVE  FederationInv'
  <2>1. SignInTyped([at |-> "done"])' /\ UsersTyped' /\ DOMAIN users \subseteq DOMAIN users'
    BY <1>5 DEF SignInTyped, FederationInv, UsersTyped
  <2> QED BY <1>1, <1>5, <2>1, SignInGoesOn DEF SignInEnds
<1>6. CASE RecordVerifiedContacts(c)
  <2>1. PICK u, add : u = call.row.id /\ add = Missing(c)
    OBVIOUS
  <2>2. add \in Contacts
    BY <1>2, <1>3, <2>1 DEF Missing, Contacts
  <2>3. u \in DOMAIN users
    BY <1>3, <1>6, <2>1 DEF RecordVerifiedContacts
  <2>4. CASE StillLacks(u, add)
    <3>1. PICK filled : filled = [attr \in {"mail", "phone"} |->
                       IF add[attr] # NoContact THEN add[attr] ELSE users[u][attr]]
      OBVIOUS
    <3>2. users' = [users EXCEPT ![u] = filled] /\ SignedIn(c, u)
      BY <1>6, <2>1, <2>4, <3>1 DEF RecordVerifiedContacts
    <3>3. filled \in Contacts
      <4>1. users[u] \in Contacts
        BY <2>3 DEF FederationInv, UsersTyped
      <4>2. /\ add["mail"] \in Mail \union {NoContact} /\ add["phone"] \in Phone \union {NoContact}
            /\ users[u]["mail"] \in Mail \union {NoContact}
            /\ users[u]["phone"] \in Phone \union {NoContact}
        BY <2>2, <4>1 DEF Contacts
      <4>3. /\ filled["mail"] \in Mail \union {NoContact} /\ filled["phone"] \in Phone \union {NoContact}
            /\ filled = [x \in {"mail", "phone"} |-> filled[x]]
        BY <3>1, <4>2
      <4>4. filled = [mail |-> filled["mail"], phone |-> filled["phone"]]
        BY <4>3
      <4> QED BY <4>3, <4>4 DEF Contacts
    <3>4. DOMAIN users' = DOMAIN users /\ UsersTyped'
      BY <3>2, <3>3 DEF FederationInv, UsersTyped
    <3>5. PICK to : to = [at |-> "complete", flow |-> call.flow, proven |-> call.proven,
                          subject |-> u]
      OBVIOUS
    <3>6. Goes(c, to)
      BY <3>2, <3>5 DEF SignedIn
    <3> QED BY <1>4, <2>3, <3>4, <3>5, <3>6
  <2>5. CASE ~StillLacks(u, add)
    BY <1>5, <1>6, <2>1, <2>5 DEF RecordVerifiedContacts
  <2> QED BY <2>4, <2>5
<1>7. CASE CreateUser(c)
  <2>1. PICK u : u = NewUserID(c)
    OBVIOUS
  <2>2. u \in UserID
    BY <1>3, <2>1 DEF NewUserID, UserID
  <2>3. CASE IdIsFree(u)
    <3>1. /\ users' = [v \in DOMAIN users \union {u} |-> IF v = u THEN k ELSE users[v]]
          /\ SignedIn(c, u)
      BY <1>2, <1>7, <2>1, <2>3 DEF CreateUser
    <3>2. DOMAIN users' = DOMAIN users \union {u} /\ UsersTyped'
      BY <1>3, <2>2, <3>1 DEF FederationInv, UsersTyped
    <3>3. PICK to : to = [at |-> "complete", flow |-> call.flow, proven |-> call.proven,
                          subject |-> u]
      OBVIOUS
    <3>4. Goes(c, to)
      BY <3>1, <3>3 DEF SignedIn
    <3> QED BY <1>4, <3>2, <3>3, <3>4
  <2>4. CASE ~IdIsFree(u)
    BY <1>5, <1>7, <2>1, <2>4 DEF CreateUser
  <2> QED BY <2>3, <2>4
<1> QED BY <1>6, <1>7

\* The end of a call binds its flow to a user there is.
LEMMA CompletesTyped ==
    ASSUME FederationInv, NEW c \in SignInCall, Completes(c)
    PROVE  FederationInv'
<1> DEFINE call == signIns[c]
<1>1. /\ SignInTyped(call) /\ call.at = "complete" /\ SignInEnds(c)
      /\ UNCHANGED <<accounts, users, legs>>
  BY DEF FederationInv, Completes
<1>2. /\ call.subject \in DOMAIN users /\ call.flow \in Flow \union {NoFlow}
  BY <1>1 DEF SignInTyped
<1>3. \/ flows' = flows
      \/ call.flow \in Flow /\ flows' = [flows EXCEPT ![call.flow].subject = call.subject]
  BY <1>2 DEF Completes
<1>4. FlowsTyped' \/ flows' = flows
  BY <1>1, <1>2, <1>3 DEF FederationInv, FlowsTyped
<1>5. SignInTyped([at |-> "done"])' /\ UsersTyped' /\ DOMAIN users \subseteq DOMAIN users'
  BY <1>1 DEF SignInTyped, FederationInv, UsersTyped
<1> QED BY <1>1, <1>4, <1>5, SignInGoesOn DEF SignInEnds

\* Every step keeps the types.
LEMMA FederationTyped ==
    ASSUME FederationInv, [FederationNext]_federationVars
    PROVE  FederationInv'
<1>1. CASE UNCHANGED federationVars
  BY <1>1 DEF federationVars, FederationInv, UsersTyped, FlowsTyped, SignInTyped
<1>2. ASSUME NEW f \in Flow, NEW p \in Provider, HandleFederationStart(f, p)
      PROVE  FederationInv'
  <2>1. PICK leg : leg = NewUpstreamLeg(f, p)
    OBVIOUS
  <2>2. leg.flow = f /\ leg.provider = p
    BY <2>1 DEF NewUpstreamLeg
  <2>3. /\ legs' = legs \union {leg} /\ UNCHANGED <<accounts, users, signIns>>
        /\ flows' = [flows EXCEPT ![f].provider = leg.provider, ![f].nonce = leg.nonce]
    BY <1>2, <2>1 DEF HandleFederationStart, SetUpstreamLeg
  <2>4. FlowsTyped'
    BY <2>3 DEF FederationInv, FlowsTyped
  <2>5. /\ \A l \in legs' : l.flow \in Flow /\ l.provider \in Provider
        /\ \A c \in SignInCall : SignInTyped(signIns[c])'
    BY <2>2, <2>3 DEF FederationInv, SignInTyped
  <2> QED BY <2>3, <2>4, <2>5 DEF FederationInv, UsersTyped
<1>3. ASSUME NEW c \in SignInCall, NEW leg \in legs, NEW a \in Account,
             HandleFederationCallback(c, leg, a)
      PROVE  FederationInv'
  <2>1. PICK k : k = [at |-> "exchange", flow |-> leg.flow, code |-> leg, account |-> a,
                      provider |-> ProviderOf(leg.flow), nonce |-> flows[leg.flow].nonce]
    OBVIOUS
  <2>2. Goes(c, k) /\ UNCHANGED <<accounts, users, flows, legs>>
    BY <1>3, <2>1 DEF HandleFederationCallback, FlowIDFromState
  <2>3. k.at = "exchange" /\ k.account = a /\ k.flow = leg.flow /\ leg.flow \in Flow
    BY <2>1 DEF FederationInv
  <2>4. SignInTyped(k)' /\ UsersTyped' /\ DOMAIN users \subseteq DOMAIN users'
    BY <2>2, <2>3 DEF SignInTyped, FederationInv, UsersTyped
  <2> QED BY <2>2, <2>4, SignInGoesOn
<1>4. ASSUME NEW c \in SignInCall, NEW a \in Account, SigninWithPassword(c, a)
      PROVE  FederationInv'
  BY <1>4, LooksUpTyped DEF SigninWithPassword
<1>5. ASSUME NEW c \in SignInCall, ExchangeCode(c)
      PROVE  FederationInv'
  <2>1. PICK a, f : a = signIns[c].account /\ f = signIns[c].flow
    OBVIOUS
  <2>2. a \in Account /\ f \in Flow \union {NoFlow}
    BY <1>5, <2>1 DEF ExchangeCode, FederationInv, SignInTyped
  <2>3. LooksUp(c, a, f) \/ SignInEnds(c)
    BY <1>5, <2>1 DEF ExchangeCode
  <2> QED BY <1>5, <2>2, <2>3, LooksUpTyped DEF ExchangeCode
<1>6. ASSUME NEW a \in Account, ProfileEdited(a)
      PROVE  FederationInv'
  <2>1. accounts' \in [Account -> UpstreamAccount] /\ UNCHANGED <<users, flows, legs, signIns>>
    BY <1>6 DEF ProfileEdited, FederationInv
  <2>2. UsersTyped' /\ FlowsTyped' /\ \A c \in SignInCall : SignInTyped(signIns[c])'
    BY <2>1 DEF FederationInv, UsersTyped, FlowsTyped, SignInTyped
  <2> QED BY <2>1, <2>2 DEF FederationInv
<1> QED BY <1>1, <1>2, <1>3, <1>4, <1>5, <1>6, LookupsTyped, ResolvesTyped, CompletesTyped
        DEF FederationNext

\* No call has begun; there may be a user.
LEMMA FederationInitial == ASSUME FederationInit PROVE FederationInv
<1>1. UsersTyped
  <2>1. CASE users = [u \in {} |-> 0]
    BY <2>1 DEF UsersTyped
  <2>2. ASSUME NEW old \in OldContacts, users = [u \in {<<"old", "user">>} |-> old]
        PROVE  UsersTyped
    BY <2>2, FederationConstants DEF UsersTyped, UserID, Contacts
  <2> QED BY <2>1, <2>2 DEF FederationInit
<1>2. FlowsTyped
  BY DEF FederationInit, FlowsTyped
<1>3. \A c \in SignInCall : SignInTyped(signIns[c])
  BY DEF FederationInit, SignInTyped
<1> QED BY <1>1, <1>2, <1>3 DEF FederationInit, FederationInv

---------------------------------------------------------------------------
(* BulkJobs: the counts add up *)

TakenAt(w, r) == worker[w].row = r
\* The rows with an outcome that has been counted: no worker has them any more.
Counted(what) == {r \in CsvRow : outcome[r] = what /\ \A w \in Worker : ~TakenAt(w, r)}

\* Until the container stops, a row is in the channel, or with one worker, or
\* counted.
RowsInv ==
    /\ jobStatus \in {"none", "requested", "started", "data_loaded", "completed"}
    /\ outcome \in [CsvRow -> {"none", "ok", "failed"}]
    /\ worker \in [Worker -> [row : CsvRow \union {"none"}, saw : Nat]]
    /\ rowsLeft \subseteq CsvRow
    /\ \A v, w \in Worker : TakenAt(v, worker[w].row) /\ ~TakenAt(w, "none") => v = w
    /\ \A r \in rowsLeft : outcome[r] = "none" /\ \A w \in Worker : ~TakenAt(w, r)
    /\ jobStatus \in {"none", "requested", "started"} =>
          \A r \in CsvRow : outcome[r] = "none" /\ \A w \in Worker : ~TakenAt(w, r)
    /\ jobStatus \in {"data_loaded", "completed"} =>
          \A r \in CsvRow : outcome[r] = "none" =>
              r \in rowsLeft \/ \E w \in Worker : TakenAt(w, r)
    /\ jobStatus = "completed" => rowsLeft = {} /\ \A w \in Worker : TakenAt(w, "none")
CountInv ==
    /\ successCount = Cardinality(Counted("ok"))
    /\ failureCount = Cardinality(Counted("failed"))

\* A container that stopped does nothing more.
Stopped == jobStatus = "abandoned" /\ rowsLeft = {} /\ \A w \in Worker : worker[w] = NoWork
JobInv == (RowsInv /\ CountInv) \/ Stopped

\* The rows counted are some of the rows, which are finitely many.
LEMMA CountedFinite ==
    ASSUME NEW what PROVE IsFiniteSet(Counted(what))
BY BulkConstants, FS_Subset DEF Counted

\* A row taken from the channel has no outcome yet.
LEMMA TakenUncounted ==
    ASSUME RowsInv, CountInv, NEW w \in Worker, NEW r \in rowsLeft, TakeRow(w, r)
    PROVE  RowsInv' /\ CountInv'
<1>1. /\ jobStatus = "data_loaded" /\ worker[w].row = "none" /\ r \in CsvRow
      /\ UNCHANGED <<jobStatus, outcome, successCount, failureCount>>
      /\ rowsLeft' = rowsLeft \ {r}
      /\ worker' = [worker EXCEPT ![w] = [row |-> r, saw |-> successCount]]
  BY DEF TakeRow, jobRow, counts, RowsInv
<1>2. successCount \in Nat
  BY CountedFinite, FS_CardinalityType DEF CountInv
<1>3. /\ worker' \in [Worker -> [row : CsvRow \union {"none"}, saw : Nat]]
      /\ worker'[w].row = r
      /\ \A v \in Worker \ {w} : worker'[v] = worker[v]
  BY <1>1, <1>2 DEF RowsInv
<1>4. outcome[r] = "none" /\ \A v \in Worker : worker[v].row # r
  BY DEF RowsInv, TakenAt
<1>5. r # "none"
  BY <1>1, BulkConstants
<1>6. ASSUME NEW u \in Worker, NEW v \in Worker,
             worker'[u].row = worker'[v].row, worker'[v].row # "none"
      PROVE  u = v
  BY <1>3, <1>4, <1>6 DEF RowsInv, TakenAt
<1>7. ASSUME NEW p \in CsvRow, outcome[p] = "none"
      PROVE  p \in rowsLeft' \/ \E v \in Worker : worker'[v].row = p
  <2>1. CASE p = r
    BY <2>1, <1>3
  <2>2. CASE p # r /\ p \in rowsLeft
    BY <2>2, <1>1
  <2>3. CASE p # r /\ p \notin rowsLeft
    <3>1. PICK v \in Worker : worker[v].row = p
      BY <1>1, <1>7, <2>3 DEF RowsInv, TakenAt
    <3>2. v # w
      BY <1>1, <3>1, BulkConstants
    <3> QED BY <1>3, <3>1, <3>2
  <2> QED BY <2>1, <2>2, <2>3
<1>8. RowsInv'
  BY <1>1, <1>3, <1>4, <1>6, <1>7 DEF RowsInv, TakenAt
<1>9. ASSUME NEW what \in {"ok", "failed"} PROVE Counted(what)' = Counted(what)
  <2>1. ASSUME NEW p \in CsvRow, outcome[p] = what
        PROVE  (\A v \in Worker : worker'[v].row # p) <=> (\A v \in Worker : worker[v].row # p)
    <3>1. p # r /\ p # "none"
      BY <2>1, <1>4, BulkConstants
    <3> QED BY <1>1, <1>3, <3>1
  <2> QED BY <1>1, <2>1 DEF Counted, TakenAt
<1> QED BY <1>1, <1>8, <1>9 DEF CountInv

\* A row that is worked on is still with its worker.
LEMMA WorkedUncounted ==
    ASSUME RowsInv, CountInv, NEW w \in Worker, NEW ok \in BOOLEAN, ProcessNodeRow(w, ok)
    PROVE  RowsInv' /\ CountInv'
<1> DEFINE r == worker[w].row
<1>1. /\ r \in CsvRow /\ outcome[r] = "none"
      /\ outcome' = [outcome EXCEPT ![r] = IF ok THEN "ok" ELSE "failed"]
      /\ UNCHANGED <<jobStatus, rowsLeft, worker, successCount, failureCount>>
  BY DEF ProcessNodeRow, jobRow, counts
<1>2. /\ outcome' \in [CsvRow -> {"none", "ok", "failed"}] /\ outcome'[r] # "none"
      /\ \A p \in CsvRow \ {r} : outcome'[p] = outcome[p]
  BY <1>1 DEF RowsInv
<1>3. r \notin rowsLeft /\ jobStatus \notin {"none", "requested", "started"}
  BY <1>1 DEF RowsInv, TakenAt
<1>4. RowsInv'
  BY <1>1, <1>2, <1>3 DEF RowsInv, TakenAt
<1>5. ASSUME NEW what PROVE Counted(what)' = Counted(what)
  BY <1>1, <1>2 DEF Counted, TakenAt
<1> QED BY <1>1, <1>4, <1>5 DEF CountInv

\* A row whose outcome is recorded is counted, once, under its outcome.
LEMMA RecordedCounted ==
    ASSUME RowsInv, CountInv, NEW w \in Worker, RecordRowOutcome(w)
    PROVE  RowsInv' /\ CountInv'
<1> DEFINE r == worker[w].row
<1>1. /\ r \in CsvRow /\ outcome[r] \in {"ok", "failed"}
      /\ worker' = [worker EXCEPT ![w] = NoWork]
      /\ UNCHANGED <<jobStatus, rowsLeft, outcome>>
  BY DEF RecordRowOutcome, jobRow, RowsInv
<1>2. /\ worker' \in [Worker -> [row : CsvRow \union {"none"}, saw : Nat]]
      /\ worker'[w].row = "none"
      /\ \A v \in Worker \ {w} : worker'[v] = worker[v]
  BY <1>1 DEF RowsInv, NoWork
<1>3. r # "none" /\ \A v \in Worker \ {w} : worker[v].row # r
  BY <1>1, BulkConstants DEF RowsInv, TakenAt
<1>4. RowsInv'
  <2>1. ASSUME NEW p \in CsvRow, outcome[p] = "none",
               jobStatus \in {"data_loaded", "completed"}
        PROVE  p \in rowsLeft \/ \E v \in Worker : worker'[v].row = p
    <3>1. p # r
      BY <1>1, <2>1
    <3> QED BY <1>1, <1>2, <2>1, <3>1 DEF RowsInv, TakenAt
  <2>2. \A p \in CsvRow : p # "none"
    BY BulkConstants
  <2>3. \A p \in CsvRow : (\A v \in Worker : worker[v].row # p) =>
                             (\A v \in Worker : worker'[v].row # p)
    BY <1>2, <2>2
  <2>4. jobStatus # "completed"
    BY <1>3 DEF RowsInv, TakenAt
  <2> QED BY <1>1, <1>2, <2>1, <2>3, <2>4 DEF RowsInv, TakenAt
<1>5. ASSUME NEW what \in {"ok", "failed"}
      PROVE  Counted(what)' = IF outcome[r] = what THEN Counted(what) \union {r}
                              ELSE Counted(what)
  <2>1. ASSUME NEW p \in CsvRow \ {r}
        PROVE  (\A v \in Worker : worker'[v].row # p) <=> (\A v \in Worker : worker[v].row # p)
    <3>1. p # "none"
      BY BulkConstants
    <3> QED BY <1>2, <3>1
  <2>2. \A v \in Worker : worker'[v].row # r
    BY <1>2, <1>3
  <2> QED BY <1>1, <2>1, <2>2 DEF Counted, TakenAt
<1>6. \A what : r \notin Counted(what)
  BY DEF Counted, TakenAt
<1>7. \A what : /\ Cardinality(Counted(what)) \in Nat
               /\ Cardinality(Counted(what) \union {r}) = Cardinality(Counted(what)) + 1
  BY <1>6, CountedFinite, FS_AddElement, FS_CardinalityType
<1>8. CountInv'
  <2>1. CASE outcome[r] = "ok"
    <3>1. successCount' = successCount + 1 /\ failureCount' = failureCount
      BY <2>1 DEF RecordRowOutcome
    <3> QED BY <2>1, <3>1, <1>5, <1>7 DEF CountInv
  <2>2. CASE outcome[r] = "failed"
    <3>1. failureCount' = failureCount + 1 /\ successCount' = successCount
      BY <2>2 DEF RecordRowOutcome
    <3> QED BY <2>2, <3>1, <1>5, <1>7 DEF CountInv
  <2> QED BY <1>1, <2>1, <2>2
<1> QED BY <1>4, <1>8

\* The job's own steps: the rows and their counts stay.
LEMMA JobGoesOn ==
    ASSUME RowsInv, CountInv,
           Launch \/ StartContainer \/ LoadRows \/ Complete \/ UNCHANGED bulkVars
    PROVE  RowsInv' /\ CountInv'
<1>1. UNCHANGED <<outcome, worker, successCount, failureCount>>
  BY DEF Launch, StartContainer, LoadRows, Complete, bulkVars, counts
<1>2. \A what : Counted(what)' = Counted(what)
  BY <1>1 DEF Counted, TakenAt
<1>3. CASE Launch
  BY <1>1, <1>2, <1>3 DEF Launch, RowsInv, TakenAt, CountInv
<1>4. CASE StartContainer
  BY <1>1, <1>2, <1>4 DEF StartContainer, RowsInv, TakenAt, CountInv
<1>5. CASE LoadRows
  BY <1>1, <1>2, <1>5 DEF LoadRows, RowsInv, TakenAt, CountInv
<1>6. CASE Complete
  BY <1>1, <1>2, <1>6 DEF Complete, RowsInv, TakenAt, CountInv
<1>7. CASE UNCHANGED bulkVars
  BY <1>1, <1>2, <1>7 DEF bulkVars, RowsInv, TakenAt, CountInv
<1> QED BY <1>3, <1>4, <1>5, <1>6, <1>7

\* Every step keeps JobInv, the container's end included.
LEMMA JobStep == ASSUME JobInv, [BulkNext]_bulkVars PROVE JobInv'
<1>1. CASE RowsInv /\ CountInv
  <2>1. CASE ContainerStops
    BY <2>1 DEF ContainerStops, JobInv, Stopped, NoWork
  <2>2. CASE ~ContainerStops
    BY <1>1, <2>2, JobGoesOn, TakenUncounted, WorkedUncounted, RecordedCounted
       DEF BulkNext, JobInv
  <2> QED BY <2>1, <2>2
<1>2. CASE Stopped
  <2>1. \A w \in Worker : worker[w].row \notin CsvRow
    BY <1>2, BulkConstants DEF Stopped, NoWork
  <2>2. UNCHANGED <<jobStatus, rowsLeft, worker>>
    BY <1>2, <2>1 DEF Stopped, BulkNext, Launch, StartContainer, LoadRows, ContainerStops,
          Complete, TakeRow, ProcessNodeRow, RecordRowOutcome, bulkVars, jobRow
  <2> QED BY <1>2, <2>2 DEF Stopped, JobInv
<1> QED BY <1>1, <1>2 DEF JobInv

\* No row is counted before there is a job.
LEMMA JobInitial == ASSUME BulkInit PROVE JobInv
<1>1. \A w \in Worker : worker[w] = NoWork
  BY DEF BulkInit
<1>2. \A r \in CsvRow : r # "none"
  BY BulkConstants
<1>3. RowsInv
  BY <1>1, <1>2 DEF BulkInit, RowsInv, TakenAt, NoWork
<1>4. Counted("ok") = {} /\ Counted("failed") = {}
  BY DEF BulkInit, Counted
<1>5. CountInv
  BY <1>4, FS_EmptySet DEF BulkInit, CountInv
<1> QED BY <1>3, <1>5 DEF JobInv

\* However many workers take, work and record rows in whatever order, a job that
\* completes has counted every row, once, under its outcome (ProcessParallel,
\* recordRowOutcome).
THEOREM EveryRowCounted == BulkSpec => []CountsAddUp
<1>1. JobInv => CountsAddUp
  <2> SUFFICES ASSUME RowsInv, CountInv, jobStatus = "completed"
               PROVE  CountsAddUp
    BY DEF JobInv, Stopped, CountsAddUp
  <2> DEFINE Oks == {r \in CsvRow : outcome[r] = "ok"}
             Fails == {r \in CsvRow : outcome[r] = "failed"}
  <2>1. \A w \in Worker : worker[w].row = "none"
    BY DEF RowsInv, TakenAt
  <2>2. \A r \in CsvRow : r # "none" /\ outcome[r] \in {"ok", "failed"}
    BY <2>1, BulkConstants DEF RowsInv, TakenAt
  <2>3. Counted("ok") = Oks /\ Counted("failed") = Fails
    BY <2>1, <2>2 DEF Counted, TakenAt
  <2>4. Oks \union Fails = CsvRow /\ Oks \intersect Fails = {}
    BY <2>2
  <2>5. IsFiniteSet(Oks) /\ IsFiniteSet(Fails)
    BY BulkConstants, FS_Subset
  <2>6. Cardinality(Oks) \in Nat /\ Cardinality(Fails) \in Nat
    BY <2>5, FS_CardinalityType
  <2>7. Cardinality(CsvRow) = Cardinality(Oks) + Cardinality(Fails)
    <3>1. Cardinality(Oks \union Fails) =
             Cardinality(Oks) + Cardinality(Fails) - Cardinality(Oks \intersect Fails)
      BY <2>5, FS_Union
    <3>2. Cardinality(Oks \intersect Fails) = 0
      BY <2>4, FS_EmptySet
    <3>3. Oks \union Fails = CsvRow
      BY <2>4
    <3>4. Cardinality(CsvRow) = Cardinality(Oks \union Fails)
      BY <3>3, Zenon
    <3> HIDE DEF Oks, Fails
    <3>5. Cardinality(Oks \union Fails) = Cardinality(Oks) + Cardinality(Fails)
      BY <3>1, <3>2, <2>6
    <3> QED BY <3>4, <3>5
  <2> QED BY <2>3, <2>7 DEF CountInv, CountsAddUp
<1> QED BY <1>1, JobInitial, JobStep, PTL DEF BulkSpec
---------------------------------------------------------------------------
(* BulkJobs: types *)

\* The counts never exceed the rows, even when the container stops half way.
BulkInv == BulkTypeOK /\ JobInv

\* There are at most all the rows in a set of them.
LEMMA RowsBounded ==
    ASSUME NEW S, S \subseteq CsvRow
    PROVE  Cardinality(S) \in 0 .. Cardinality(CsvRow)
<1>1. /\ Cardinality(S) \in Nat /\ Cardinality(CsvRow) \in Nat
      /\ Cardinality(S) <= Cardinality(CsvRow)
  BY BulkConstants, FS_Subset, FS_CardinalityType
<1> QED BY <1>1

\* A row goes by a name or by none.
LEMMA RowNames ==
    ASSUME BulkTypeOK, NEW r \in CsvRow
    PROVE  /\ Target(r) \in Label /\ ReportedID(r) \in Label
           /\ RowWorks(r) => Target(r) \in NodeName
<1>1. csv[r].label \in Label /\ csv[r].cn \in Label
  BY DEF BulkTypeOK
<1> QED BY <1>1 DEF Target, ReportedID, RowWorks, Label

\* Every step keeps the types.
LEMMA BulkTyped ==
    ASSUME BulkInv, [BulkNext]_bulkVars
    PROVE  BulkInv'
<1>1. JobInv'
  BY JobStep DEF BulkInv
<1>2. /\ successCount' \in 0 .. Cardinality(CsvRow)
      /\ failureCount' \in 0 .. Cardinality(CsvRow)
  <2>1. CASE CountInv'
    <3>1. Counted("ok")' \subseteq CsvRow /\ Counted("failed")' \subseteq CsvRow
      BY DEF Counted
    <3> QED BY <2>1, <3>1, RowsBounded DEF CountInv
  <2>2. CASE ContainerStops
    BY <2>2 DEF ContainerStops, counts, BulkInv, BulkTypeOK
  <2>3. CASE Stopped' /\ ~ContainerStops
    <3>1. jobStatus = "abandoned"
      BY <2>3 DEF Stopped, BulkNext, Launch, StartContainer, LoadRows, Complete, TakeRow,
                  ProcessNodeRow, RecordRowOutcome, bulkVars, jobRow
    <3>2. Stopped
      BY <3>1 DEF BulkInv, JobInv, RowsInv
    <3>3. \A w \in Worker : worker[w].row \notin CsvRow
      BY <3>2, BulkConstants DEF Stopped, NoWork
    <3>4. UNCHANGED <<successCount, failureCount>>
      BY <2>3, <3>2, <3>3
         DEF Stopped, BulkNext, Launch, StartContainer, LoadRows, Complete, TakeRow,
             ProcessNodeRow, RecordRowOutcome, bulkVars, counts
    <3> QED BY <3>4 DEF BulkInv, BulkTypeOK
  <2> QED BY <1>1, <2>1, <2>2, <2>3 DEF JobInv
<1>3. Cardinality(CsvRow) \in Nat
  BY BulkConstants, FS_CardinalityType
<1>4. NoWork \in [row : CsvRow \union {"none"}, saw : 0 .. Cardinality(CsvRow)]
  BY <1>3 DEF NoWork
<1>5. BulkTypeOK
  BY DEF BulkInv
<1>6. ASSUME UNCHANGED bulkVars PROVE BulkTypeOK'
  BY <1>5, <1>6 DEF bulkVars, BulkTypeOK
<1>7. ASSUME Launch \/ StartContainer \/ LoadRows PROVE BulkTypeOK'
  BY <1>5, <1>7 DEF Launch, StartContainer, LoadRows, BulkTypeOK, counts
<1>8. ASSUME ContainerStops PROVE BulkTypeOK'
  BY <1>4, <1>5, <1>8 DEF ContainerStops, BulkTypeOK, counts
<1>9. ASSUME Complete PROVE BulkTypeOK'
  BY <1>5, <1>9 DEF Complete, BulkTypeOK, counts
<1>10. ASSUME NEW w \in Worker, NEW r \in rowsLeft, TakeRow(w, r)
       PROVE  BulkTypeOK'
  <2>1. [row |-> r, saw |-> successCount] \in
            [row : CsvRow \union {"none"}, saw : 0 .. Cardinality(CsvRow)]
    BY <1>5 DEF BulkTypeOK
  <2> QED BY <1>5, <1>10, <2>1 DEF TakeRow, BulkTypeOK, jobRow, counts
<1>11. ASSUME NEW w \in Worker, NEW ok \in BOOLEAN, ProcessNodeRow(w, ok)
       PROVE  BulkTypeOK'
  <2>1. PICK r : r = worker[w].row
    OBVIOUS
  <2>2. r \in CsvRow /\ (ok => Target(r) \in NodeName)
    BY <1>5, <1>11, <2>1, RowNames DEF ProcessNodeRow
  <2>3. outcome' \in [CsvRow -> {"none", "ok", "failed"}] /\ known' \subseteq NodeName
    BY <1>5, <1>11, <2>1, <2>2 DEF ProcessNodeRow, BulkTypeOK
  <2> QED BY <1>5, <1>11, <2>3 DEF ProcessNodeRow, BulkTypeOK, jobRow, counts
<1>12. ASSUME NEW w \in Worker, RecordRowOutcome(w)
       PROVE  BulkTypeOK'
  <2>1. ReportedID(worker[w].row) \in Label
    BY <1>5, <1>12, RowNames DEF RecordRowOutcome
  <2>2. failedNodes' \subseteq Label
    BY <1>5, <1>12, <2>1 DEF RecordRowOutcome, BulkTypeOK
  <2>3. worker' \in [Worker -> [row : CsvRow \union {"none"}, saw : 0 .. Cardinality(CsvRow)]]
    BY <1>4, <1>5, <1>12 DEF RecordRowOutcome, BulkTypeOK
  <2> QED BY <1>2, <1>5, <1>12, <2>2, <2>3 DEF RecordRowOutcome, BulkTypeOK, jobRow
<1>13. BulkTypeOK'
  BY <1>6, <1>7, <1>8, <1>9, <1>10, <1>11, <1>12 DEF BulkNext
<1> QED BY <1>1, <1>13 DEF BulkInv

\* No job has begun.
LEMMA BulkInitial == ASSUME BulkInit PROVE BulkInv
<1>1. Cardinality(CsvRow) \in Nat
  BY BulkConstants, FS_CardinalityType
<1>2. NoWork \in [row : CsvRow \union {"none"}, saw : 0 .. Cardinality(CsvRow)]
  BY <1>1 DEF NoWork
<1> QED BY <1>1, <1>2, JobInitial DEF BulkInit, BulkInv, BulkTypeOK

---------------------------------------------------------------------------
(* MCDevices: all of them.  A behaviour of it is one of one component while  *)
(* the others stay where they start.                                         *)

\* Each component starts, and steps or stays, as its own specification says.
LEMMA DevicesSteps ==
    /\ DevicesInit => /\ PlacementInit /\ AssocInit /\ RegistryInit /\ ReserveInit
                      /\ MintInit /\ FabricInit /\ BulkInit /\ FederationInit
    /\ [DevicesNext]_devicesVars =>
          /\ [PlacementNext]_placementVars /\ [AssocNext]_assocVars
          /\ [FabricNext]_fabricVars /\ [RegistryNext]_registryVars
          /\ [ReserveNext]_reserveVars /\ [MintNext]_caVars
          /\ [BulkNext]_bulkVars /\ [FederationNext]_federationVars
<1>1. DevicesInit => /\ PlacementInit /\ AssocInit /\ RegistryInit /\ ReserveInit
                     /\ MintInit /\ FabricInit /\ BulkInit /\ FederationInit
  BY DEF DevicesInit
<1>2. DevicesNext =>
          /\ [PlacementNext]_placementVars /\ [AssocNext]_assocVars
          /\ [FabricNext]_fabricVars /\ [RegistryNext]_registryVars
          /\ [ReserveNext]_reserveVars /\ [MintNext]_caVars
          /\ [BulkNext]_bulkVars /\ [FederationNext]_federationVars
  BY DEF DevicesNext
<1>3. devicesVars' = devicesVars =>
          /\ placementVars' = placementVars /\ assocVars' = assocVars
          /\ fabricVars' = fabricVars /\ registryVars' = registryVars
          /\ reserveVars' = reserveVars /\ caVars' = caVars
          /\ bulkVars' = bulkVars /\ federationVars' = federationVars
  BY DEF devicesVars
<1> QED BY <1>1, <1>2, <1>3

\* Every component of the run of MCDevices follows its own specification: a
\* step of one is no step of another.
THEOREM DevicesOfEach ==
    DevicesSpec =>
        /\ PlacementInit /\ [][PlacementNext]_placementVars
        /\ AssocSpec /\ FabricSpec /\ RegistrySpec /\ ReserveSpec /\ MintSpec
        /\ BulkSpec /\ FederationSpec
BY DevicesSteps, PTL DEF DevicesSpec, AssocSpec, FabricSpec, RegistrySpec, ReserveSpec,
                         MintSpec, BulkSpec, FederationSpec

\* Nodes, the fleet and those who own it keep their types: versions have four
\* digits or the fifth that ends them, counts do not exceed rows, and whoever a
\* call, a row or a flow names is there.
THEOREM DevicesTypes == DevicesSpec => []DevicesTypeOK
<1>1. PlacementInv /\ [PlacementNext]_placementVars => PlacementInv'
  BY PlacementStepTyped
<1>2. FabricInv /\ [FabricNext]_fabricVars => FabricInv'
  BY FabricTyped
<1>3. RegistryTypeOK /\ [RegistryNext]_registryVars => RegistryTypeOK'
  BY RegistryTyped
<1>4. ReserveInv /\ [ReserveNext]_reserveVars => ReserveInv'
  BY ReserveStep
<1>5. MintInv /\ [MintNext]_caVars => MintInv'
  BY MintingStep
<1>6. BulkInv /\ [BulkNext]_bulkVars => BulkInv'
  BY BulkTyped
<1>7. FederationInv /\ [FederationNext]_federationVars => FederationInv'
  BY FederationTyped
<1>8. /\ PlacementInit => PlacementInv
      /\ FabricInit => FabricInv
      /\ RegistryInit => RegistryTypeOK
      /\ ReserveInit => ReserveInv
      /\ MintInit => MintInv
      /\ BulkInit => BulkInv
      /\ FederationInit => FederationInv
  <2>1. MintInit => MintInv
    BY ClaimingConstants DEF MintInit, MintInv, MintTypeOK
  <2>2. RegistryInit => RegistryTypeOK
    BY RegistryStart DEF RegistryInv
  <2> QED BY <2>1, <2>2, PlacementTyped, FabricInitial, ReserveInitial, BulkInitial,
             FederationInitial
<1>9. /\ PlacementInv /\ AssocTypeOK /\ FabricInv /\ RegistryTypeOK /\ ReserveInv
      /\ MintInv /\ BulkInv /\ FederationInv
      => DevicesTypeOK
  BY DEF PlacementInv, FabricInv, ReserveInv, MintInv, ClaimTypeOK, BulkInv, FederationInv,
         UsersTyped, FlowsTyped, SignInTyped, FederationTypeOK, DevicesTypeOK
<1> QED BY <1>1, <1>2, <1>3, <1>4, <1>5, <1>6, <1>7, <1>8, <1>9, DevicesOfEach,
           AssociationTypes, PTL
        DEF FabricSpec, RegistrySpec, ReserveSpec, MintSpec, BulkSpec, FederationSpec
=============================================================================
