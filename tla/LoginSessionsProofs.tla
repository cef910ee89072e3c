------------------------ MODULE LoginSessionsProofs ------------------------
(***************************************************************************)
(* Proofs about LoginSessions, for every value of its constants.           *)
(*                                                                         *)
(* Types come first: TypeInv strengthens TypeOK with what an invocation    *)
(* must hold at each of its calls.  Then every step is shown to change a   *)
(* family's row in one of a few ways (FamilyChange): opened, dropped, or   *)
(* advanced by the one conditional write of a rotation.  That serial       *)
(* counters (SerialInv) and the absence of resurrection follow, and the    *)
(* refinement of TokenLineage, whose steps those ways are.                 *)
(*                                                                         *)
(* Then how codes, sessions and families end.                              *)
(* A code is spent by one conditional delete, and whoever spent it is the  *)
(* only invocation that can mint from it (CodeInv).  A sign-out reaches    *)
(* the session rows only when every family it listed is gone (EndingInv),  *)
(* which holds because no step brings a family back (GoneStaysGone).  A    *)
(* token of an ended session is refused whatever an invocation read before *)
(* the end (RefusalInv), as long as bumps do not fail.  A family's         *)
(* deadline is the session's at most, which needs what is known of the     *)
(* clock readings invocations hold (ClockInv, ClampInv).                   *)
(***************************************************************************)
EXTENDS LoginSessions, TLAPS

---------------------------------------------------------------------------
(* Types *)

\* A rotation knows its family, and only a rotation advances or kills one.
GoodWork(w) ==
    /\ w \in Work
    /\ w.op = "rotate" => w.fam \in Family
    /\ w.pc \in {"advance", "kill"} => w.op = "rotate"

TypeInv == TypeOK /\ \A r \in Request : GoodWork(work[r])

\* The lifetimes are natural numbers, and a token's fits in a session's.
LEMMA ConstantTypes ==
    /\ Caps \subseteq Nat
    /\ SessionTTL \in Nat /\ TokenTTL \in Nat /\ FlowTTL \in Nat
    /\ Grace \in Nat /\ Timeout \in Nat
    /\ TokenTTL + Timeout <= SessionTTL
BY LifetimesAssumption

\* The names of operations, calls and phases that steps assign.
LEMMA NameTypes ==
    /\ {"none", "signin", "sso", "mint", "rotate", "signout", "logout"}
           \subseteq Op
    /\ {"idle", "create", "retire", "code", "consume", "list", "touch",
        "mint", "advance", "kill", "families", "rows"} \subseteq Pc
    /\ {"unborn", "live", "gone"} \subseteq Phase
BY DEF Op, Pc, Phase

\* A slot without an invocation is well-formed.
LEMMA IdleType == Idle \in Work /\ GoodWork(Idle)
BY DEF GoodWork, Idle, Work, Op, Pc

\* The row of a family that ended is well-formed.
LEMMA GoneFamilyType == GoneFamily \in FamilyRow
BY DEF GoneFamily, UnbornFamily, FamilyRow, Phase

\* A retention deadline is a time.
LEMMA RetentionType ==
    ASSUME NEW t \in Nat, NEW c \in Nat
    PROVE  Retention(t, c) \in Nat
BY ConstantTypes DEF Retention, Smaller

\* The session table stays typed when one row or one field is written.
LEMMA SessionRowType ==
    ASSUME NEW row \in SessionRow
    PROVE  /\ [row EXCEPT !.st = "gone"] \in SessionRow
           /\ \A t \in Nat :
                 [row EXCEPT !.expires = Retention(t, row.ceiling)]
                    \in SessionRow
<1>1. [row EXCEPT !.st = "gone"] \in SessionRow
  BY DEF SessionRow, Phase
<1>2. ASSUME NEW t \in Nat
      PROVE  [row EXCEPT !.expires = Retention(t, row.ceiling)] \in SessionRow
  <2>1. Retention(t, row.ceiling) \in Nat
    BY RetentionType DEF SessionRow
  <2> QED BY <2>1 DEF SessionRow
<1> QED BY <1>1, <1>2

\* Writing one field, or one record, of an invocation keeps all of them good.
LEMMA WorkType ==
    ASSUME TypeInv, NEW r \in Request, NEW STATE w, GoodWork(w),
           work' = [work EXCEPT ![r] = w]
    PROVE  /\ work' \in [Request -> Work]
           /\ \A q \in Request : GoodWork(work'[q])
<1>1. work' \in [Request -> Work]
  BY DEF TypeInv, TypeOK, GoodWork
<1>2. ASSUME NEW q \in Request PROVE GoodWork(work'[q])
  BY DEF TypeInv, TypeOK
<1> QED BY <1>1, <1>2

\* An invocation that ends leaves a well-formed slot.
LEMMA FinishType ==
    ASSUME TypeInv, NEW r \in Request, Finish(r)
    PROVE  /\ work' \in [Request -> Work]
           /\ \A q \in Request : GoodWork(work'[q])
BY WorkType, IdleType DEF Finish

\* The families table stays typed when one row is written.
LEMMA WriteFamilyType ==
    ASSUME TypeInv, NEW f, NEW row, row \in FamilyRow, WriteFamily(f, row)
    PROVE  family' \in [Family -> FamilyRow] /\ replica' \in [Family -> FamilyRow]
BY DEF TypeInv, TypeOK, WriteFamily

\* The initial tables and slots are typed.
LEMMA TypeInit == Init => TypeInv
BY IdleType DEF GoodWork, Init, TypeInv, TypeOK, NoSession, UnbornFamily,
    NoFlowRow, SessionRow, FamilyRow, FlowRow, Phase

\* Signing in keeps types (Establish, sessionShortCircuit, IssueCode).
LEMMA SignInTypes ==
    ASSUME TypeInv, NEW r \in Request, SignInStep(r)
    PROVE  TypeInv'
<1>0. work[r] \in Work /\ GoodWork(work[r])
  BY DEF TypeInv, TypeOK
<1>a. now \in Nat /\ work[r].at \in Nat
      /\ work[r].sid \in Sid \union {NoSid} /\ session \in [Hash -> SessionRow]
  BY <1>0 DEF TypeInv, TypeOK, Work
<1>1. ASSUME NEW p \in Hash \union {NoHash}, SignIn(r, p)
      PROVE  TypeInv'
  <2>1. ASSUME NEW s \in Sid \union {NoSid}, NEW h \in Hash \union {NoHash}
        PROVE  GoodWork([Idle EXCEPT !.op = "signin", !.pc = "create",
                                     !.at = now, !.sid = s, !.hash = h])
    <3>1. [Idle EXCEPT !.op = "signin", !.pc = "create", !.at = now,
                       !.sid = s, !.hash = h] \in Work
      BY <1>a, NameTypes, IdleType DEF Work
    <3> QED BY <3>1, IdleType DEF GoodWork, Work
  <2>2. ASSUME NEW s \in Sid
        PROVE  GoodWork([Idle EXCEPT !.op = "signin", !.pc = "create",
                                     !.at = now, !.sid = s])
    <3>1. [Idle EXCEPT !.op = "signin", !.pc = "create", !.at = now,
                       !.sid = s] \in Work
      BY <1>a, NameTypes, IdleType DEF Work
    <3> QED BY <3>1, IdleType DEF GoodWork, Work
  <2>3. p \in Hash => session[p].sid \in Sid \union {NoSid}
    BY <1>a DEF SessionRow
  <2>4. PICK w : GoodWork(w) /\ work' = [work EXCEPT ![r] = w]
    BY <1>1, <2>1, <2>2, <2>3 DEF SignIn
  <2> QED BY <2>4, WorkType, <1>1 DEF SignIn, TypeInv, TypeOK, tables, history
<1>2. ASSUME NEW h \in Hash, NEW cap \in Caps, CreateSession(r, h, cap)
      PROVE  TypeInv'
  <2>1. \A pc \in {"code", "retire"} : GoodWork([work[r] EXCEPT !.pc = pc])
    <3>1. \A pc \in {"code", "retire"} : [work[r] EXCEPT !.pc = pc] \in Work
      BY <1>0, NameTypes DEF Work
    <3> QED BY <1>0, <3>1 DEF GoodWork, Work
  <2>2. PICK w : GoodWork(w) /\ work' = [work EXCEPT ![r] = w]
    BY <1>2, <2>1 DEF CreateSession, Goto
  <2>3. \A c \in Nat :
           [st |-> "live", sid |-> work[r].sid, ceiling |-> c,
            expires |-> Retention(work[r].at, c)] \in SessionRow
    BY <1>a, RetentionType DEF SessionRow, Phase
  <2>4. (IF cap = 0 THEN 0 ELSE work[r].at + cap) \in Nat
    BY <1>a, ConstantTypes
  <2>5. session' \in [Hash -> SessionRow]
    BY <1>2, <1>a, <2>3, <2>4 DEF CreateSession
  <2> QED BY <2>2, WorkType, <2>5, <1>2 DEF CreateSession, TypeInv, TypeOK, history
<1>3. ASSUME RetirePrior(r) PROVE TypeInv'
  <2>1. GoodWork([work[r] EXCEPT !.pc = "code", !.hash = NoHash])
    <3>1. [work[r] EXCEPT !.pc = "code", !.hash = NoHash] \in Work
      BY <1>0, NameTypes DEF Work
    <3> QED BY <1>0, <3>1 DEF GoodWork, Work
  <2>2. PICK w : GoodWork(w) /\ work' = [work EXCEPT ![r] = w]
    BY <1>3, <2>1 DEF RetirePrior
  <2>3. session' \in [Hash -> SessionRow]
    BY <1>3, <1>a, SessionRowType DEF RetirePrior
  <2> QED BY <2>2, WorkType, <2>3, <1>3 DEF RetirePrior, TypeInv, TypeOK, history
<1>4. ASSUME SignInWithoutSession(r) PROVE TypeInv'
  <2>1. GoodWork([work[r] EXCEPT !.pc = "code", !.sid = NoSid, !.hash = NoHash])
    <3>1. [work[r] EXCEPT !.pc = "code", !.sid = NoSid, !.hash = NoHash] \in Work
      BY <1>0, NameTypes DEF Work
    <3> QED BY <1>0, <3>1 DEF GoodWork, Work
  <2>2. PICK w : GoodWork(w) /\ work' = [work EXCEPT ![r] = w]
    BY <1>4, <2>1 DEF SignInWithoutSession
  <2> QED BY <2>2, WorkType, <1>4 DEF SignInWithoutSession, TypeInv, TypeOK, tables, history
<1>5. ASSUME NEW h \in Hash, SingleSignOn(r, h) PROVE TypeInv'
  <2>1. GoodWork([Idle EXCEPT !.op = "sso", !.pc = "code", !.at = now,
                              !.sid = session[h].sid])
    <3>0. session[h].sid \in Sid \union {NoSid}
      BY <1>a DEF SessionRow
    <3>1. [Idle EXCEPT !.op = "sso", !.pc = "code", !.at = now,
                       !.sid = session[h].sid] \in Work
      BY <1>a, <3>0, NameTypes, IdleType DEF Work
    <3> QED BY <3>1, IdleType DEF GoodWork, Work
  <2>2. PICK w : GoodWork(w) /\ work' = [work EXCEPT ![r] = w]
    BY <1>5, <2>1 DEF SingleSignOn
  <2>3. session' \in [Hash -> SessionRow]
    BY <1>5, <1>a, SessionRowType DEF SingleSignOn
  <2> QED BY <2>2, WorkType, <2>3, <1>5 DEF SingleSignOn, TypeInv, TypeOK, history
<1>6. ASSUME NEW x \in Flow, IssueCode(r, x) PROVE TypeInv'
  <2>1. \A row \in FlowRow :
           [row EXCEPT !.st = "code", !.sid = work[r].sid] \in FlowRow
    BY <1>a DEF FlowRow
  <2>2. flow' \in [Flow -> FlowRow]
    BY <1>6, <2>1 DEF IssueCode, TypeInv, TypeOK
  <2> QED BY <2>2, FinishType, <1>6 DEF IssueCode, TypeInv, TypeOK, history
<1>7. ASSUME MintForApp(r) PROVE TypeInv'
  <2>1. ASSUME NEW pc \in {"mint", "list"}
        PROVE  GoodWork([work[r] EXCEPT !.op = "mint", !.at = now, !.pc = pc,
                                        !.expires = now + TokenTTL])
    <3>0. now + TokenTTL \in Nat
      BY <1>a, ConstantTypes
    <3>1. [work[r] EXCEPT !.op = "mint", !.at = now, !.pc = pc,
                          !.expires = now + TokenTTL] \in Work
      BY <1>0, <1>a, <3>0, NameTypes DEF Work
    <3> QED BY <1>0, <3>1 DEF GoodWork, Work
  <2>2. PICK w : GoodWork(w) /\ work' = [work EXCEPT ![r] = w]
    BY <1>7, <2>1 DEF MintForApp
  <2> QED BY <2>2, WorkType, <1>7 DEF MintForApp, TypeInv, TypeOK, tables, history
<1> QED BY <1>1, <1>2, <1>3, <1>4, <1>5, <1>6, <1>7 DEF SignInStep

\* Minting and rotating keep types (ExchangeAuthCode, Rotate).
LEMMA TokenTypes ==
    ASSUME TypeInv, NEW r \in Request, TokenStep(r)
    PROVE  TypeInv'
<1>0. work[r] \in Work /\ GoodWork(work[r])
  BY DEF TypeInv, TypeOK
<1>a. /\ now \in Nat /\ now + TokenTTL \in Nat
      /\ session \in [Hash -> SessionRow] /\ family \in [Family -> FamilyRow]
      /\ replica \in [Family -> FamilyRow] /\ flow \in [Flow -> FlowRow]
      /\ token \subseteq Family \X Nat /\ rotations \in [Family -> Nat]
      /\ origin \in [Family -> Flow \union {NoFlow}]
  BY ConstantTypes DEF TypeInv, TypeOK
<1>b. /\ work[r].at \in Nat /\ work[r].at + TokenTTL \in Nat
      /\ work[r].sid \in Sid \union {NoSid}
      /\ work[r].hash \in Hash \union {NoHash} /\ work[r].hashes \subseteq Hash
      /\ work[r].expires \in Nat /\ work[r].counter \in Nat
      /\ work[r].flow \in Flow \union {NoFlow}
  BY <1>0, ConstantTypes DEF Work
<1>1. ASSUME NEW x \in Flow, RedeemCode(r, x) PROVE TypeInv'
  <2>1. GoodWork([Idle EXCEPT !.op = "mint", !.pc = "consume", !.at = now,
                              !.sid = flow[x].sid, !.flow = x])
    <3>0. flow[x].sid \in Sid \union {NoSid}
      BY <1>a DEF FlowRow
    <3>1. [Idle EXCEPT !.op = "mint", !.pc = "consume", !.at = now,
                       !.sid = flow[x].sid, !.flow = x] \in Work
      BY <1>a, <3>0, NameTypes, IdleType DEF Work
    <3> QED BY <3>1, IdleType DEF GoodWork, Work
  <2>2. PICK w : GoodWork(w) /\ work' = [work EXCEPT ![r] = w]
    BY <1>1, <2>1 DEF RedeemCode
  <2> QED BY <2>2, WorkType, <1>1 DEF RedeemCode, TypeInv, TypeOK, tables, history
<1>2. ASSUME ConsumeCode(r) PROVE TypeInv'
  <2>1. ASSUME NEW pc \in {"mint", "list"}
        PROVE  GoodWork([work[r] EXCEPT !.pc = pc, !.at = now,
                                        !.expires = now + TokenTTL])
    <3>1. [work[r] EXCEPT !.pc = pc, !.at = now, !.expires = now + TokenTTL]
             \in Work
      BY <1>0, <1>a, NameTypes DEF Work
    <3> QED BY <1>0, <3>1 DEF GoodWork, Work
  <2>2. PICK w : GoodWork(w) /\ work' = [work EXCEPT ![r] = w]
    <3>1. CASE CodeUnspent(work[r].flow)
      <4> DEFINE pc == IF work[r].sid = NoSid THEN "mint" ELSE "list"
      <4>1. pc \in {"mint", "list"}
        OBVIOUS
      <4>2. work' = [work EXCEPT ![r] =
                        [work[r] EXCEPT !.pc = pc, !.at = now,
                                        !.expires = now + TokenTTL]]
        BY <1>2, <3>1 DEF ConsumeCode
      <4> QED BY <2>1, <4>1, <4>2
    <3>2. CASE ~CodeUnspent(work[r].flow)
      BY <1>2, <3>2, IdleType DEF ConsumeCode, Finish
    <3> QED BY <3>1, <3>2
  <2>3. [NoFlowRow EXCEPT !.st = "spent"] \in FlowRow
    BY DEF NoFlowRow, FlowRow
  <2>4. flow' \in [Flow -> FlowRow]
    BY <1>2, <1>a, <2>3 DEF ConsumeCode
  <2> QED BY <2>2, WorkType, <2>4, <1>2 DEF ConsumeCode, TypeInv, TypeOK, history
<1>3. ASSUME ListRows(r) PROVE TypeInv'
  <2> DEFINE hs == {h \in Hash : listed[h] = work[r].sid}
  <2>1. GoodWork([work[r] EXCEPT !.pc = "touch", !.at = now, !.hashes = hs,
                                 !.ended = TRUE])
    <3>0. hs \in SUBSET Hash
      OBVIOUS
    <3> HIDE DEF hs
    <3>1. [work[r] EXCEPT !.pc = "touch", !.at = now, !.hashes = hs,
                          !.ended = TRUE] \in Work
      BY <1>0, <1>a, <3>0, NameTypes DEF Work
    <3> QED BY <1>0, <3>1 DEF GoodWork, Work
  <2>2. PICK w : GoodWork(w) /\ work' = [work EXCEPT ![r] = w]
    BY <1>3, <2>1 DEF ListRows
  <2> QED BY <2>2, WorkType, <1>3 DEF ListRows, TypeInv, TypeOK, tables, history
<1>w. WritePc(r) \in Pc /\ (WritePc(r) \in {"advance", "kill"} => work[r].op = "rotate")
  BY NameTypes DEF WritePc
<1>4. ASSUME NEW h \in Hash, TouchRow(r, h) PROVE TypeInv'
  <2> DEFINE to == Retention(work[r].at, session[h].ceiling)
             rest == work[r].hashes \ {h}
             e == Clamped(to, work[r].at)
  <2>1. to \in Nat /\ e \in Nat /\ rest \subseteq Hash
    <3>1. session[h].ceiling \in Nat
      BY <1>a DEF SessionRow
    <3>2. to \in Nat
      BY <3>1, <1>b, RetentionType
    <3> QED BY <3>2, <1>b DEF Clamped, Smaller
  <2>2. CASE LiveAt(h, work[r].at)
        /\ session' = [session EXCEPT ![h].expires = to]
        /\ work' = [work EXCEPT ![r].pc = WritePc(r), ![r].hash = h,
                                ![r].hashes = {}, ![r].expires = e]
    <3> DEFINE w == [work[r] EXCEPT !.pc = WritePc(r), !.hash = h,
                                    !.hashes = {}, !.expires = e]
    <3>1. w \in Work
      BY <1>0, <1>w, <2>1 DEF Work
    <3>2. GoodWork(w)
      BY <1>0, <1>w, <3>1 DEF GoodWork, Work
    <3>3. work' = [work EXCEPT ![r] = w]
      BY <2>2
    <3>4. session' \in [Hash -> SessionRow]
      BY <2>2, <1>a, <1>b, SessionRowType
    <3> QED BY <3>2, <3>3, <3>4, WorkType, <1>4 DEF TouchRow, TypeInv, TypeOK, history
  <2>3. ASSUME NEW d \in BOOLEAN, UNCHANGED session,
               work' = [work EXCEPT ![r].hashes = rest, ![r].ended = d]
        PROVE  TypeInv'
    <3> DEFINE w == [work[r] EXCEPT !.hashes = rest, !.ended = d]
    <3>1. w \in Work
      BY <1>0, <2>1 DEF Work
    <3>2. GoodWork(w)
      BY <1>0, <3>1 DEF GoodWork, Work
    <3>3. work' = [work EXCEPT ![r] = w]
      BY <2>3
    <3> QED BY <3>2, <3>3, WorkType, <1>4, <2>3 DEF TouchRow, TypeInv, TypeOK, history
  <2>4. CASE UNCHANGED session /\ work' = [work EXCEPT ![r].hashes = rest]
    <3> DEFINE w == [work[r] EXCEPT !.hashes = rest]
    <3>1. w \in Work
      BY <1>0, <2>1 DEF Work
    <3>2. GoodWork(w)
      BY <1>0, <3>1 DEF GoodWork, Work
    <3>3. work' = [work EXCEPT ![r] = w]
      BY <2>4
    <3> QED BY <3>2, <3>3, WorkType, <1>4, <2>4 DEF TouchRow, TypeInv, TypeOK, history
  <2> QED BY <1>4, <2>2, <2>3, <2>4 DEF TouchRow

<1>5. ASSUME TouchedNone(r) PROVE TypeInv'
  <2>1. CASE SessionGone(r)
    <3>1. [work[r] EXCEPT !.pc = "kill", !.why = "ended"] \in Work
      BY <1>0, NameTypes DEF Work
    <3>2. GoodWork([work[r] EXCEPT !.pc = "kill", !.why = "ended"])
      BY <1>0, <3>1, <2>1 DEF GoodWork, Work, SessionGone
    <3>3. PICK w : GoodWork(w) /\ work' = [work EXCEPT ![r] = w]
      BY <3>2, <2>1, <1>5 DEF TouchedNone
    <3> QED BY <3>3, WorkType, <1>5 DEF TouchedNone, TypeInv, TypeOK, tables, history
  <2>2. CASE ~SessionGone(r)
    <3> DEFINE w == [work[r] EXCEPT !.pc = WritePc(r),
                                    !.expires = work[r].at + TokenTTL]
    <3>1. w \in Work
      BY <1>0, <1>b, <1>w DEF Work
    <3>2. GoodWork(w)
      BY <1>0, <3>1, <1>w DEF GoodWork, Work
    <3>3. work' = [work EXCEPT ![r] = w]
      BY <2>2, <1>5 DEF TouchedNone
    <3> QED BY <3>2, <3>3, WorkType, <1>5 DEF TouchedNone, TypeInv, TypeOK, tables, history
  <2> QED BY <2>1, <2>2
<1>6. ASSUME BumpFails(r) PROVE TypeInv'
  <2> DEFINE w == [work[r] EXCEPT !.pc = WritePc(r), !.hashes = {},
                                  !.expires = work[r].at + TokenTTL]
  <2>1. w \in Work
    BY <1>0, <1>b, <1>w DEF Work
  <2>2. GoodWork(w)
    BY <1>0, <2>1, <1>w DEF GoodWork, Work
  <2>3. work' = [work EXCEPT ![r] = w]
    BY <1>6 DEF BumpFails
  <2> QED BY <2>2, <2>3, WorkType, <1>6 DEF BumpFails, TypeInv, TypeOK, tables, history
<1>7. ASSUME NEW f \in Family, MintFamily(r, f) PROVE TypeInv'
  <2>1. [st |-> "live", sid |-> work[r].sid, counter |-> 0,
         expires |-> work[r].expires, rotated |-> work[r].at,
         via |-> work[r].hash] \in FamilyRow
    BY <1>b, NameTypes DEF FamilyRow
  <2>2. family' \in [Family -> FamilyRow] /\ replica' \in [Family -> FamilyRow]
    BY <2>1, <1>7, WriteFamilyType DEF MintFamily
  <2>3. token' \subseteq Family \X Nat /\ origin' \in [Family -> Flow \union {NoFlow}]
    BY <1>7, <1>a, <1>b DEF MintFamily
  <2> QED BY <2>2, <2>3, FinishType, <1>7 DEF MintFamily, TypeInv, TypeOK
<1>8. ASSUME NEW t \in token, NEW view \in FamilyView, PresentToken(r, t, view[t[1]])
      PROVE TypeInv'
  <2>0. t[1] \in Family /\ t[2] \in Nat /\ view[t[1]] \in FamilyRow
    BY <1>a DEF FamilyView
  <2> DEFINE row == view[t[1]]
             held == [Idle EXCEPT
               !.op = "rotate", !.at = now, !.sid = row.sid, !.fam = t[1],
               !.counter = t[2], !.dead = SurelyEnded(row.sid)]
  <2>1. row.sid \in Sid \union {NoSid} /\ row.counter \in Nat
        /\ SurelyEnded(row.sid) \in BOOLEAN
    BY <2>0 DEF FamilyRow, SurelyEnded
  <2>2. held \in Work
    BY <1>a, <2>0, <2>1, NameTypes, IdleType DEF Work
  <2>3. held.op = "rotate" /\ held.fam \in Family
    BY <2>0, <2>2, IdleType DEF Work
  <2> HIDE DEF held
  <2>4. GoodWork([held EXCEPT !.pc = "kill", !.why = "expired"])
        /\ GoodWork([held EXCEPT !.pc = "kill", !.why = "reuse"])
    <3>1. [held EXCEPT !.pc = "kill", !.why = "expired"] \in Work
          /\ [held EXCEPT !.pc = "kill", !.why = "reuse"] \in Work
      BY <2>2, NameTypes DEF Work
    <3> QED BY <3>1, <2>2, <2>3 DEF GoodWork, Work
  <2>5. ASSUME NEW pc \in {"advance", "list"}
        PROVE GoodWork([held EXCEPT !.pc = pc, !.expires = now + TokenTTL])
    <3>1. [held EXCEPT !.pc = pc, !.expires = now + TokenTTL] \in Work
      BY <2>2, <1>a, NameTypes DEF Work
    <3> QED BY <3>1, <2>2, <2>3 DEF GoodWork, Work
  <2>6. \/ UNCHANGED work
        \/ \E w : GoodWork(w) /\ work' = [work EXCEPT ![r] = w]
    BY <1>8, <2>4, <2>5 DEF PresentToken, held
  <2>7. /\ work' \in [Request -> Work]
        /\ \A q \in Request : GoodWork(work'[q])
    BY <2>6, WorkType DEF TypeInv, TypeOK
  <2>8. token' \subseteq Family \X Nat
    BY <1>8, <1>a, <2>0, <2>1 DEF PresentToken
  <2> QED BY <2>7, <2>8, <1>8 DEF PresentToken, TypeInv, TypeOK, tables
<1>9. ASSUME KillFamily(r) PROVE TypeInv'
  <2>1. family' \in [Family -> FamilyRow] /\ replica' \in [Family -> FamilyRow]
    BY <1>9, <1>a, WriteFamilyType, GoneFamilyType DEF KillFamily, DropFamily
  <2> QED BY <2>1, FinishType, <1>9 DEF KillFamily, TypeInv, TypeOK, history
<1>10. ASSUME AdvanceCounter(r) PROVE TypeInv'
  <2>1. work[r].fam \in Family
    BY <1>0, <1>10 DEF AdvanceCounter, IsAt, GoodWork
  <2>2. ASSUME NEW row \in FamilyRow
        PROVE  [row EXCEPT !.st = "live", !.counter = work[r].counter + 1,
                           !.expires = work[r].expires,
                           !.rotated = work[r].at, !.via = work[r].hash]
                  \in FamilyRow
    <3>1. work[r].counter + 1 \in Nat
      BY <1>b
    <3> QED BY <1>b, <3>1, NameTypes DEF FamilyRow
  <2>3. family' \in [Family -> FamilyRow] /\ replica' \in [Family -> FamilyRow]
    BY <1>10, <2>1, <2>2, <1>a, WriteFamilyType DEF AdvanceCounter
  <2>4. token' \subseteq Family \X Nat /\ rotations' \in [Family -> Nat]
    BY <1>10, <2>1, <1>a, <1>b DEF AdvanceCounter
  <2> QED BY <2>3, <2>4, FinishType, <1>10 DEF AdvanceCounter, TypeInv, TypeOK
<1> QED BY <1>1, <1>2, <1>3, <1>4, <1>5, <1>6, <1>7, <1>8, <1>9, <1>10 DEF TokenStep

\* Signing out keeps types (handleDeleteOne, handleDeleteAll, handleLogout).
LEMMA SignOutTypes ==
    ASSUME TypeInv, NEW r \in Request, SignOutStep(r)
    PROVE  TypeInv'
<1>0. work[r] \in Work /\ GoodWork(work[r]) /\ now \in Nat
      /\ session \in [Hash -> SessionRow] /\ work[r].hashes \subseteq Hash
      /\ work[r].fams \subseteq Family
  BY DEF TypeInv, TypeOK, Work
<1>1. ASSUME NEW op \in {"signout", "logout"}, NEW s \in Sid \union {NoSid},
             NEW view, StartSignOut(r, op, s, view)
      PROVE  /\ work' \in [Request -> Work]
             /\ \A q \in Request : GoodWork(work'[q])
  <2> DEFINE fs == Listing(s, view)
             w == [Idle EXCEPT !.op = op, !.pc = "families", !.at = now,
                               !.sid = s, !.fams = fs, !.seen = fs]
  <2>1. fs \in SUBSET Family
    BY DEF Listing
  <2> HIDE DEF fs
  <2>2. w \in Work
    BY <1>0, <2>1, NameTypes, IdleType, ZenonT(40) DEF Work
  <2>3. GoodWork(w)
    BY <2>2, IdleType DEF GoodWork, Work
  <2>4. work' = [work EXCEPT ![r] = w]
    BY <1>1 DEF StartSignOut, fs
  <2> QED BY <2>3, <2>4, WorkType
<1>2. ASSUME NEW s \in Sid \union {NoSid}, NEW view \in FamilyView, SignOut(r, s, view)
      PROVE  TypeInv'
  BY <1>1, <1>2 DEF SignOut, TypeInv, TypeOK, tables, history
<1>3. ASSUME NEW h \in Hash, NEW view \in FamilyView, Logout(r, h, view)
      PROVE  TypeInv'
  <2>1. session' \in [Hash -> SessionRow]
    BY <1>3, <1>0, SessionRowType DEF Logout
  <2>2. session[h].sid \in Sid \union {NoSid}
    BY <1>0 DEF SessionRow
  <2>3. /\ work' \in [Request -> Work]
        /\ \A q \in Request : GoodWork(work'[q])
    BY <1>1, <1>3, <2>2 DEF Logout
  <2> QED BY <2>1, <2>3, <1>3 DEF Logout, TypeInv, TypeOK, history
<1>4. ASSUME NEW f \in Family, SignOutFamily(r, f) PROVE TypeInv'
  <2>1. family' \in [Family -> FamilyRow] /\ replica' \in [Family -> FamilyRow]
    BY <1>4, WriteFamilyType, GoneFamilyType
       DEF SignOutFamily, DropFamily, TypeInv, TypeOK
  <2> DEFINE w == [work[r] EXCEPT !.fams = work[r].fams \ {f}]
  <2>2. w \in Work
    BY <1>0 DEF Work
  <2>3. GoodWork(w)
    BY <1>0, <2>2 DEF GoodWork, Work
  <2>4. \/ Finish(r)
        \/ work' = [work EXCEPT ![r] = w]
    BY <1>4 DEF SignOutFamily
  <2> HIDE DEF w
  <2>5. /\ work' \in [Request -> Work]
        /\ \A q \in Request : GoodWork(work'[q])
    BY <2>3, <2>4, WorkType, FinishType
  <2> QED BY <2>1, <2>5, <1>4 DEF SignOutFamily, TypeInv, TypeOK, history
<1>5. ASSUME SignOutList(r) PROVE TypeInv'
  <2> DEFINE hs == {h \in Hash : IF work[r].sid = NoSid THEN listed[h] # NoSid
                                 ELSE listed[h] = work[r].sid}
             w == [work[r] EXCEPT !.pc = "rows", !.hashes = hs]
  <2>1. hs \in SUBSET Hash
    OBVIOUS
  <2>2. \/ Finish(r)
        \/ work' = [work EXCEPT ![r] = w]
    BY <1>5 DEF SignOutList
  <2> HIDE DEF hs
  <2>3. w \in Work
    BY <1>0, <2>1, NameTypes DEF Work
  <2>4. GoodWork(w)
    BY <1>0, <2>3 DEF GoodWork, Work
  <2> HIDE DEF w
  <2>5. /\ work' \in [Request -> Work]
        /\ \A q \in Request : GoodWork(work'[q])
    BY <2>2, <2>4, WorkType, FinishType
  <2> QED BY <2>5, <1>5 DEF SignOutList, TypeInv, TypeOK, tables, history
<1>6. ASSUME NEW h \in Hash, SignOutRow(r, h) PROVE TypeInv'
  <2>1. session' \in [Hash -> SessionRow]
    BY <1>6, <1>0, SessionRowType DEF SignOutRow
  <2> DEFINE w == [work[r] EXCEPT !.hashes = work[r].hashes \ {h}]
  <2>2. w \in Work
    BY <1>0 DEF Work
  <2>3. GoodWork(w)
    BY <1>0, <2>2 DEF GoodWork, Work
  <2>4. \/ Finish(r)
        \/ work' = [work EXCEPT ![r] = w]
    BY <1>6 DEF SignOutRow
  <2> HIDE DEF w
  <2>5. /\ work' \in [Request -> Work]
        /\ \A q \in Request : GoodWork(work'[q])
    BY <2>3, <2>4, WorkType, FinishType
  <2> QED BY <2>1, <2>5, <1>6 DEF SignOutRow, TypeInv, TypeOK, history
<1> QED BY <1>2, <1>3, <1>4, <1>5, <1>6 DEF SignOutStep

\* The environment keeps types.
LEMMA EnvironmentTypes ==
    ASSUME TypeInv, EnvironmentStep
    PROVE  TypeInv'
<1>0. /\ now \in Nat /\ session \in [Hash -> SessionRow]
      /\ listed \in [Hash -> Sid \union {NoSid}]
      /\ family \in [Family -> FamilyRow] /\ replica \in [Family -> FamilyRow]
      /\ flow \in [Flow -> FlowRow] /\ token \subseteq Family \X Nat
  BY DEF TypeInv, TypeOK
<1>1. ASSUME NEW x \in Flow, StartFlow(x) PROVE TypeInv'
  <2>1. [st |-> "open", sid |-> NoSid, expires |-> now + FlowTTL] \in FlowRow
    BY <1>0, ConstantTypes DEF FlowRow
  <2>2. flow' \in [Flow -> FlowRow]
    BY <1>1, <1>0, <2>1 DEF StartFlow
  <2> QED BY <1>1, <2>2 DEF StartFlow, TypeInv, TypeOK, history
<1>2. ASSUME NEW t \in token, RevokeFamily(t) PROVE TypeInv'
  <2>1. family' \in [Family -> FamilyRow] /\ replica' \in [Family -> FamilyRow]
    BY <1>2, WriteFamilyType, GoneFamilyType DEF RevokeFamily, DropFamily
  <2> QED BY <2>1, <1>2 DEF RevokeFamily, TypeInv, TypeOK, history
<1>3. ASSUME NEW h \in Hash, UpdateIndex(h) PROVE TypeInv'
  <2>1. session[h].sid \in Sid \union {NoSid}
    BY <1>0 DEF SessionRow
  <2>2. listed' \in [Hash -> Sid \union {NoSid}]
    BY <1>3, <1>0, <2>1 DEF UpdateIndex
  <2> QED BY <2>2, <1>3 DEF UpdateIndex, TypeInv, TypeOK, history
<1>4. ASSUME NEW h \in Hash, SweepSession(h) PROVE TypeInv'
  <2>1. session' \in [Hash -> SessionRow]
    BY <1>4, <1>0, SessionRowType DEF SweepSession
  <2> QED BY <2>1, <1>4 DEF SweepSession, TypeInv, TypeOK, history
<1>5. ASSUME NEW f \in Family, Replicate(f) PROVE TypeInv'
  BY <1>5, <1>0 DEF Replicate, TypeInv, TypeOK, history
<1>6. ASSUME NEW f \in Family, SweepFamily(f) PROVE TypeInv'
  <2>1. family' \in [Family -> FamilyRow] /\ replica' \in [Family -> FamilyRow]
    BY <1>6, WriteFamilyType, GoneFamilyType DEF SweepFamily, DropFamily
  <2> QED BY <2>1, <1>6 DEF SweepFamily, TypeInv, TypeOK, history
<1>7. ASSUME Tick PROVE TypeInv'
  BY <1>7, <1>0 DEF Tick, TypeInv, TypeOK, tables, history
<1> QED BY <1>1, <1>2, <1>3, <1>4, <1>5, <1>6, <1>7 DEF EnvironmentStep

\* TypeInv is inductive.
LEMMA TypeStep == TypeInv /\ [Next]_vars => TypeInv'
<1> SUFFICES ASSUME TypeInv, [Next]_vars PROVE TypeInv'
  OBVIOUS
<1>1. CASE UNCHANGED vars
  BY <1>1 DEF vars, TypeInv, TypeOK
<1>2. ASSUME NEW r \in Request, Abandon(r) PROVE TypeInv'
  BY <1>2, FinishType DEF Abandon, TypeInv, TypeOK, tables, history
<1> QED BY <1>1, <1>2, SignInTypes, TokenTypes, SignOutTypes, EnvironmentTypes DEF Next

\* Every variable keeps its type, and a rotation always knows its family.
THEOREM TypeInvariance == Spec => []TypeInv
BY TypeInit, TypeStep, PTL DEF Spec

\* Every table row, token and invocation record stays of its type.
THEOREM TypeCorrect == Spec => []TypeOK
<1>1. TypeInv => TypeOK
  BY DEF TypeInv
<1> QED BY <1>1, TypeInvariance, PTL

---------------------------------------------------------------------------
(* What a step can do to the families and to the tokens handed out *)

Quiet == UNCHANGED <<family, replica, token, rotations, origin>>

\* The lost-response retry: the token of a row that was read goes out again.
Reserve(f) ==
    /\ \E view \in FamilyView :
          view[f].st = "live" /\ token' = token \union {<<f, view[f].counter>>}
    /\ UNCHANGED <<family, replica, rotations, origin>>

Removal(f) ==
    /\ family[f].st = "live"
    /\ DropFamily(f)
    /\ UNCHANGED history

Advance(r) == AdvanceCounter(r) /\ CounterMatches(r)

\* What a successful AdvanceCounter writes.
LEMMA AdvanceWrites ==
    ASSUME TypeInv, NEW r \in Request, NEW f \in Family, work[r].fam = f,
           Advance(r)
    PROVE  /\ family[f].st = "live" /\ family[f].counter = work[r].counter
           /\ family'[f].st = "live"
           /\ family'[f].counter = work[r].counter + 1
           /\ \A g \in Family : g # f => family'[g] = family[g]
           /\ replica' = replica \/ replica' = [replica EXCEPT ![f] = family'[f]]
           /\ token' = token \union {<<f, work[r].counter + 1>>}
           /\ rotations' = [rotations EXCEPT ![f] = @ + 1]
<1>0. family \in [Family -> FamilyRow] /\ family[f] \in FamilyRow
  BY DEF TypeInv, TypeOK
<1> DEFINE row == [family[f] EXCEPT
              !.st = "live", !.counter = work[r].counter + 1,
              !.expires = work[r].expires, !.rotated = work[r].at,
              !.via = work[r].hash]
<1>1. row.st = "live" /\ row.counter = work[r].counter + 1
  BY <1>0 DEF FamilyRow
<1>2. /\ WriteFamily(f, row)
      /\ token' = token \union {<<f, work[r].counter + 1>>}
      /\ rotations' = [rotations EXCEPT ![f] = @ + 1]
  BY DEF Advance, AdvanceCounter
<1> HIDE DEF row
<1> QED BY <1>0, <1>1, <1>2 DEF Advance, CounterMatches, WriteFamily

\* Every step leaves each family alone, opens it, drops it or advances it.
LEMMA FamilyChange ==
    ASSUME TypeInv, [Next]_vars
    PROVE  \/ Quiet
           \/ \E f \in Family : Replicate(f)
           \/ \E f \in Family : Reserve(f)
           \/ \E f \in Family : Removal(f)
           \/ \E r \in Request, f \in Family : MintFamily(r, f)
           \/ \E r \in Request : Advance(r) /\ work[r].fam \in Family
<1> DEFINE Goal == \/ Quiet
                   \/ \E f \in Family : Replicate(f)
                   \/ \E f \in Family : Reserve(f)
                   \/ \E f \in Family : Removal(f)
                   \/ \E r \in Request, f \in Family : MintFamily(r, f)
                   \/ \E r \in Request : Advance(r) /\ work[r].fam \in Family
<1>0. token \subseteq Family \X Nat
  BY DEF TypeInv, TypeOK
<1>1. CASE UNCHANGED vars
  BY <1>1 DEF vars, Quiet
<1>2. ASSUME NEW r \in Request, SignInStep(r) PROVE Quiet
  BY <1>2 DEF SignInStep, SignIn, CreateSession, RetirePrior,
      SignInWithoutSession, SingleSignOn, IssueCode, MintForApp, tables,
      history, Quiet
<1>3. ASSUME NEW r \in Request, TokenStep(r) PROVE Goal
  <2>0. /\ IsAt(r, "kill") => work[r].fam \in Family
        /\ IsAt(r, "advance") => work[r].fam \in Family
    BY DEF TypeInv, GoodWork, IsAt
  <2>1. CASE \/ \E x \in Flow : RedeemCode(r, x)
             \/ ConsumeCode(r) \/ ListRows(r)
             \/ \E h \in Hash : TouchRow(r, h)
             \/ TouchedNone(r) \/ BumpFails(r)
    BY <2>1 DEF RedeemCode, ConsumeCode, ListRows, TouchRow, TouchedNone,
        BumpFails, tables, history, Quiet
  <2>2. ASSUME NEW t \in token, NEW view \in FamilyView,
               PresentToken(r, t, view[t[1]])
        PROVE  Quiet \/ Reserve(t[1])
    BY <2>2 DEF PresentToken, tables, Quiet, Reserve
  <2>3. CASE KillFamily(r)
    BY <2>3, <2>0 DEF KillFamily, Quiet, Removal, history
  <2>4. CASE AdvanceCounter(r)
    <3>1. CASE CounterMatches(r)
      BY <2>4, <3>1, <2>0 DEF Advance, AdvanceCounter
    <3>2. CASE ~CounterMatches(r)
      BY <2>4, <3>2 DEF AdvanceCounter, Quiet
    <3> QED BY <3>1, <3>2
  <2> QED BY <1>0, <1>3, <2>1, <2>2, <2>3, <2>4 DEF TokenStep
<1>4. ASSUME NEW r \in Request, SignOutStep(r) PROVE Goal
  <2>1. ASSUME NEW f \in Family, SignOutFamily(r, f) PROVE Goal
    BY <2>1 DEF SignOutFamily, Quiet, Removal, history
  <2> QED BY <1>4, <2>1 DEF SignOutStep, SignOut, Logout, SignOutList,
            SignOutRow, tables, history, Quiet
<1>5. ASSUME EnvironmentStep PROVE Goal
  <2>1. ASSUME NEW t \in token, RevokeFamily(t) PROVE Goal
    BY <1>0, <2>1 DEF RevokeFamily, Removal
  <2>2. ASSUME NEW f \in Family, SweepFamily(f) PROVE Goal
    BY <2>2 DEF SweepFamily, Removal
  <2> QED BY <1>5, <2>1, <2>2 DEF EnvironmentStep, StartFlow, UpdateIndex,
            SweepSession, Tick, tables, history, Quiet
<1>6. ASSUME NEW r \in Request, Abandon(r) PROVE Quiet
  BY <1>6 DEF Abandon, tables, history, Quiet
<1> QED BY <1>1, <1>2, <1>3, <1>4, <1>5, <1>6 DEF Next

---------------------------------------------------------------------------
(* Rotations are serial *)

\* RotationsAreSerial made inductive: a live family's newest token is out, an
\* unborn one never rotated, and what a lagging read returns has been out.
SerialFamily(f) ==
    /\ family[f].st = "live" =>
          family[f].counter = rotations[f] /\ <<f, rotations[f]>> \in token
    /\ family[f].st = "unborn" => rotations[f] = 0
    /\ \A n \in Nat : <<f, n>> \in token => n <= rotations[f]
    /\ replica[f].st = "live" => <<f, replica[f].counter>> \in token

SerialInv == \A f \in Family : SerialFamily(f)

\* No family has rotated initially.
LEMMA SerialInit == Init => SerialInv
BY DEF Init, SerialInv, SerialFamily, UnbornFamily

\* SerialInv is preserved: only the conditional write moves a counter.
LEMMA SerialStep == TypeInv /\ SerialInv /\ [Next]_vars => SerialInv'
<1> SUFFICES ASSUME TypeInv, SerialInv, [Next]_vars PROVE SerialInv'
  OBVIOUS
<1>0. /\ family \in [Family -> FamilyRow] /\ replica \in [Family -> FamilyRow]
      /\ rotations \in [Family -> Nat] /\ token \subseteq Family \X Nat
  BY DEF TypeInv, TypeOK
<1>1. CASE Quiet
  BY <1>1 DEF Quiet, SerialInv, SerialFamily
<1>2. ASSUME NEW f \in Family, Replicate(f) PROVE SerialInv'
  BY <1>0, <1>2 DEF Replicate, SerialInv, SerialFamily, history
<1>3. ASSUME NEW f \in Family, Reserve(f) PROVE SerialInv'
  <2>1. UNCHANGED token
    BY <1>0, <1>3 DEF Reserve, FamilyView, SerialInv, SerialFamily
  <2> QED BY <1>3, <2>1 DEF Reserve, SerialInv, SerialFamily
<1>4. ASSUME NEW f \in Family, Removal(f) PROVE SerialInv'
  BY <1>0, <1>4 DEF Removal, DropFamily, WriteFamily, GoneFamily, UnbornFamily,
      history, SerialInv, SerialFamily
<1>5. ASSUME NEW r \in Request, NEW f \in Family, MintFamily(r, f)
      PROVE  SerialInv'
  <2> DEFINE row == [st |-> "live", sid |-> work[r].sid, counter |-> 0,
                     expires |-> work[r].expires, rotated |-> work[r].at,
                     via |-> work[r].hash]
  <2>1. row.st = "live" /\ row.counter = 0
    OBVIOUS
  <2>2. /\ WriteFamily(f, row) /\ token' = token \union {<<f, 0>>}
        /\ family[f].st = "unborn" /\ rotations' = rotations
    BY <1>5 DEF MintFamily
  <2> HIDE DEF row
  <2>3. ASSUME NEW g \in Family
        PROVE  /\ family'[g] = IF g = f THEN row ELSE family[g]
               /\ replica'[g] \in {replica[g], family'[g]}
    BY <1>0, <2>2 DEF WriteFamily
  <2>4. ASSUME NEW g \in Family, g # f PROVE SerialFamily(g)'
    BY <1>0, <2>2, <2>3, <2>4 DEF SerialInv, SerialFamily
  <2>5. SerialFamily(f)'
    <3>1. rotations'[f] = 0 /\ SerialFamily(f)
      BY <2>2 DEF SerialInv, SerialFamily
    <3>2. ASSUME NEW n \in Nat, <<f, n>> \in token' PROVE n <= rotations'[f]
      BY <3>1, <3>2, <2>2 DEF SerialFamily
    <3>3. replica'[f].st = "live" => <<f, replica'[f].counter>> \in token'
      BY <3>1, <2>1, <2>2, <2>3 DEF SerialFamily
    <3>4. family'[f] = row /\ <<f, 0>> \in token'
      BY <2>2, <2>3
    <3> QED BY <2>1, <3>1, <3>2, <3>3, <3>4 DEF SerialFamily
  <2> QED BY <2>4, <2>5 DEF SerialInv
<1>6. ASSUME NEW r \in Request, Advance(r), work[r].fam \in Family
      PROVE  SerialInv'
  <2>1. PICK f \in Family : work[r].fam = f
    BY <1>6
  <2>2. rotations[f] = work[r].counter
    BY <1>6, <2>1, AdvanceWrites, ZenonT(40) DEF SerialInv, SerialFamily
  <2>3. ASSUME NEW g \in Family
        PROVE  \/ replica'[g] = replica[g]
               \/ g = f /\ replica'[g] = family'[g]
    BY <1>0, <1>6, <2>1, AdvanceWrites
  <2>4. /\ family'[f].st = "live" /\ family'[f].counter = rotations[f] + 1
        /\ \A g \in Family : g # f => family'[g] = family[g]
        /\ token' = token \union {<<f, rotations[f] + 1>>}
        /\ rotations' = [rotations EXCEPT ![f] = @ + 1]
    BY <1>6, <2>1, <2>2, AdvanceWrites
  <2>5. ASSUME NEW g \in Family, g # f PROVE SerialFamily(g)'
    BY <1>0, <2>3, <2>4, <2>5 DEF SerialInv, SerialFamily
  <2>6. SerialFamily(f)'
    <3>1. SerialFamily(f) /\ rotations[f] \in Nat
          /\ rotations'[f] = rotations[f] + 1
      BY <1>0, <2>4 DEF SerialInv
    <3>2. ASSUME NEW n \in Nat, <<f, n>> \in token' PROVE n <= rotations'[f]
      <4>1. <<f, n>> \in token \/ n = rotations[f] + 1
        BY <2>4, <3>2
      <4> QED BY <3>1, <4>1 DEF SerialFamily
    <3>3. replica'[f].st = "live" => <<f, replica'[f].counter>> \in token'
      BY <3>1, <2>3, <2>4 DEF SerialFamily
    <3> QED BY <2>4, <3>1, <3>2, <3>3 DEF SerialFamily
  <2> QED BY <2>5, <2>6 DEF SerialInv
<1> QED BY <1>1, <1>2, <1>3, <1>4, <1>5, <1>6, FamilyChange

\* The counter of a live family counts its successful rotations, and tokens never
\* run ahead of it, whatever requests race on AdvanceCounter.
THEOREM SerialInvariance == Spec => [](TypeInv /\ SerialInv)
BY TypeInit, SerialInit, TypeStep, SerialStep, PTL DEF Spec

\* Concurrent redemptions of one refresh token never both advance the family.
THEOREM SerialRotations == Spec => []RotationsAreSerial
<1>1. TypeInv /\ SerialInv => RotationsAreSerial
  <2> SUFFICES ASSUME TypeInv, SerialInv PROVE RotationsAreSerial
    OBVIOUS
  <2>1. \A t \in token : t = <<t[1], t[2]>> /\ t[2] \in Nat
    BY DEF TypeInv, TypeOK
  <2> QED BY <2>1 DEF SerialInv, SerialFamily, RotationsAreSerial
<1> QED BY <1>1, SerialInvariance, PTL

---------------------------------------------------------------------------
(* Ended families stay ended, and the tables implement the lineages *)

\* A family row that is gone is never written as live.
LEMMA GoneStaysGone ==
    ASSUME TypeInv, [Next]_vars, NEW f \in Family, family[f].st = "gone"
    PROVE  family'[f].st = "gone"
<1>0. family \in [Family -> FamilyRow]
  BY DEF TypeInv, TypeOK
<1> QED BY <1>0, FamilyChange DEF Quiet, Replicate, Reserve, Removal, MintFamily,
          Advance, AdvanceCounter, CounterMatches, DropFamily, WriteFamily,
          GoneFamily, UnbornFamily

\* No request resurrects a family that sign-out, revocation or reuse ended.
THEOREM NoResurrection == Spec => EndedFamilyStaysEnded
<1>1. TypeInv /\ [Next]_vars =>
        [\A f \in Family : family[f].st = "gone" => family'[f].st = "gone"]_vars
  BY GoneStaysGone
<1> QED BY <1>1, TypeInvariance, PTL DEF Spec, EndedFamilyStaysEnded

\* The initial tables map to an initial state of the lineages.
LEMMA LineagesInit == Init => Lineages!LineageInit
BY DEF Init, Lineages!LineageInit, UnbornFamily

\* Every step maps to a lineage step or to a stutter.
LEMMA LineagesStep ==
    TypeInv /\ SerialInv /\ [Next]_vars
       => [Lineages!LineageNext]_(Lineages!lineageVars)
<1> SUFFICES ASSUME TypeInv, SerialInv, [Next]_vars
             PROVE  [Lineages!LineageNext]_(Lineages!lineageVars)
  OBVIOUS
<1>0. /\ family \in [Family -> FamilyRow] /\ replica \in [Family -> FamilyRow]
      /\ rotations \in [Family -> Nat] /\ token \subseteq Family \X Nat
  BY DEF TypeInv, TypeOK
<1> DEFINE phase == [f \in Family |-> family[f].st]
<1>1. CASE Quiet \/ \E f \in Family : Replicate(f)
  BY <1>1 DEF Quiet, Replicate, history, Lineages!lineageVars
<1>3. ASSUME NEW f \in Family, Reserve(f)
      PROVE  UNCHANGED Lineages!lineageVars
  <2>1. UNCHANGED token
    BY <1>0, <1>3 DEF Reserve, FamilyView, SerialInv, SerialFamily
  <2> QED BY <1>3, <2>1 DEF Reserve, Lineages!lineageVars
<1>4. ASSUME NEW f \in Family, Removal(f) PROVE Lineages!End(f)
  <2>1. phase' = [phase EXCEPT ![f] = "gone"]
    BY <1>0, <1>4 DEF Removal, DropFamily, WriteFamily, GoneFamily, UnbornFamily
  <2> QED BY <1>4, <2>1 DEF Removal, history, Lineages!End
<1>5. ASSUME NEW r \in Request, NEW f \in Family, MintFamily(r, f)
      PROVE  Lineages!Open(f)
  <2>1. phase' = [phase EXCEPT ![f] = "live"]
    BY <1>0, <1>5 DEF MintFamily, WriteFamily
  <2> QED BY <1>5, <2>1 DEF MintFamily, Lineages!Open
<1>6. ASSUME NEW r \in Request, Advance(r), work[r].fam \in Family
      PROVE  Lineages!Succeed(work[r].fam)
  <2>1. PICK f \in Family : work[r].fam = f
    BY <1>6
  <2>2. /\ family[f].st = "live" /\ rotations[f] = work[r].counter
        /\ <<f, rotations[f]>> \in token
    BY <1>6, <2>1, AdvanceWrites DEF SerialInv, SerialFamily
  <2>3. <<f, rotations[f] + 1>> \notin token
    <3>1. rotations[f] \in Nat /\ SerialFamily(f)
      BY <1>0 DEF SerialInv
    <3>2. rotations[f] + 1 \in Nat /\ ~(rotations[f] + 1 <= rotations[f])
      BY <3>1
    <3> QED BY <3>1, <3>2 DEF SerialFamily
  <2>4. phase' = phase
    <3>1. \A g \in Family : family'[g].st = family[g].st
      BY <1>6, <2>1, AdvanceWrites
    <3> QED BY <3>1
  <2>5. /\ rotations' = [rotations EXCEPT ![f] = @ + 1]
        /\ token' = token \union {<<f, rotations[f] + 1>>}
    BY <1>6, <2>1, <2>2, AdvanceWrites
  <2> QED BY <2>1, <2>2, <2>3, <2>4, <2>5 DEF Lineages!Succeed
<1> QED BY <1>1, <1>3, <1>4, <1>5, <1>6, FamilyChange DEF Lineages!LineageNext

\* The families table, written by concurrent requests, implements the abstract
\* token lineages: one open, one successor at a time, nothing after the end.
THEOREM LineagesImplemented == Spec => ImplementsLineages
BY LineagesInit, LineagesStep, SerialInvariance, PTL
   DEF Spec, ImplementsLineages, Lineages!LineageSpec

---------------------------------------------------------------------------
(* A sign-out ends the families first *)

\* A listed family is gone, or still on the list of those to delete.
FamilyEnds(w, f) ==
    family[f].st = "gone" \/ (w.pc = "families" /\ f \in w.fams)

EndingInv ==
    \A r \in Request :
        work[r].pc \in {"families", "rows"} =>
            \A f \in work[r].seen : FamilyEnds(work[r], f)

\* No sign-out runs initially.
LEMMA EndingInit == Init => EndingInv
BY DEF Init, EndingInv, Idle

\* A step writes the slot of its own invocation only.
SlotOf(r) == \A q \in Request \ {r} : work'[q] = work[q]

\* What the two invariants below read of an invocation that signs in, redeems
\* or stops: it signs out of nothing, and holds its flow or none.
Calm(r) ==
    /\ SlotOf(r)
    /\ work'[r].pc \notin {"families", "rows", "consume"}
    /\ work'[r].flow \in {NoFlow, work[r].flow}

\* A finished invocation is calm.
LEMMA FinishCalm ==
    ASSUME TypeInv, NEW r \in Request, Finish(r)
    PROVE  Calm(r)
BY DEF TypeInv, TypeOK, Finish, Idle, Calm, SlotOf

\* Signing in is calm (Establish, sessionShortCircuit, IssueCode).
LEMMA SignInCalm ==
    ASSUME TypeInv, NEW r \in Request, SignInStep(r)
    PROVE  Calm(r)
<1>0. work \in [Request -> Work] /\ work[r] \in Work
  BY DEF TypeInv, TypeOK
<1> USE DEF Calm, SlotOf
<1>1. ASSUME NEW p \in Hash \union {NoHash}, SignIn(r, p) PROVE Calm(r)
  <2> DEFINE w(s) == [Idle EXCEPT !.op = "signin", !.pc = "create",
                                  !.at = now, !.sid = s]
             v(s) == [Idle EXCEPT !.op = "signin", !.pc = "create",
                                  !.at = now, !.sid = s, !.hash = p]
  <2>1. \A s : /\ w(s).pc = "create" /\ w(s).flow = NoFlow
               /\ v(s).pc = "create" /\ v(s).flow = NoFlow
    BY DEF Idle
  <2>2. \E s : \/ work' = [work EXCEPT ![r] = w(s)]
               \/ work' = [work EXCEPT ![r] = v(s)]
    BY <1>1 DEF SignIn
  <2> HIDE DEF w, v
  <2> QED BY <1>0, <2>1, <2>2
<1>2. ASSUME NEW h \in Hash, NEW cap \in Caps, CreateSession(r, h, cap)
      PROVE  Calm(r)
  BY <1>0, <1>2 DEF CreateSession, Goto, Work
<1>3. ASSUME RetirePrior(r) PROVE Calm(r)
  BY <1>0, <1>3 DEF RetirePrior, Work
<1>4. ASSUME SignInWithoutSession(r) PROVE Calm(r)
  BY <1>0, <1>4 DEF SignInWithoutSession, Work
<1>5. ASSUME NEW h \in Hash, SingleSignOn(r, h) PROVE Calm(r)
  BY <1>0, <1>5 DEF SingleSignOn, Idle
<1>6. ASSUME NEW x \in Flow, IssueCode(r, x) PROVE Calm(r)
  BY FinishCalm, <1>6 DEF IssueCode
<1>7. ASSUME MintForApp(r) PROVE Calm(r)
  BY <1>0, <1>7 DEF MintForApp, Work
<1> QED BY <1>1, <1>2, <1>3, <1>4, <1>5, <1>6, <1>7 DEF SignInStep

\* Presenting a token is calm (Rotate).
LEMMA PresentCalm ==
    ASSUME TypeInv, NEW r \in Request, NEW t, NEW row, PresentToken(r, t, row)
    PROVE  work' = work \/ Calm(r)
<1>0. work \in [Request -> Work]
  BY DEF TypeInv, TypeOK
<1> DEFINE held == [Idle EXCEPT
               !.op = "rotate", !.at = now, !.sid = row.sid, !.fam = t[1],
               !.counter = t[2], !.dead = SurelyEnded(row.sid)]
<1>1. \A why : /\ [held EXCEPT !.pc = "kill", !.why = why].pc = "kill"
               /\ [held EXCEPT !.pc = "kill", !.why = why].flow = NoFlow
  BY DEF Idle
<1>2. \A e, pc : /\ [held EXCEPT !.pc = pc, !.expires = e].pc = pc
                 /\ [held EXCEPT !.pc = pc, !.expires = e].flow = NoFlow
  BY DEF Idle
<1>3. \/ work' = work
      \/ \E w : /\ w.pc \in {"kill", "advance", "list"} /\ w.flow = NoFlow
                /\ work' = [work EXCEPT ![r] = w]
  <2> HIDE DEF held
  <2>1. \/ UNCHANGED work
        \/ \E why : work' = [work EXCEPT ![r] =
               [held EXCEPT !.pc = "kill", !.why = why]]
        \/ \E e : \E pc \in {"advance", "list"} : work' = [work EXCEPT ![r] =
               [held EXCEPT !.pc = pc, !.expires = e]]
    BY DEF PresentToken, held
  <2> QED BY <1>1, <1>2, <2>1
<1> QED BY <1>0, <1>3 DEF Calm, SlotOf

\* So is every other call of a mint or a rotation but the code's redemption.
LEMMA TokenCalm ==
    ASSUME TypeInv, NEW r \in Request, TokenStep(r),
           \A x \in Flow : ~RedeemCode(r, x)
    PROVE  work' = work \/ Calm(r)
<1>0. work \in [Request -> Work] /\ work[r] \in Work
  BY DEF TypeInv, TypeOK
<1> USE DEF Calm, SlotOf
<1>w. WritePc(r) \in {"advance", "mint"}
  BY DEF WritePc
<1>2. ASSUME ConsumeCode(r) PROVE Calm(r)
  BY <1>0, <1>2, FinishCalm DEF ConsumeCode, Work
<1>3. ASSUME ListRows(r) PROVE Calm(r)
  BY <1>0, <1>3 DEF ListRows, Work
<1>4. ASSUME NEW h \in Hash, TouchRow(r, h) PROVE Calm(r)
  <2>1. work[r].pc = "touch"
    BY <1>4 DEF TouchRow, IsAt
  <2> DEFINE to == Retention(work[r].at, session[h].ceiling)
             rest == work[r].hashes \ {h}
             e == Clamped(to, work[r].at)
  <2>2. CASE work' = [work EXCEPT ![r].pc = WritePc(r), ![r].hash = h,
                                  ![r].hashes = {}, ![r].expires = e]
    BY <1>0, <1>w, <2>2 DEF Work
  <2>3. CASE work' = [work EXCEPT ![r].hashes = rest]
    BY <1>0, <2>1, <2>3 DEF Work
  <2>4. CASE work' = [work EXCEPT ![r].hashes = rest, ![r].ended = FALSE]
    BY <1>0, <2>1, <2>4 DEF Work
  <2> QED BY <1>4, <2>2, <2>3, <2>4 DEF TouchRow
<1>5. ASSUME TouchedNone(r) PROVE Calm(r)
  BY <1>0, <1>w, <1>5 DEF TouchedNone, Work
<1>6. ASSUME BumpFails(r) PROVE Calm(r)
  BY <1>0, <1>w, <1>6 DEF BumpFails, Work
<1>7. ASSUME NEW f \in Family, MintFamily(r, f) PROVE Calm(r)
  BY <1>7, FinishCalm DEF MintFamily
<1>8. ASSUME NEW t \in token, NEW view \in FamilyView,
             PresentToken(r, t, view[t[1]])
      PROVE  work' = work \/ Calm(r)
  BY <1>8, PresentCalm
<1>9. ASSUME KillFamily(r) PROVE Calm(r)
  BY <1>9, FinishCalm DEF KillFamily
<1>10. ASSUME AdvanceCounter(r) PROVE Calm(r)
  BY <1>10, FinishCalm DEF AdvanceCounter
<1> QED BY <1>2, <1>3, <1>4, <1>5, <1>6, <1>7, <1>8, <1>9, <1>10 DEF TokenStep

\* The environment touches no invocation.
LEMMA EnvironmentWork == EnvironmentStep => work' = work
BY DEF EnvironmentStep, StartFlow, RevokeFamily, UpdateIndex, SweepSession,
       Replicate, SweepFamily, Tick

\* Starting a sign-out owes every family it lists.
LEMMA StartEnding ==
    ASSUME TypeInv, EndingInv, [Next]_vars,
           NEW r \in Request, NEW op, NEW x, NEW view,
           StartSignOut(r, op, x, view)
    PROVE  EndingInv'
<1> DEFINE fams == Listing(x, view)
<1> DEFINE w == [Idle EXCEPT !.op = op, !.pc = "families", !.at = now,
                             !.sid = x, !.fams = fams, !.seen = fams]
<1>1. w.pc = "families" /\ w.fams = w.seen
  BY DEF Idle
<1>2. work' = [work EXCEPT ![r] = w]
  BY DEF StartSignOut
<1> HIDE DEF w
<1>3. ASSUME NEW q \in Request, q # r,
             work[q].pc \in {"families", "rows"}, NEW f \in work[q].seen
      PROVE  FamilyEnds(work[q], f)'
  <2>1. f \in Family
    BY DEF TypeInv, TypeOK, Work
  <2>2. work'[q] = work[q] /\ FamilyEnds(work[q], f)
    BY <1>2, <1>3 DEF TypeInv, TypeOK, EndingInv
  <2> QED BY <1>3, <2>1, <2>2, GoneStaysGone DEF FamilyEnds
<1>4. ASSUME NEW q \in Request, q # r PROVE work'[q] = work[q]
  BY <1>2, <1>4 DEF TypeInv, TypeOK
<1>5. work'[r] = w
  BY <1>2 DEF TypeInv, TypeOK
<1> QED BY <1>1, <1>3, <1>4, <1>5 DEF EndingInv, FamilyEnds

\* EndingInv is preserved: the rows are reached with nothing left to delete.
LEMMA EndingStep == TypeInv /\ EndingInv /\ [Next]_vars => EndingInv'
<1> SUFFICES ASSUME TypeInv, EndingInv, [Next]_vars PROVE EndingInv'
  OBVIOUS
<1>0. work \in [Request -> Work] /\ family \in [Family -> FamilyRow]
  BY DEF TypeInv, TypeOK
\* An invocation whose slot stays as it is owes no more than before.
<1>a. ASSUME NEW q \in Request, work'[q] = work[q],
             work'[q].pc \in {"families", "rows"}, NEW f \in work'[q].seen
      PROVE  FamilyEnds(work[q], f)'
  <2>1. f \in Family
    BY <1>0, <1>a DEF Work
  <2> QED BY <1>a, <2>1, GoneStaysGone DEF EndingInv, FamilyEnds
<1>1. CASE work' = work
  BY <1>a, <1>1 DEF EndingInv
<1>2. ASSUME NEW r \in Request, Calm(r) PROVE EndingInv'
  BY <1>a, <1>2 DEF EndingInv, Calm, SlotOf
<1>3. ASSUME NEW r \in Request, NEW x \in Flow, RedeemCode(r, x)
      PROVE  EndingInv'
  <2>1. work'[r].pc = "consume" /\ SlotOf(r)
    BY <1>0, <1>3 DEF RedeemCode, Idle, SlotOf
  <2> QED BY <1>a, <2>1 DEF EndingInv, SlotOf
<1>4. ASSUME NEW r \in Request, SignOutStep(r) PROVE EndingInv'
  <2>0. work[r] \in Work
    BY <1>0
  <2>1. ASSUME NEW x, NEW view, SignOut(r, x, view) PROVE EndingInv'
    BY <2>1, StartEnding DEF SignOut
  <2>2. ASSUME NEW h, NEW view, Logout(r, h, view) PROVE EndingInv'
    BY <2>2, StartEnding DEF Logout
  <2>3. ASSUME NEW f \in Family, SignOutFamily(r, f) PROVE EndingInv'
    <3>1. CASE family[f].st = "live"
      <4>1. /\ work' = [work EXCEPT ![r].fams = @ \ {f}]
            /\ family' = [family EXCEPT ![f] = GoneFamily]
            /\ work[r].pc = "families"
        BY <2>3, <3>1 DEF SignOutFamily, DropFamily, WriteFamily, IsAt
      <4>2. /\ work'[r].pc = work[r].pc /\ work'[r].seen = work[r].seen
            /\ work'[r].fams = work[r].fams \ {f} /\ SlotOf(r)
        BY <1>0, <2>0, <4>1 DEF Work, SlotOf
      <4>3. family'[f].st = "gone"
        BY <1>0, <4>1 DEF GoneFamily, UnbornFamily
      <4>4. ASSUME NEW g \in work'[r].seen PROVE FamilyEnds(work[r], g)'
        <5>1. g \in Family /\ FamilyEnds(work[r], g)
          BY <2>0, <4>1, <4>2 DEF Work, EndingInv
        <5> QED BY <4>1, <4>2, <4>3, <5>1, GoneStaysGone DEF FamilyEnds
      <4> QED BY <1>a, <4>2, <4>4 DEF EndingInv, SlotOf
    <3>2. CASE family[f].st # "live"
      BY <1>2, <2>3, <3>2, FinishCalm DEF SignOutFamily
    <3> QED BY <3>1, <3>2
  <2>4. CASE SignOutList(r)
    <3>1. CASE Finish(r)
      BY <1>2, <3>1, FinishCalm
    <3>2. CASE \E hs : work' = [work EXCEPT ![r].pc = "rows", ![r].hashes = hs]
      <4>1. /\ work'[r].seen = work[r].seen /\ SlotOf(r)
            /\ work[r].pc = "families" /\ work[r].fams = {}
        BY <1>0, <2>0, <2>4, <3>2 DEF Work, SlotOf, SignOutList, IsAt
      <4>2. ASSUME NEW g \in work'[r].seen PROVE FamilyEnds(work[r], g)'
        <5>1. g \in Family /\ family[g].st = "gone"
          BY <2>0, <4>1 DEF Work, EndingInv, FamilyEnds
        <5> QED BY <5>1, GoneStaysGone DEF FamilyEnds
      <4> QED BY <1>a, <4>1, <4>2 DEF EndingInv, SlotOf
    <3> QED BY <2>4, <3>1, <3>2 DEF SignOutList
  <2>5. ASSUME NEW h \in Hash, SignOutRow(r, h) PROVE EndingInv'
    <3>1. CASE Finish(r)
      BY <1>2, <3>1, FinishCalm
    <3>2. CASE work' = [work EXCEPT ![r].hashes = @ \ {h}]
      <4>1. /\ work'[r].seen = work[r].seen /\ SlotOf(r)
            /\ work[r].pc = "rows"
        BY <1>0, <2>0, <2>5, <3>2 DEF Work, SlotOf, SignOutRow, IsAt
      <4>2. ASSUME NEW g \in work'[r].seen PROVE FamilyEnds(work[r], g)'
        <5>1. g \in Family /\ family[g].st = "gone"
          BY <2>0, <4>1 DEF Work, EndingInv, FamilyEnds
        <5> QED BY <5>1, GoneStaysGone DEF FamilyEnds
      <4> QED BY <1>a, <4>1, <4>2 DEF EndingInv, SlotOf
    <3> QED BY <2>5, <3>1, <3>2 DEF SignOutRow
  <2> QED BY <1>4, <2>1, <2>2, <2>3, <2>4, <2>5 DEF SignOutStep
<1>5. ASSUME NEW r \in Request, SignInStep(r) \/ TokenStep(r) \/ Abandon(r)
      PROVE  EndingInv'
  BY <1>1, <1>2, <1>3, <1>5, SignInCalm, TokenCalm, FinishCalm DEF Abandon
<1> QED BY <1>1, <1>4, <1>5, EnvironmentWork DEF Next, vars

\* Interrupted anywhere, a sign-out never leaves an application signed in
\* behind a session row it has reached (handleDeleteOne, handleLogout).
THEOREM FamiliesGoFirst == Spec => []FamiliesEndFirst
<1>1. TypeInv /\ EndingInv => FamiliesEndFirst
  BY DEF EndingInv, FamilyEnds, FamiliesEndFirst, IsAt
<1> QED BY <1>1, TypeInit, TypeStep, EndingInit, EndingStep, PTL DEF Spec

---------------------------------------------------------------------------
(* A code mints at most one family *)

\* An invocation that has spent the code it redeemed, and may mint from it.
Holds(r) == work[r].flow # NoFlow /\ ~IsAt(r, "consume")

Minted(x) == \E f \in Family : origin[f] = x

\* A spent code has one holder or one family, and a code not spent neither.
CodeInv ==
    /\ \A f \in Family : family[f].st = "unborn" => origin[f] = NoFlow
    /\ \A f \in Family : origin[f] # NoFlow => flow[origin[f]].st = "spent"
    /\ \A r \in Request : IsAt(r, "consume") => work[r].flow \in Flow
    /\ \A r \in Request : Holds(r) =>
          flow[work[r].flow].st = "spent" /\ ~Minted(work[r].flow)
    /\ \A q, r \in Request :
          Holds(q) /\ Holds(r) /\ work[q].flow = work[r].flow => q = r
    /\ CodeIsSingleUse

\* No code is held or spent initially.
LEMMA CodeInit == Init => CodeInv
BY SentinelsAssumption
   DEF Init, CodeInv, CodeIsSingleUse, Holds, Minted, IsAt, Idle, UnbornFamily

\* Steps that neither spend a code nor mint: no code is given back, no origin
\* moves, and no slot comes to hold a code.
KeepsCodes ==
    /\ origin' = origin
    /\ \A f \in Family : family'[f].st = "unborn" => family[f].st = "unborn"
    /\ \A x \in Flow : flow[x].st = "spent" => flow'[x].st = "spent"
    /\ \A r \in Request :
          \/ work'[r].flow = NoFlow /\ ~IsAt(r, "consume")'
          \/ work'[r].flow = work[r].flow /\ Holds(r) /\ ~IsAt(r, "consume")'
          \/ work'[r].flow \in Flow /\ IsAt(r, "consume")'

\* Spending a code, and minting from it.
Spends(r) ==
    IsAt(r, "consume") /\ CodeUnspent(work[r].flow) /\ ConsumeCode(r)

\* A slot left alone keeps what it holds.
LEMMA SlotKept ==
    ASSUME TypeInv, CodeInv, NEW q \in Request, work'[q] = work[q]
    PROVE  \/ work'[q].flow = NoFlow /\ ~IsAt(q, "consume")'
           \/ work'[q].flow = work[q].flow /\ Holds(q) /\ ~IsAt(q, "consume")'
           \/ work'[q].flow \in Flow /\ IsAt(q, "consume")'
BY DEF CodeInv, Holds, IsAt

\* A calm step of an invocation not at its code keeps codes and slots.
LEMMA CalmKeeps ==
    ASSUME TypeInv, CodeInv, NEW r \in Request, Calm(r)
    PROVE  \A q \in Request :
              \/ work'[q].flow = NoFlow /\ ~IsAt(q, "consume")'
              \/ work'[q].flow = work[q].flow
                    /\ (Holds(q) \/ (q = r /\ IsAt(r, "consume")))
                    /\ ~IsAt(q, "consume")'
              \/ work'[q].flow \in Flow /\ IsAt(q, "consume")'
<1>1. ASSUME NEW q \in Request, q # r
      PROVE  \/ work'[q].flow = NoFlow /\ ~IsAt(q, "consume")'
             \/ work'[q].flow = work[q].flow /\ Holds(q)
                   /\ ~IsAt(q, "consume")'
             \/ work'[q].flow \in Flow /\ IsAt(q, "consume")'
  BY <1>1, SlotKept DEF Calm, SlotOf
<1>2. \/ work'[r].flow = NoFlow /\ ~IsAt(r, "consume")'
      \/ work'[r].flow = work[r].flow
            /\ (Holds(r) \/ IsAt(r, "consume")) /\ ~IsAt(r, "consume")'
  BY DEF Calm, Holds, IsAt
<1> QED BY <1>1, <1>2

\* Only a mint gives an unborn family a row.
LEMMA UnbornBefore ==
    ASSUME TypeInv, [Next]_vars, NEW f \in Family, family'[f].st = "unborn"
    PROVE  family[f].st = "unborn"
<1>0. family \in [Family -> FamilyRow]
  BY DEF TypeInv, TypeOK
<1>1. ASSUME NEW r \in Request, Advance(r), work[r].fam \in Family
      PROVE  family[f].st = "unborn"
  <2>1. PICK g \in Family : work[r].fam = g
    BY <1>1
  <2>2. f # g => family'[f] = family[f]
    BY <1>1, <2>1, AdvanceWrites
  <2>3. f = g => family'[f].st = "live"
    BY <1>1, <2>1, AdvanceWrites
  <2> QED BY <2>2, <2>3
<1> QED BY <1>0, <1>1, FamilyChange DEF Quiet, Replicate, Reserve, Removal,
          MintFamily, DropFamily, WriteFamily, GoneFamily, UnbornFamily

\* Every step keeps codes, spends one or mints a family.
LEMMA CodeChange ==
    ASSUME TypeInv, CodeInv, [Next]_vars
    PROVE  \/ KeepsCodes
           \/ \E r \in Request : Spends(r)
           \/ \E r \in Request, f \in Family : MintFamily(r, f)
<1>0. work \in [Request -> Work] /\ flow \in [Flow -> FlowRow]
  BY DEF TypeInv, TypeOK
<1>f. \A f \in Family : family'[f].st = "unborn" => family[f].st = "unborn"
  BY UnbornBefore
<1>w. ASSUME work' = work, origin' = origin,
             \A x \in Flow : flow[x].st = "spent" => flow'[x].st = "spent"
      PROVE  KeepsCodes
  BY <1>f, <1>w, SlotKept DEF KeepsCodes
<1>c. ASSUME NEW r \in Request, Calm(r), ~IsAt(r, "consume"),
             origin' = origin,
             \A x \in Flow : flow[x].st = "spent" => flow'[x].st = "spent"
      PROVE  KeepsCodes
  BY <1>f, <1>c, CalmKeeps DEF KeepsCodes
<1>1. CASE UNCHANGED vars
  BY <1>1, <1>w DEF vars
<1>2. ASSUME NEW r \in Request, SignInStep(r) PROVE KeepsCodes
  <2>1. ~IsAt(r, "consume")
    BY <1>2 DEF SignInStep, SignIn, CreateSession, RetirePrior,
        SignInWithoutSession, SingleSignOn, IssueCode, MintForApp, IsAt
  <2>2. /\ origin' = origin
        /\ \A x \in Flow : flow[x].st = "spent" => flow'[x].st = "spent"
    BY <1>0, <1>2 DEF SignInStep, SignIn, CreateSession, RetirePrior,
        SignInWithoutSession, SingleSignOn, IssueCode, MintForApp, tables,
        history, FlowRow
  <2> QED BY <1>2, <1>c, <2>1, <2>2, SignInCalm
<1>3. ASSUME NEW r \in Request, NEW x \in Flow, RedeemCode(r, x)
      PROVE  KeepsCodes
  <2>1. /\ work'[r].pc = "consume" /\ work'[r].flow = x
        /\ \A q \in Request \ {r} : work'[q] = work[q]
    BY <1>0, <1>3 DEF RedeemCode, Idle
  <2>2. origin' = origin /\ flow' = flow
    BY <1>3 DEF RedeemCode, tables, history
  <2> QED BY <1>f, <2>1, <2>2, SlotKept DEF KeepsCodes, IsAt
<1>4. ASSUME NEW r \in Request, ConsumeCode(r)
      PROVE  KeepsCodes \/ Spends(r)
  <2>1. CASE CodeUnspent(work[r].flow)
    BY <1>4, <2>1 DEF Spends, ConsumeCode
  <2>2. CASE ~CodeUnspent(work[r].flow)
    <3>1. /\ origin' = origin /\ flow' = flow
          /\ work' = [work EXCEPT ![r] = Idle]
      BY <1>4, <2>2 DEF ConsumeCode, history, Finish
    <3>2. work'[r].flow = NoFlow /\ work'[r].pc = "idle"
          /\ \A q \in Request \ {r} : work'[q] = work[q]
      BY <1>0, <3>1 DEF Idle
    <3> QED BY <1>f, <3>1, <3>2, SlotKept DEF KeepsCodes, IsAt
  <2> QED BY <2>1, <2>2
<1>5. ASSUME NEW r \in Request, TokenStep(r), ~ConsumeCode(r),
             \A x \in Flow : ~RedeemCode(r, x),
             \A f \in Family : ~MintFamily(r, f)
      PROVE  KeepsCodes
  <2>1. \/ ListRows(r) \/ \E h \in Hash : TouchRow(r, h)
        \/ TouchedNone(r) \/ BumpFails(r)
        \/ \E t \in token, view \in FamilyView : PresentToken(r, t, view[t[1]])
        \/ KillFamily(r) \/ AdvanceCounter(r)
    BY <1>5 DEF TokenStep
  <2>2. ~IsAt(r, "consume") /\ origin' = origin /\ flow' = flow
    BY <2>1 DEF ListRows, TouchRow, TouchedNone, BumpFails, PresentToken,
        KillFamily, AdvanceCounter, IsAt, tables, history
  <2>3. work' = work \/ Calm(r)
    BY <1>5, TokenCalm
  <2> QED BY <1>c, <1>w, <2>2, <2>3
<1>6. ASSUME NEW r \in Request, SignOutStep(r) PROVE KeepsCodes
  <2>1. /\ ~IsAt(r, "consume") /\ origin' = origin /\ flow' = flow
    BY <1>6 DEF SignOutStep, SignOut, Logout, SignOutFamily, SignOutList,
        SignOutRow, IsAt, tables, history
  <2>2. /\ SlotOf(r) /\ work'[r].pc # "consume"
        /\ work'[r].flow \in {NoFlow, work[r].flow}
    <3>1. work[r] \in Work
      BY <1>0
    <3>2. ASSUME NEW op, NEW x, NEW view, StartSignOut(r, op, x, view)
          PROVE  SlotOf(r) /\ work'[r].pc # "consume" /\ work'[r].flow = NoFlow
      BY <1>0, <3>2 DEF StartSignOut, SlotOf, Idle
    <3>3. Finish(r) => SlotOf(r) /\ work'[r].pc # "consume"
                          /\ work'[r].flow = NoFlow
      BY <1>0 DEF Finish, SlotOf, Idle
    <3> QED BY <1>0, <1>6, <2>1, <3>1, <3>2, <3>3 DEF SignOutStep, SignOut,
              Logout, SignOutFamily, SignOutList, SignOutRow, SlotOf, Work, IsAt
  <2> QED BY <1>f, <2>1, <2>2, SlotKept DEF KeepsCodes, SlotOf, Holds, IsAt
<1>7. ASSUME NEW r \in Request, Abandon(r) PROVE KeepsCodes
  <2>1. /\ origin' = origin /\ flow' = flow
        /\ work' = [work EXCEPT ![r] = Idle]
    BY <1>7 DEF Abandon, tables, history, Finish
  <2>2. work'[r].flow = NoFlow /\ work'[r].pc = "idle"
        /\ \A q \in Request \ {r} : work'[q] = work[q]
    BY <1>0, <2>1 DEF Idle
  <2> QED BY <1>f, <2>1, <2>2, SlotKept DEF KeepsCodes, IsAt
<1>8. ASSUME EnvironmentStep PROVE KeepsCodes
  <2>1. /\ origin' = origin
        /\ \A x \in Flow : flow[x].st = "spent" => flow'[x].st = "spent"
    BY <1>0, <1>8 DEF EnvironmentStep, StartFlow, RevokeFamily, UpdateIndex,
        SweepSession, Replicate, SweepFamily, Tick, tables, history, FlowRow
  <2> QED BY <1>8, <1>w, <2>1, EnvironmentWork
<1> QED BY <1>1, <1>2, <1>3, <1>4, <1>5, <1>6, <1>7, <1>8 DEF Next

\* CodeInv is preserved: the conditional delete lets one redemption through.
LEMMA CodeStep == TypeInv /\ CodeInv /\ [Next]_vars => CodeInv'
<1> SUFFICES ASSUME TypeInv, CodeInv, [Next]_vars PROVE CodeInv'
  OBVIOUS
<1>0. /\ work \in [Request -> Work] /\ flow \in [Flow -> FlowRow]
      /\ origin \in [Family -> Flow \union {NoFlow}]
      /\ \A r \in Request : work[r].flow \in Flow \union {NoFlow}
  BY DEF TypeInv, TypeOK, Work
<1>1. CASE KeepsCodes
  <2>1. \A r \in Request :
           Holds(r)' => Holds(r) /\ work'[r].flow = work[r].flow
    BY <1>1 DEF KeepsCodes, Holds
  <2> QED BY <1>0, <1>1, <2>1 DEF KeepsCodes, CodeInv, CodeIsSingleUse,
            Holds, Minted, IsAt
<1>2. ASSUME NEW r \in Request, Spends(r) PROVE CodeInv'
  <2> DEFINE x == work[r].flow
  <2>1. /\ x \in Flow /\ flow[x].st = "code" /\ origin' = origin
        /\ flow' = [flow EXCEPT ![x] = [NoFlowRow EXCEPT !.st = "spent"]]
    BY <1>2 DEF Spends, ConsumeCode, CodeUnspent, CodeInv, history
  <2>2. /\ \A q \in Request \ {r} : work'[q] = work[q]
        /\ work'[r].flow = x /\ work'[r].pc # "consume"
    <3>1. work[r] \in Work
      BY <1>0
    <3> QED BY <1>0, <1>2, <3>1 DEF Spends, ConsumeCode, Work
  <2>3. flow'[x].st = "spent" /\ \A y \in Flow \ {x} : flow'[y] = flow[y]
    BY <1>0, <2>1 DEF NoFlowRow
  <2>4. ~Minted(x) /\ \A q \in Request : Holds(q) => work[q].flow # x
    BY <2>1, SentinelsAssumption DEF CodeInv, Minted
  <2>5. \A f \in Family : family'[f].st = "unborn" => family[f].st = "unborn"
    BY UnbornBefore
  <2> HIDE DEF x
  <2>6. \A q \in Request : Holds(q)' => (q = r \/ (q # r /\ Holds(q)))
    BY <2>2 DEF Holds, IsAt
  <2>7. \A f \in Family : origin'[f] # NoFlow => flow'[origin'[f]].st = "spent"
    BY <1>0, <2>1, <2>3 DEF CodeInv
  <2>8. \A q \in Request : IsAt(q, "consume")' => work'[q].flow \in Flow
    BY <2>2 DEF CodeInv, IsAt
  <2>9. ASSUME NEW q \in Request, Holds(q)'
        PROVE  flow'[work'[q].flow].st = "spent" /\ ~Minted(work[q].flow)'
    <3>1. CASE q = r
      BY <2>1, <2>2, <2>3, <2>4, <3>1 DEF Minted
    <3>2. CASE q # r
      <4>1. Holds(q) /\ work'[q].flow = work[q].flow /\ work[q].flow # x
        BY <2>2, <2>4, <2>6, <2>9, <3>2
      <4>2. work[q].flow \in Flow
        BY <1>0, <4>1 DEF Holds
      <4>3. flow[work[q].flow].st = "spent" /\ ~Minted(work[q].flow)
        BY <4>1 DEF CodeInv
      <4> QED BY <2>1, <2>3, <4>1, <4>2, <4>3 DEF Minted
    <3> QED BY <3>1, <3>2
  <2>10. \A p, q \in Request :
            Holds(p)' /\ Holds(q)' /\ work'[p].flow = work'[q].flow => p = q
    BY <2>2, <2>4, <2>6 DEF CodeInv
  <2>11. CodeIsSingleUse'
    BY <2>1 DEF CodeInv, CodeIsSingleUse
  <2>12. \A f \in Family : family'[f].st = "unborn" => origin'[f] = NoFlow
    BY <2>1, <2>5 DEF CodeInv
  <2> QED BY <2>7, <2>8, <2>9, <2>10, <2>11, <2>12 DEF CodeInv
<1>3. ASSUME NEW r \in Request, NEW f \in Family, MintFamily(r, f)
      PROVE  CodeInv'
  <2>1. /\ family[f].st = "unborn" /\ origin[f] = NoFlow
        /\ origin' = [origin EXCEPT ![f] = work[r].flow]
        /\ flow' = flow /\ ~IsAt(r, "consume")
    BY <1>3 DEF MintFamily, CodeInv, IsAt
  <2>2. /\ \A q \in Request \ {r} : work'[q] = work[q]
        /\ work'[r].flow = NoFlow /\ work'[r].pc = "idle"
    BY <1>0, <1>3 DEF MintFamily, Finish, Idle
  <2>3. work[r].flow # NoFlow => Holds(r)
    BY <2>1 DEF Holds
  <2>4. \A q \in Request : Holds(q)' => q # r /\ Holds(q)
    BY <2>2 DEF Holds, IsAt
  <2>5. \A g \in Family :
           /\ origin'[g] = IF g = f THEN work[r].flow ELSE origin[g]
           /\ family'[g].st = "unborn" => g # f /\ family[g].st = "unborn"
    <3>1. family'[f].st = "live"
      BY <1>3 DEF MintFamily, WriteFamily, TypeInv, TypeOK
    <3> QED BY <1>0, <2>1, <3>1, UnbornBefore
  <2>6. ASSUME NEW q \in Request, Holds(q)'
        PROVE  flow'[work'[q].flow].st = "spent" /\ ~Minted(work[q].flow)'
    <3>1. q # r /\ Holds(q) /\ work'[q].flow = work[q].flow
      BY <2>2, <2>4, <2>6
    <3>2. work[q].flow # NoFlow /\ ~Minted(work[q].flow)
          /\ flow[work[q].flow].st = "spent"
      BY <3>1 DEF CodeInv, Holds
    <3>3. work[q].flow # work[r].flow
      BY <2>3, <3>1, <3>2 DEF CodeInv
    <3> QED BY <2>1, <2>5, <3>1, <3>2, <3>3 DEF Minted
  <2>7. CodeIsSingleUse'
    <3>1. work[r].flow # NoFlow => ~Minted(work[r].flow)
      BY <2>3 DEF CodeInv
    <3> QED BY <2>5, <3>1 DEF CodeInv, CodeIsSingleUse, Minted
  <2>8. \A p, q \in Request :
           Holds(p)' /\ Holds(q)' /\ work'[p].flow = work'[q].flow => p = q
    BY <2>2, <2>4 DEF CodeInv
  <2>9. \A g \in Family : origin'[g] # NoFlow => flow'[origin'[g]].st = "spent"
    BY <2>1, <2>3, <2>5 DEF CodeInv
  <2>10. \A q \in Request : IsAt(q, "consume")' => work'[q].flow \in Flow
    BY <2>2 DEF CodeInv, IsAt
  <2>11. \A g \in Family : family'[g].st = "unborn" => origin'[g] = NoFlow
    BY <2>5 DEF CodeInv
  <2> QED BY <2>6, <2>7, <2>8, <2>9, <2>10, <2>11 DEF CodeInv
<1> QED BY <1>1, <1>2, <1>3, CodeChange

\* A code mints at most one family, whoever redeems it how often
\* (ExchangeAuthCode, ConsumeCode).
THEOREM CodesMintOnce == Spec => []CodeIsSingleUse
<1>1. CodeInv => CodeIsSingleUse
  BY DEF CodeInv
<1> QED BY <1>1, TypeInit, TypeStep, CodeInit, CodeStep, PTL DEF Spec

---------------------------------------------------------------------------
(* A token presented after its session ended is refused *)

\* A rotation of a surely ended session finds no row listed, and is refused.
DeadSlot(r) ==
    work[r].dead =>
        /\ work[r].op = "rotate"
        /\ work[r].pc \in {"list", "touch", "kill"}
        /\ SurelyEnded(work[r].sid)
        /\ IsAt(r, "touch") => work[r].hashes = {} /\ work[r].ended

RefusalInv ==
    \A r \in Request :
        /\ IsAt(r, "create") => work[r].op = "signin"
        /\ DeadSlot(r)

\* Nothing is presented initially.
LEMMA RefusalInit == Init => RefusalInv
BY DEF Init, RefusalInv, DeadSlot, IsAt, Idle

\* A step that neither signs in nor presents a token: its slot is no dead
\* rotation, and signs in for no session it was not signing in for.
Plain(r) ==
    /\ SlotOf(r)
    /\ work'[r].pc # "create"
    /\ ~work'[r].dead
    /\ work'[r].op = "signin" =>
          work[r].op = "signin" /\ work'[r].sid = work[r].sid

\* A finished invocation is plain.
LEMMA FinishPlain ==
    ASSUME TypeInv, NEW r \in Request, Finish(r)
    PROVE  Plain(r)
BY DEF TypeInv, TypeOK, Finish, Idle, Plain, SlotOf

\* What SignIn leaves in its slot: the sid of a live row, or a fresh one.
LEMMA SignInSlot ==
    ASSUME TypeInv, NEW r \in Request, NEW p \in Hash \union {NoHash},
           SignIn(r, p)
    PROVE  /\ SlotOf(r) /\ work'[r].op = "signin" /\ ~work'[r].dead
           /\ \/ FreshSid(work'[r].sid)
              \/ \E h \in Hash :
                    session[h].st = "live" /\ session[h].sid = work'[r].sid
<1>0. work \in [Request -> Work]
  BY DEF TypeInv, TypeOK
<1> DEFINE w(s) == [Idle EXCEPT !.op = "signin", !.pc = "create",
                                !.at = now, !.sid = s]
           v(s) == [Idle EXCEPT !.op = "signin", !.pc = "create",
                                !.at = now, !.sid = s, !.hash = p]
<1>1. \A s : /\ w(s).op = "signin" /\ ~w(s).dead /\ w(s).sid = s
             /\ v(s).op = "signin" /\ ~v(s).dead /\ v(s).sid = s
  BY DEF Idle
<1>2. \/ \E s \in Sid : FreshSid(s) /\ work' = [work EXCEPT ![r] = w(s)]
      \/ /\ p \in Hash /\ session[p].st = "live"
         /\ work' = [work EXCEPT ![r] = v(session[p].sid)]
  BY DEF SignIn, LiveAt
<1> HIDE DEF w, v
<1> QED BY <1>0, <1>1, <1>2 DEF SlotOf

\* The rest of signing in is plain.
LEMMA SignInPlain ==
    ASSUME TypeInv, RefusalInv, ~BumpMayFail, NEW r \in Request,
           SignInStep(r), \A p \in Hash \union {NoHash} : ~SignIn(r, p)
    PROVE  Plain(r)
<1>0. work \in [Request -> Work] /\ work[r] \in Work
  BY DEF TypeInv, TypeOK
<1>1. work[r].pc \in {"create", "retire", "code"} => ~work[r].dead
  BY DEF RefusalInv, DeadSlot
<1>2. ASSUME NEW h \in Hash, NEW cap \in Caps, CreateSession(r, h, cap)
      PROVE  Plain(r)
  BY <1>0, <1>1, <1>2 DEF CreateSession, Goto, IsAt, Work, Plain, SlotOf
<1>3. ASSUME RetirePrior(r) PROVE Plain(r)
  BY <1>0, <1>1, <1>3 DEF RetirePrior, IsAt, Work, Plain, SlotOf
<1>5. ASSUME NEW h \in Hash, SingleSignOn(r, h) PROVE Plain(r)
  BY <1>0, <1>5 DEF SingleSignOn, Idle, Plain, SlotOf
<1>6. ASSUME NEW x \in Flow, IssueCode(r, x) PROVE Plain(r)
  BY FinishPlain, <1>6 DEF IssueCode
<1>7. ASSUME MintForApp(r) PROVE Plain(r)
  BY <1>0, <1>1, <1>7 DEF MintForApp, IsAt, Work, Plain, SlotOf
<1> QED BY <1>2, <1>3, <1>5, <1>6, <1>7 DEF SignInStep, SignInWithoutSession

\* So is signing out.
LEMMA SignOutPlain ==
    ASSUME TypeInv, RefusalInv, NEW r \in Request, SignOutStep(r)
    PROVE  Plain(r)
<1>0. work \in [Request -> Work] /\ work[r] \in Work
  BY DEF TypeInv, TypeOK
<1>1. work[r].pc \in {"families", "rows"} => ~work[r].dead
  BY DEF RefusalInv, DeadSlot
<1>2. ASSUME NEW op \in {"signout", "logout"}, NEW x, NEW view,
             StartSignOut(r, op, x, view)
      PROVE  Plain(r)
  BY <1>0, <1>2 DEF StartSignOut, Idle, Plain, SlotOf
<1>3. ASSUME NEW f \in Family, SignOutFamily(r, f) PROVE Plain(r)
  BY <1>0, <1>1, <1>3, FinishPlain DEF SignOutFamily, IsAt, Work, Plain, SlotOf
<1>4. ASSUME SignOutList(r) PROVE Plain(r)
  <2>1. work[r].pc = "families"
    BY <1>4 DEF SignOutList, IsAt
  <2>2. ASSUME NEW hs, work' = [work EXCEPT ![r].pc = "rows", ![r].hashes = hs]
        PROVE  Plain(r)
    BY <1>0, <1>1, <2>1, <2>2 DEF Work, Plain, SlotOf
  <2> QED BY <1>4, <2>2, FinishPlain DEF SignOutList
<1>5. ASSUME NEW h \in Hash, SignOutRow(r, h) PROVE Plain(r)
  BY <1>0, <1>1, <1>5, FinishPlain DEF SignOutRow, IsAt, Work, Plain, SlotOf
<1> QED BY <1>2, <1>3, <1>4, <1>5 DEF SignOutStep, SignOut, Logout

\* What a token's presentation leaves: dead only if its session surely ended.
LEMMA PresentSlot ==
    ASSUME TypeInv, NEW r \in Request, NEW t, NEW row, PresentToken(r, t, row)
    PROVE  \/ work' = work
           \/ /\ SlotOf(r) /\ work'[r].op = "rotate"
              /\ work'[r].dead <=> SurelyEnded(work'[r].sid)
              /\ work'[r].pc \in {"list", "kill", "advance"}
              /\ work'[r].pc = "advance" => work'[r].sid = NoSid
<1>0. work \in [Request -> Work]
  BY DEF TypeInv, TypeOK
<1> DEFINE held == [Idle EXCEPT
               !.op = "rotate", !.at = now, !.sid = row.sid, !.fam = t[1],
               !.counter = t[2], !.dead = SurelyEnded(row.sid)]
           Good(w) == /\ w.op = "rotate" /\ w.sid = row.sid
                      /\ w.dead = SurelyEnded(row.sid)
<1>1. \A why : LET w == [held EXCEPT !.pc = "kill", !.why = why]
               IN  w.pc = "kill" /\ Good(w)
  BY DEF Idle
<1>2. \A e, pc : LET w == [held EXCEPT !.pc = pc, !.expires = e]
                 IN  w.pc = pc /\ Good(w)
  BY DEF Idle
<1>3. \/ work' = work
      \/ \E w : /\ w.pc \in {"kill", "list", "advance"} /\ Good(w)
                /\ w.pc = "advance" => row.sid = NoSid
                /\ work' = [work EXCEPT ![r] = w]
  <2> HIDE DEF held, Good
  <2>1. \/ UNCHANGED work
        \/ \E why : work' = [work EXCEPT ![r] =
               [held EXCEPT !.pc = "kill", !.why = why]]
        \/ \E e : work' = [work EXCEPT ![r] = [held EXCEPT
               !.pc = IF row.sid = NoSid THEN "advance" ELSE "list",
               !.expires = e]]
    BY DEF PresentToken, held
  <2>2. ASSUME NEW why,
               work' = [work EXCEPT ![r] = [held EXCEPT !.pc = "kill", !.why = why]]
        PROVE  \E w : /\ w.pc \in {"kill", "list", "advance"} /\ Good(w)
                      /\ w.pc = "advance" => row.sid = NoSid
                      /\ work' = [work EXCEPT ![r] = w]
    <3> DEFINE w == [held EXCEPT !.pc = "kill", !.why = why]
    <3>1. w.pc = "kill" /\ Good(w)
      BY <1>1
    <3> HIDE DEF w
    <3>2. work' = [work EXCEPT ![r] = w]
      BY <2>2 DEF w
    <3> QED BY <3>1, <3>2
  <2>3. ASSUME NEW e, NEW pc,
               pc = IF row.sid = NoSid THEN "advance" ELSE "list",
               work' = [work EXCEPT ![r] = [held EXCEPT !.pc = pc, !.expires = e]]
        PROVE  \E w : /\ w.pc \in {"kill", "list", "advance"} /\ Good(w)
                      /\ w.pc = "advance" => row.sid = NoSid
                      /\ work' = [work EXCEPT ![r] = w]
    <3> DEFINE w == [held EXCEPT !.pc = pc, !.expires = e]
    <3>1. w.pc = pc /\ Good(w)
      BY <1>2
    <3> HIDE DEF w
    <3>2. work' = [work EXCEPT ![r] = w]
      BY <2>3 DEF w
    <3> QED BY <2>3, <3>1, <3>2
  <2> QED BY <2>1, <2>2, <2>3
<1>4. CASE work' = work
  BY <1>4
<1>5. ASSUME NEW w, w.pc \in {"kill", "list", "advance"}, Good(w),
             w.pc = "advance" => row.sid = NoSid,
             work' = [work EXCEPT ![r] = w]
      PROVE  /\ SlotOf(r) /\ work'[r].op = "rotate"
             /\ work'[r].dead <=> SurelyEnded(work'[r].sid)
             /\ work'[r].pc \in {"list", "kill", "advance"}
             /\ work'[r].pc = "advance" => work'[r].sid = NoSid
  <2>1. SlotOf(r) /\ work'[r] = w
    BY <1>0, <1>5 DEF SlotOf
  <2> QED BY <1>5, <2>1
<1> QED BY <1>3, <1>4, <1>5

\* A dead rotation only lists no row, and then gives up.
LEMMA TokenPlain ==
    ASSUME TypeInv, RefusalInv, NEW r \in Request,
           \/ \E x \in Flow : RedeemCode(r, x)
           \/ ConsumeCode(r)
           \/ \E h \in Hash : TouchRow(r, h)
           \/ \E f \in Family : MintFamily(r, f)
           \/ KillFamily(r)
           \/ AdvanceCounter(r)
    PROVE  Plain(r)
<1>0. work \in [Request -> Work] /\ work[r] \in Work
  BY DEF TypeInv, TypeOK
<1>w. WritePc(r) \in {"advance", "mint"}
  BY DEF WritePc
<1>1. ASSUME NEW x \in Flow, RedeemCode(r, x) PROVE Plain(r)
  BY <1>0, <1>1 DEF RedeemCode, Idle, Plain, SlotOf
<1>2. ASSUME ConsumeCode(r) PROVE Plain(r)
  <2>1. work[r].pc = "consume" /\ ~work[r].dead
    BY <1>2 DEF ConsumeCode, IsAt, RefusalInv, DeadSlot
  <2> QED BY <1>0, <1>2, <2>1, FinishPlain DEF ConsumeCode, Work, Plain, SlotOf
<1>3. ASSUME NEW h \in Hash, TouchRow(r, h) PROVE Plain(r)
  <2>1. work[r].pc = "touch" /\ ~work[r].dead
    BY <1>3 DEF TouchRow, IsAt, RefusalInv, DeadSlot
  <2> DEFINE e == Clamped(Retention(work[r].at, session[h].ceiling), work[r].at)
             rest == work[r].hashes \ {h}
  <2>2. CASE work' = [work EXCEPT ![r].pc = WritePc(r), ![r].hash = h,
                                  ![r].hashes = {}, ![r].expires = e]
    BY <1>0, <1>w, <2>1, <2>2 DEF Work, Plain, SlotOf
  <2>3. CASE work' = [work EXCEPT ![r].hashes = rest]
    BY <1>0, <2>1, <2>3 DEF Work, Plain, SlotOf
  <2>4. CASE work' = [work EXCEPT ![r].hashes = rest, ![r].ended = FALSE]
    BY <1>0, <2>1, <2>4 DEF Work, Plain, SlotOf
  <2> QED BY <1>3, <2>2, <2>3, <2>4 DEF TouchRow
<1>4. ASSUME NEW f \in Family, MintFamily(r, f) PROVE Plain(r)
  BY <1>4, FinishPlain DEF MintFamily
<1>5. ASSUME KillFamily(r) PROVE Plain(r)
  BY <1>5, FinishPlain DEF KillFamily
<1>6. ASSUME AdvanceCounter(r) PROVE Plain(r)
  BY <1>6, FinishPlain DEF AdvanceCounter
<1> QED BY <1>1, <1>2, <1>3, <1>4, <1>5, <1>6

\* The session rows and the index: a step leaves a row's sid alone, opens a
\* row for a sign-in, or removes it, and the index only lists live rows.
RowsKept ==
    /\ \A h \in Hash : session'[h].sid = session[h].sid
    /\ \A h \in Hash : session[h].st = "gone" => session'[h].st = "gone"
    /\ \A h \in Hash : \/ listed'[h] = listed[h]
                       \/ listed'[h] = NoSid
                       \/ session[h].st = "live" /\ listed'[h] = session[h].sid

\* CreateSession is the only step that gives a row a sid.
LEMMA RowsChange ==
    ASSUME TypeInv, [Next]_vars,
           \A r \in Request, h \in Hash, cap \in Caps : ~CreateSession(r, h, cap)
    PROVE  RowsKept
<1>0. /\ session \in [Hash -> SessionRow] /\ listed \in [Hash -> Sid \union {NoSid}]
  BY DEF TypeInv, TypeOK
<1>k. ASSUME session' = session, listed' = listed PROVE RowsKept
  BY <1>k DEF RowsKept
<1>e. ASSUME NEW h \in Hash, NEW t, session[h].st = "live",
             session' = [session EXCEPT ![h].expires = t], listed' = listed
      PROVE  RowsKept
  BY <1>0, <1>e DEF RowsKept, SessionRow
<1>g. ASSUME NEW h \in Hash \union {NoHash},
             session' = [session EXCEPT ![h].st = "gone"], listed' = listed
      PROVE  RowsKept
  BY <1>0, <1>g DEF RowsKept, SessionRow
<1>1. ASSUME NEW r \in Request, SignInStep(r) PROVE RowsKept
  <2>1. ASSUME NEW h \in Hash, SingleSignOn(r, h) PROVE RowsKept
    BY <1>e, <2>1 DEF SingleSignOn, LiveAt
  <2>2. CASE RetirePrior(r)
    <3>1. work[r].hash \in Hash \union {NoHash}
      BY DEF TypeInv, TypeOK, Work
    <3> QED BY <1>g, <1>k, <2>2, <3>1 DEF RetirePrior
  <2> QED BY <1>1, <1>k, <2>1, <2>2 DEF SignInStep, SignIn,
            SignInWithoutSession, IssueCode, MintForApp, tables
<1>2. ASSUME NEW r \in Request, TokenStep(r) PROVE RowsKept
  <2>1. ASSUME NEW h \in Hash, TouchRow(r, h) PROVE RowsKept
    BY <1>e, <1>k, <2>1 DEF TouchRow, LiveAt
  <2> QED BY <1>2, <1>k, <2>1 DEF TokenStep, RedeemCode, ConsumeCode, ListRows,
            TouchedNone, BumpFails, MintFamily, PresentToken, KillFamily,
            AdvanceCounter, tables
<1>3. ASSUME NEW r \in Request, SignOutStep(r) PROVE RowsKept
  <2>1. ASSUME NEW h \in Hash, NEW view, Logout(r, h, view) PROVE RowsKept
    BY <1>e, <2>1 DEF Logout, LiveAt
  <2>2. ASSUME NEW h \in Hash, SignOutRow(r, h) PROVE RowsKept
    BY <1>g, <1>k, <2>2 DEF SignOutRow
  <2> QED BY <1>3, <1>k, <2>1, <2>2 DEF SignOutStep, SignOut, SignOutFamily,
            SignOutList, tables
<1>4. ASSUME EnvironmentStep PROVE RowsKept
  <2>1. ASSUME NEW h \in Hash, SweepSession(h) PROVE RowsKept
    BY <1>g, <2>1 DEF SweepSession
  <2>2. ASSUME NEW h \in Hash, UpdateIndex(h) PROVE RowsKept
    BY <1>0, <2>2 DEF UpdateIndex, RowsKept
  <2> QED BY <1>4, <1>k, <2>1, <2>2 DEF EnvironmentStep, StartFlow,
            RevokeFamily, Replicate, SweepFamily, Tick, tables
<1>5. ASSUME NEW r \in Request, Abandon(r) PROVE RowsKept
  BY <1>5, <1>k DEF Abandon, tables
<1>6. CASE UNCHANGED vars
  BY <1>6, <1>k DEF vars
<1> QED BY <1>1, <1>2, <1>3, <1>4, <1>5, <1>6 DEF Next

\* How a step changes the invocations.
LEMMA WorkChange ==
    ASSUME TypeInv, RefusalInv, ~BumpMayFail, [Next]_vars
    PROVE  \/ work' = work
           \/ \E r \in Request : Plain(r)
           \/ \E r \in Request, p \in Hash \union {NoHash} : SignIn(r, p)
           \/ \E r \in Request : ListRows(r) \/ TouchedNone(r)
           \/ \E r \in Request, t \in token : \E row : PresentToken(r, t, row)
<1>1. ASSUME NEW r \in Request, SignInStep(r)
      PROVE  Plain(r) \/ \E p \in Hash \union {NoHash} : SignIn(r, p)
  BY <1>1, SignInPlain
<1>2. ASSUME NEW r \in Request, TokenStep(r)
      PROVE  \/ Plain(r) \/ ListRows(r) \/ TouchedNone(r)
             \/ \E t \in token : \E row : PresentToken(r, t, row)
  BY <1>2, TokenPlain DEF TokenStep, BumpFails
<1>3. ASSUME NEW r \in Request, Abandon(r) PROVE Plain(r)
  BY <1>3, FinishPlain DEF Abandon
<1> QED BY <1>1, <1>2, <1>3, SignOutPlain, EnvironmentWork DEF Next, vars

\* The two calls of a rotation that a dead one makes.
LEMMA CallSlot ==
    ASSUME TypeInv, NEW r \in Request, ListRows(r) \/ TouchedNone(r)
    PROVE  /\ SlotOf(r) /\ work'[r].op = work[r].op
           /\ work'[r].sid = work[r].sid /\ work'[r].dead = work[r].dead
           /\ ListRows(r) => /\ work'[r].pc = "touch" /\ work'[r].ended
                             /\ work'[r].hashes =
                                   {h \in Hash : listed[h] = work[r].sid}
           /\ TouchedNone(r) =>
                 work'[r].pc = IF SessionGone(r) THEN "kill" ELSE WritePc(r)
<1>0. work \in [Request -> Work] /\ work[r] \in Work
  BY DEF TypeInv, TypeOK
<1>1. CASE ListRows(r)
  <2>1. work[r].pc = "list"
    BY <1>1 DEF ListRows, IsAt
  <2>2. ~TouchedNone(r)
    BY <2>1 DEF TouchedNone, IsAt
  <2> QED BY <1>0, <1>1, <2>2 DEF ListRows, Work, SlotOf
<1>2. CASE TouchedNone(r)
  <2>1. ~ListRows(r)
    BY <1>2 DEF ListRows, TouchedNone, IsAt
  <2> QED BY <1>0, <1>2, <2>1 DEF TouchedNone, Work, SlotOf
<1> QED BY <1>1, <1>2

\* While an invocation works for it, a session that surely ended stays so: its
\* sid is on no live row, is not fresh, and no sign-in carries it.
LEMMA EndedStays ==
    ASSUME TypeInv, RefusalInv, ~BumpMayFail, [Next]_vars,
           NEW r \in Request, NEW s, work[r].sid = s, SurelyEnded(s)
    PROVE  SurelyEnded(s)'
<1>0. /\ session \in [Hash -> SessionRow] /\ work \in [Request -> Work]
      /\ listed \in [Hash -> Sid \union {NoSid}]
  BY DEF TypeInv, TypeOK
<1>1. /\ s # NoSid
      /\ \A h \in Hash : session[h].sid = s => session[h].st = "gone"
      /\ \A h \in Hash : listed[h] # s
      /\ \A q \in Request : work[q].op = "signin" => work[q].sid # s
  BY DEF SurelyEnded
<1>2. /\ \A h \in Hash : session'[h].sid = s => session'[h].st = "gone"
      /\ \A h \in Hash : listed'[h] # s
  <2>1. ASSUME NEW q \in Request, NEW h \in Hash, NEW cap \in Caps,
               CreateSession(q, h, cap)
        PROVE  /\ \A g \in Hash : session'[g].sid = s => session'[g].st = "gone"
               /\ listed' = listed
    <3>1. work[q].sid # s
      BY <1>1, <2>1 DEF CreateSession, RefusalInv
    <3>2. session'[h].sid # s
      BY <1>0, <2>1, <3>1 DEF CreateSession
    <3>3. \A g \in Hash \ {h} : session'[g] = session[g]
      BY <1>0, <2>1 DEF CreateSession
    <3> QED BY <1>1, <2>1, <3>2, <3>3 DEF CreateSession
  <2>2. CASE RowsKept
    BY <1>1, <2>2 DEF RowsKept
  <2> QED BY <1>1, <2>1, <2>2, RowsChange
<1>3. \A q \in Request : work'[q].op = "signin" => work'[q].sid # s
  <2>1. ASSUME NEW q \in Request, Plain(q)
        PROVE  \A p \in Request : work'[p].op = "signin" => work'[p].sid # s
    BY <1>1, <2>1 DEF Plain, SlotOf
  <2>2. ASSUME NEW q \in Request, NEW p \in Hash \union {NoHash}, SignIn(q, p)
        PROVE  \A o \in Request : work'[o].op = "signin" => work'[o].sid # s
    <3>1. work'[q].sid # s
      BY <1>1, <2>2, SignInSlot DEF FreshSid
    <3>2. SlotOf(q)
      BY <2>2, SignInSlot
    <3> QED BY <1>1, <3>1, <3>2 DEF SlotOf
  <2>3. ASSUME NEW q \in Request, ListRows(q) \/ TouchedNone(q)
        PROVE  \A p \in Request : work'[p].op = "signin" => work'[p].sid # s
    BY <1>1, <2>3, CallSlot DEF SlotOf
  <2>4. ASSUME NEW q \in Request, NEW t \in token, NEW row,
               PresentToken(q, t, row)
        PROVE  \A p \in Request : work'[p].op = "signin" => work'[p].sid # s
    BY <1>1, <2>4, PresentSlot DEF SlotOf
  <2> QED BY <1>1, <2>1, <2>2, <2>3, <2>4, WorkChange
<1> QED BY <1>1, <1>2, <1>3 DEF SurelyEnded

\* RefusalInv is preserved while the bump cannot fail.
LEMMA RefusalStep ==
    ~BumpMayFail /\ TypeInv /\ RefusalInv /\ [Next]_vars => RefusalInv'
<1> SUFFICES ASSUME ~BumpMayFail, TypeInv, RefusalInv, [Next]_vars
             PROVE  RefusalInv'
  OBVIOUS
\* A slot left alone stays as good.
<1>a. ASSUME NEW q \in Request, work'[q] = work[q]
      PROVE  (IsAt(q, "create") => work[q].op = "signin")' /\ DeadSlot(q)'
  <2>1. DeadSlot(q) /\ (IsAt(q, "create") => work[q].op = "signin")
    BY DEF RefusalInv
  <2>2. ASSUME work[q].dead PROVE SurelyEnded(work[q].sid)'
    <3>1. PICK s : work[q].sid = s /\ SurelyEnded(s)
      BY <2>1, <2>2 DEF DeadSlot
    <3>2. SurelyEnded(s)'
      BY <3>1, EndedStays
    <3> QED BY <1>a, <3>1, <3>2 DEF SurelyEnded
  <2> QED BY <1>a, <2>1, <2>2 DEF DeadSlot, IsAt
<1>1. CASE work' = work
  BY <1>a, <1>1 DEF RefusalInv
<1>2. ASSUME NEW r \in Request, Plain(r) PROVE RefusalInv'
  BY <1>a, <1>2 DEF RefusalInv, Plain, SlotOf, DeadSlot, IsAt
<1>3. ASSUME NEW r \in Request, NEW p \in Hash \union {NoHash}, SignIn(r, p)
      PROVE  RefusalInv'
  BY <1>a, <1>3, SignInSlot DEF RefusalInv, SlotOf, DeadSlot, IsAt
<1>4. ASSUME NEW r \in Request, ListRows(r) \/ TouchedNone(r)
      PROVE  RefusalInv'
  <2>0. /\ SlotOf(r) /\ work'[r].op = work[r].op
        /\ work'[r].sid = work[r].sid /\ work'[r].dead = work[r].dead
    BY <1>4, CallSlot
  <2>1. work'[r].pc # "create"
    BY <1>4, CallSlot DEF WritePc
  <2>2. ASSUME work[r].dead PROVE DeadSlot(r)'
    <3>1. PICK s : work[r].sid = s /\ SurelyEnded(s) /\ work[r].op = "rotate"
      BY <2>2 DEF RefusalInv, DeadSlot
    <3>2. SurelyEnded(s)'
      BY <3>1, EndedStays
    <3>3. SurelyEnded(work[r].sid)'
      BY <2>0, <3>1, <3>2 DEF SurelyEnded
    <3>4. CASE ListRows(r)
      <4>1. work'[r].hashes = {} /\ work'[r].ended /\ work'[r].pc = "touch"
        BY <3>1, <3>4, CallSlot DEF SurelyEnded
      <4> QED BY <2>0, <3>1, <3>3, <4>1 DEF DeadSlot, IsAt
    <3>5. CASE TouchedNone(r)
      <4>1. SessionGone(r)
        BY <2>2, <3>1, <3>5 DEF RefusalInv, DeadSlot, TouchedNone, SessionGone
      <4>2. work'[r].pc = "kill"
        BY <3>5, <4>1, CallSlot
      <4> QED BY <2>0, <3>1, <3>3, <4>2 DEF DeadSlot, IsAt
    <3> QED BY <1>4, <3>4, <3>5
  <2>3. CASE ~work[r].dead
    BY <1>a, <2>0, <2>1, <2>3 DEF RefusalInv, SlotOf, DeadSlot, IsAt
  <2> QED BY <1>a, <2>0, <2>1, <2>2, <2>3 DEF RefusalInv, SlotOf, IsAt
<1>5. ASSUME NEW r \in Request, NEW t \in token, NEW row, PresentToken(r, t, row)
      PROVE  RefusalInv'
  <2>1. CASE work' = work
    BY <1>1, <2>1
  <2>2. CASE /\ SlotOf(r) /\ work'[r].op = "rotate"
             /\ work'[r].dead <=> SurelyEnded(work'[r].sid)
             /\ work'[r].pc \in {"list", "kill", "advance"}
             /\ work'[r].pc = "advance" => work'[r].sid = NoSid
    <3>1. ASSUME work'[r].dead PROVE DeadSlot(r)'
      <4>1. PICK s : s = work'[r].sid
        OBVIOUS
      <4>2. SurelyEnded(s) /\ s # NoSid
        BY <2>2, <3>1, <4>1 DEF SurelyEnded
      <4>3. UNCHANGED <<session, listed>>
        BY <1>5 DEF PresentToken, tables
      <4>4. SurelyEnded(s)'
        BY <2>2, <4>2, <4>3 DEF SurelyEnded, SlotOf
      <4>5. SurelyEnded(work[r].sid)'
        BY <4>1, <4>4 DEF SurelyEnded
      <4> QED BY <2>2, <4>1, <4>2, <4>5 DEF DeadSlot, IsAt
    <3>2. CASE ~work'[r].dead
      BY <1>a, <2>2, <3>2 DEF RefusalInv, SlotOf, DeadSlot, IsAt
    <3> QED BY <1>a, <2>2, <3>1, <3>2 DEF RefusalInv, SlotOf, IsAt
  <2> QED BY <1>5, <2>1, <2>2, PresentSlot
<1> QED BY <1>1, <1>2, <1>3, <1>4, <1>5, WorkChange

\* A refresh token presented after its session was surely ended is refused, so
\* no code redeemed late outlives a completed sign-out (MintRefreshtoken,
\* Rotate).
THEOREM EndedIsRefused == Spec => []EndedSessionRefused
<1>1. CASE BumpMayFail
  <2>1. EndedSessionRefused
    BY <1>1 DEF EndedSessionRefused
  <2> QED BY <2>1, PTL
<1>2. CASE ~BumpMayFail
  <2>1. Init => TypeInv /\ RefusalInv
    BY TypeInit, RefusalInit
  <2>2. (TypeInv /\ RefusalInv) /\ [Next]_vars => (TypeInv /\ RefusalInv)'
    BY <1>2, TypeStep, RefusalStep
  <2>3. RefusalInv => EndedSessionRefused
    BY DEF RefusalInv, DeadSlot, EndedSessionRefused, IsAt
  <2> QED BY <2>1, <2>2, <2>3, PTL DEF Spec
<1> QED BY <1>1, <1>2

---------------------------------------------------------------------------
(* A family expires no later than the session row it was clamped to *)

\* An invocation runs for at most Timeout, and until its bump it holds no row.
ClockInv ==
    \A r \in Request :
        /\ ~IsAt(r, "idle") => work[r].at <= now /\ now <= work[r].at + Timeout
        /\ work[r].pc \in {"code", "consume", "list", "touch"} =>
              work[r].hash = NoHash

\* No invocation runs initially.
LEMMA ClockInit == Init => ClockInv
BY DEF Init, ClockInv, IsAt, Idle

\* A slot that bumped no row: its clock reading is its own or the present, and
\* it carries no row to the call that writes the family.
Unbumped(r) ==
    /\ SlotOf(r)
    /\ \/ work'[r].pc = "idle"
       \/ work'[r].at = now
       \/ work'[r].at = work[r].at /\ ~IsAt(r, "idle")
    /\ work'[r].pc \in {"code", "consume", "list", "touch", "mint", "advance"} =>
          work'[r].hash = NoHash

\* The bump that found a live row: the deadline it set bounds the family's.
Bumped(r, h) ==
    /\ SlotOf(r) /\ ~IsAt(r, "idle")
    /\ work'[r].at = work[r].at /\ work'[r].pc \in {"mint", "advance"}
    /\ work'[r].hash = h /\ session[h].st = "live"
    /\ LET to == Retention(work[r].at, session[h].ceiling)
       IN  /\ session' = [session EXCEPT ![h].expires = to]
           /\ work'[r].expires = Clamped(to, work[r].at)

\* A finished invocation holds no row.
LEMMA FinishUnbumped ==
    ASSUME TypeInv, NEW r \in Request, Finish(r)
    PROVE  Unbumped(r)
BY DEF TypeInv, TypeOK, Finish, Idle, Unbumped, SlotOf

\* Signing in bumps no row for a family.
LEMMA SignInUnbumped ==
    ASSUME TypeInv, ClockInv, NEW r \in Request, SignInStep(r)
    PROVE  Unbumped(r)
<1>0. work \in [Request -> Work] /\ work[r] \in Work
  BY DEF TypeInv, TypeOK
<1>h. IsAt(r, "code") => work[r].hash = NoHash
  BY DEF ClockInv, IsAt
<1>1. ASSUME NEW p \in Hash \union {NoHash}, SignIn(r, p) PROVE Unbumped(r)
  <2> DEFINE w(s) == [Idle EXCEPT !.op = "signin", !.pc = "create",
                                  !.at = now, !.sid = s]
             v(s) == [Idle EXCEPT !.op = "signin", !.pc = "create",
                                  !.at = now, !.sid = s, !.hash = p]
  <2>1. \A s : /\ w(s).pc = "create" /\ w(s).at = now
               /\ v(s).pc = "create" /\ v(s).at = now
    BY DEF Idle
  <2>2. \E s : \/ work' = [work EXCEPT ![r] = w(s)]
               \/ work' = [work EXCEPT ![r] = v(s)]
    BY <1>1 DEF SignIn
  <2> HIDE DEF w, v
  <2> QED BY <1>0, <2>1, <2>2 DEF Unbumped, SlotOf
<1>2. ASSUME NEW h \in Hash, NEW cap \in Caps, CreateSession(r, h, cap)
      PROVE  Unbumped(r)
  BY <1>0, <1>2 DEF CreateSession, Goto, IsAt, Work, Unbumped, SlotOf
<1>3. ASSUME RetirePrior(r) PROVE Unbumped(r)
  BY <1>0, <1>3 DEF RetirePrior, IsAt, Work, Unbumped, SlotOf
<1>4. ASSUME SignInWithoutSession(r) PROVE Unbumped(r)
  BY <1>0, <1>4 DEF SignInWithoutSession, IsAt, Work, Unbumped, SlotOf
<1>5. ASSUME NEW h \in Hash, SingleSignOn(r, h) PROVE Unbumped(r)
  BY <1>0, <1>5 DEF SingleSignOn, Idle, Unbumped, SlotOf
<1>6. ASSUME NEW x \in Flow, IssueCode(r, x) PROVE Unbumped(r)
  BY FinishUnbumped, <1>6 DEF IssueCode
<1>7. ASSUME MintForApp(r) PROVE Unbumped(r)
  BY <1>0, <1>h, <1>7 DEF MintForApp, IsAt, Work, Unbumped, SlotOf
<1> QED BY <1>1, <1>2, <1>3, <1>4, <1>5, <1>6, <1>7 DEF SignInStep

\* Presenting a token bumps none either.
LEMMA PresentUnbumped ==
    ASSUME TypeInv, NEW r \in Request, NEW t, NEW row, PresentToken(r, t, row)
    PROVE  work' = work \/ Unbumped(r)
<1>0. work \in [Request -> Work]
  BY DEF TypeInv, TypeOK
<1> DEFINE held == [Idle EXCEPT
               !.op = "rotate", !.at = now, !.sid = row.sid, !.fam = t[1],
               !.counter = t[2], !.dead = SurelyEnded(row.sid)]
<1>1. \A why : LET w == [held EXCEPT !.pc = "kill", !.why = why]
               IN  w.at = now /\ w.hash = NoHash
  BY DEF Idle
<1>2. \A e, pc : LET w == [held EXCEPT !.pc = pc, !.expires = e]
                 IN  w.at = now /\ w.hash = NoHash
  BY DEF Idle
<1>3. \/ work' = work
      \/ \E w : /\ w.at = now /\ w.hash = NoHash
                /\ work' = [work EXCEPT ![r] = w]
  <2> HIDE DEF held
  <2>1. \/ UNCHANGED work
        \/ \E why : work' = [work EXCEPT ![r] =
               [held EXCEPT !.pc = "kill", !.why = why]]
        \/ \E e, pc : work' = [work EXCEPT ![r] =
               [held EXCEPT !.pc = pc, !.expires = e]]
    BY DEF PresentToken, held
  <2> QED BY <1>1, <1>2, <2>1
<1> QED BY <1>0, <1>3 DEF Unbumped, SlotOf

\* A mint's or a rotation's call bumps no row, or the one it found live.
LEMMA TokenBump ==
    ASSUME TypeInv, ClockInv, NEW r \in Request, TokenStep(r)
    PROVE  work' = work \/ Unbumped(r) \/ \E h \in Hash : Bumped(r, h)
<1>0. work \in [Request -> Work] /\ work[r] \in Work
  BY DEF TypeInv, TypeOK
<1>h. work[r].pc \in {"consume", "list", "touch"} => work[r].hash = NoHash
  BY DEF ClockInv
<1>w. WritePc(r) \in {"advance", "mint"}
  BY DEF WritePc
<1>1. ASSUME NEW x \in Flow, RedeemCode(r, x) PROVE Unbumped(r)
  BY <1>0, <1>1 DEF RedeemCode, Idle, Unbumped, SlotOf
<1>2. ASSUME ConsumeCode(r) PROVE Unbumped(r)
  <2>1. work[r].pc = "consume" /\ work[r].hash = NoHash
    BY <1>2, <1>h DEF ConsumeCode, IsAt
  <2> QED BY <1>0, <1>2, <2>1, FinishUnbumped
         DEF ConsumeCode, Work, Unbumped, SlotOf
<1>3. ASSUME ListRows(r) PROVE Unbumped(r)
  BY <1>0, <1>h, <1>3 DEF ListRows, IsAt, Work, Unbumped, SlotOf
<1>4. ASSUME NEW h \in Hash, TouchRow(r, h)
      PROVE  Unbumped(r) \/ Bumped(r, h)
  <2>1. work[r].pc = "touch" /\ work[r].hash = NoHash
    BY <1>4, <1>h DEF TouchRow, IsAt
  <2> DEFINE to == Retention(work[r].at, session[h].ceiling)
             e == Clamped(to, work[r].at)
             rest == work[r].hashes \ {h}
  <2>2. CASE /\ LiveAt(h, work[r].at)
             /\ session' = [session EXCEPT ![h].expires = to]
             /\ work' = [work EXCEPT ![r].pc = WritePc(r), ![r].hash = h,
                                     ![r].hashes = {}, ![r].expires = e]
    <3> HIDE DEF e
    <3>1. /\ SlotOf(r) /\ work'[r].at = work[r].at /\ work'[r].pc = WritePc(r)
          /\ work'[r].hash = h /\ work'[r].expires = e
      BY <1>0, <2>2 DEF Work, SlotOf
    <3> QED BY <1>w, <2>1, <2>2, <3>1 DEF Bumped, LiveAt, IsAt, e
  <2>3. CASE work' = [work EXCEPT ![r].hashes = rest]
    BY <1>0, <2>1, <2>3 DEF Work, Unbumped, SlotOf, IsAt
  <2>4. CASE work' = [work EXCEPT ![r].hashes = rest, ![r].ended = FALSE]
    BY <1>0, <2>1, <2>4 DEF Work, Unbumped, SlotOf, IsAt
  <2> QED BY <1>4, <2>2, <2>3, <2>4 DEF TouchRow
<1>5. ASSUME TouchedNone(r) PROVE Unbumped(r)
  BY <1>0, <1>h, <1>w, <1>5 DEF TouchedNone, IsAt, Work, Unbumped, SlotOf
<1>6. ASSUME BumpFails(r) PROVE Unbumped(r)
  BY <1>0, <1>h, <1>w, <1>6 DEF BumpFails, IsAt, Work, Unbumped, SlotOf
<1>7. ASSUME NEW f \in Family, MintFamily(r, f) PROVE Unbumped(r)
  BY <1>7, FinishUnbumped DEF MintFamily
<1>8. ASSUME NEW t \in token, NEW view \in FamilyView,
             PresentToken(r, t, view[t[1]])
      PROVE  work' = work \/ Unbumped(r)
  BY <1>8, PresentUnbumped
<1>9. ASSUME KillFamily(r) PROVE Unbumped(r)
  BY <1>9, FinishUnbumped DEF KillFamily
<1>10. ASSUME AdvanceCounter(r) PROVE Unbumped(r)
  BY <1>10, FinishUnbumped DEF AdvanceCounter
<1> QED BY <1>1, <1>2, <1>3, <1>4, <1>5, <1>6, <1>7, <1>8, <1>9, <1>10 DEF TokenStep

\* Signing out bumps no row for a family.
LEMMA SignOutUnbumped ==
    ASSUME TypeInv, NEW r \in Request, SignOutStep(r)
    PROVE  Unbumped(r)
<1>0. work \in [Request -> Work] /\ work[r] \in Work
  BY DEF TypeInv, TypeOK
<1>2. ASSUME NEW op, NEW x, NEW view, StartSignOut(r, op, x, view)
      PROVE  Unbumped(r)
  BY <1>0, <1>2 DEF StartSignOut, Idle, Unbumped, SlotOf
<1>3. ASSUME NEW f \in Family, SignOutFamily(r, f) PROVE Unbumped(r)
  BY <1>0, <1>3, FinishUnbumped DEF SignOutFamily, IsAt, Work, Unbumped, SlotOf
<1>4. ASSUME SignOutList(r) PROVE Unbumped(r)
  <2>1. work[r].pc = "families"
    BY <1>4 DEF SignOutList, IsAt
  <2>2. ASSUME NEW hs, work' = [work EXCEPT ![r].pc = "rows", ![r].hashes = hs]
        PROVE  Unbumped(r)
    BY <1>0, <2>1, <2>2 DEF Work, Unbumped, SlotOf, IsAt
  <2> QED BY <1>4, <2>2, FinishUnbumped DEF SignOutList
<1>5. ASSUME NEW h \in Hash, SignOutRow(r, h) PROVE Unbumped(r)
  BY <1>0, <1>5, FinishUnbumped DEF SignOutRow, IsAt, Work, Unbumped, SlotOf
<1> QED BY <1>2, <1>3, <1>4, <1>5 DEF SignOutStep, SignOut, Logout

\* How a step writes the sessions: a bump by an invocation's clock, a removal,
\* or a new row.
SessionWrite ==
    \/ session' = session
    \/ \E h \in Hash, at \in Nat :
          /\ at <= now /\ now <= at + Timeout
          /\ session' = [session EXCEPT
                            ![h].expires = Retention(at, session[h].ceiling)]
    \/ \E h \in Hash \union {NoHash} :
          session' = [session EXCEPT ![h].st = "gone"]
    \/ \E h \in Hash : \E row :
          session[h].st = "unborn" /\ session' = [session EXCEPT ![h] = row]

\* Every step writes the sessions one of these ways.
LEMMA SessionChange ==
    ASSUME TypeInv, ClockInv, [Next]_vars
    PROVE  SessionWrite /\ (now' = now \/ session' = session)
<1>0. now \in Nat /\ now <= now /\ now <= now + Timeout
  BY ConstantTypes DEF TypeInv, TypeOK
<1>1. ASSUME NEW r \in Request, SignInStep(r)
      PROVE  SessionWrite /\ now' = now
  <2>1. ASSUME NEW h \in Hash, NEW cap \in Caps, CreateSession(r, h, cap)
        PROVE  SessionWrite /\ now' = now
    BY <2>1 DEF CreateSession, SessionWrite
  <2>2. ASSUME NEW h \in Hash, SingleSignOn(r, h)
        PROVE  SessionWrite /\ now' = now
    BY <1>0, <2>2 DEF SingleSignOn, SessionWrite
  <2>3. CASE RetirePrior(r)
    <3>1. work[r].hash \in Hash \union {NoHash}
      BY DEF TypeInv, TypeOK, Work
    <3> QED BY <2>3, <3>1 DEF RetirePrior, SessionWrite
  <2> QED BY <1>1, <2>1, <2>2, <2>3 DEF SignInStep, SignIn,
            SignInWithoutSession, IssueCode, MintForApp, tables, SessionWrite
<1>2. ASSUME NEW r \in Request, TokenStep(r)
      PROVE  SessionWrite /\ now' = now
  <2>1. ASSUME NEW h \in Hash, TouchRow(r, h)
        PROVE  SessionWrite /\ now' = now
    <3>1. work[r].at \in Nat /\ work[r].at <= now /\ now <= work[r].at + Timeout
      BY <2>1 DEF TouchRow, IsAt, ClockInv, TypeInv, TypeOK, Work
    <3> QED BY <2>1, <3>1 DEF TouchRow, SessionWrite
  <2> QED BY <1>2, <2>1 DEF TokenStep, RedeemCode, ConsumeCode, ListRows,
            TouchedNone, BumpFails, MintFamily, PresentToken, KillFamily,
            AdvanceCounter, tables, SessionWrite
<1>3. ASSUME NEW r \in Request, SignOutStep(r)
      PROVE  SessionWrite /\ now' = now
  <2>1. ASSUME NEW h \in Hash, NEW view, Logout(r, h, view)
        PROVE  SessionWrite /\ now' = now
    BY <1>0, <2>1 DEF Logout, SessionWrite
  <2> QED BY <1>3, <2>1 DEF SignOutStep, SignOut, SignOutFamily, SignOutList,
            SignOutRow, tables, SessionWrite
<1>4. CASE EnvironmentStep
  BY <1>4 DEF EnvironmentStep, StartFlow, RevokeFamily, UpdateIndex,
      SweepSession, Replicate, SweepFamily, Tick, tables, SessionWrite
<1>5. ASSUME NEW r \in Request, Abandon(r) PROVE SessionWrite /\ now' = now
  BY <1>5 DEF Abandon, tables, SessionWrite
<1> QED BY <1>1, <1>2, <1>3, <1>4, <1>5 DEF Next, vars, SessionWrite

\* Time passes only while every running invocation still may run.
LEMMA TimeChange ==
    ASSUME TypeInv, [Next]_vars
    PROVE  now' = now \/ (Tick /\ work' = work /\ now' = now + 1)
<1>1. ASSUME NEW r \in Request, SignInStep(r) PROVE now' = now
  BY <1>1 DEF SignInStep, SignIn, CreateSession, RetirePrior,
      SignInWithoutSession, SingleSignOn, IssueCode, MintForApp
<1>2. ASSUME NEW r \in Request, TokenStep(r) PROVE now' = now
  BY <1>2 DEF TokenStep, RedeemCode, ConsumeCode, ListRows, TouchRow,
      TouchedNone, BumpFails, MintFamily, PresentToken, KillFamily,
      AdvanceCounter
<1>3. ASSUME NEW r \in Request, SignOutStep(r) PROVE now' = now
  BY <1>3 DEF SignOutStep, SignOut, Logout, SignOutFamily, SignOutList,
      SignOutRow
<1>4. ASSUME NEW r \in Request, Abandon(r) PROVE now' = now
  BY <1>4 DEF Abandon
<1>5. CASE EnvironmentStep
  BY <1>5 DEF EnvironmentStep, StartFlow, RevokeFamily, UpdateIndex,
      SweepSession, Replicate, SweepFamily, Tick
<1> QED BY <1>1, <1>2, <1>3, <1>4, <1>5 DEF Next, vars

\* What a step does to the invocations, as far as the clamp reads them.
LEMMA BumpChange ==
    ASSUME TypeInv, ClockInv, [Next]_vars
    PROVE  \/ work' = work
           \/ \E r \in Request : Unbumped(r)
           \/ \E r \in Request, h \in Hash : Bumped(r, h)
<1>1. ASSUME NEW r \in Request, Abandon(r) PROVE Unbumped(r)
  BY <1>1, FinishUnbumped DEF Abandon
<1> QED BY <1>1, SignInUnbumped, TokenBump, SignOutUnbumped, EnvironmentWork
       DEF Next, vars

\* ClockInv is preserved.
LEMMA ClockStep == TypeInv /\ ClockInv /\ [Next]_vars => ClockInv'
<1> SUFFICES ASSUME TypeInv, ClockInv, [Next]_vars PROVE ClockInv'
  OBVIOUS
<1>0. now \in Nat /\ Timeout \in Nat /\ \A r \in Request : work[r].at \in Nat
  BY ConstantTypes DEF TypeInv, TypeOK, Work
<1>1. CASE now' = now
  <2>1. ASSUME NEW r \in Request, Unbumped(r) PROVE ClockInv'
    BY <1>0, <1>1, <2>1 DEF ClockInv, Unbumped, SlotOf, IsAt
  <2>2. ASSUME NEW r \in Request, NEW h \in Hash, Bumped(r, h) PROVE ClockInv'
    BY <1>0, <1>1, <2>2 DEF ClockInv, Bumped, SlotOf, IsAt
  <2> QED BY <1>1, <2>1, <2>2, BumpChange DEF ClockInv, IsAt
<1>2. CASE Tick /\ work' = work /\ now' = now + 1
  BY <1>0, <1>2 DEF Tick, ClockInv, IsAt
<1> QED BY <1>1, <1>2, TimeChange

\* e is no later than what row h may still be set to: a later bump by a slower
\* clock moves the row back by at most Timeout, and no bump passes its ceiling.
Bounded(e, h) ==
    /\ session[h].st # "unborn"
    /\ session[h].st = "live" =>
          /\ e <= session[h].expires
          /\ e <= now + TokenTTL
          /\ session[h].ceiling # 0 => e <= session[h].ceiling

\* However the requests move the deadline of a row, what was bounded stays so.
LEMMA BoundedStays ==
    ASSUME TypeInv, ClockInv, [Next]_vars,
           NEW e \in Nat, NEW h \in Hash, Bounded(e, h)
    PROVE  Bounded(e, h)'
<1>0. /\ now \in Nat /\ TokenTTL \in Nat /\ Timeout \in Nat /\ SessionTTL \in Nat
      /\ TokenTTL + Timeout <= SessionTTL
      /\ session \in [Hash -> SessionRow] /\ session[h] \in SessionRow
      /\ session[h].ceiling \in Nat /\ session[h].expires \in Nat
  BY ConstantTypes DEF TypeInv, TypeOK, SessionRow
<1>1. now <= now' /\ now' \in Nat
  <2>1. now' = now \/ now' = now + 1
    BY TimeChange
  <2> QED BY <1>0, <2>1
<1>t. session[h].st = "live" => e <= now' + TokenTTL
  <2>1. ASSUME NEW m \in Nat, NEW n \in Nat, m <= n, e <= m + TokenTTL
        PROVE  e <= n + TokenTTL
    <3>1. TokenTTL \in Nat
      BY ConstantTypes
    <3> QED BY <2>1, <3>1
  <2>2. e <= now + TokenTTL => e <= now' + TokenTTL
    BY <1>0, <1>1, <2>1
  <2> QED BY <2>2 DEF Bounded
<1>2. CASE session' = session
  BY <1>2, <1>t DEF Bounded
<1>3. ASSUME NEW g \in Hash, NEW at \in Nat, at <= now, now <= at + Timeout,
             session' = [session EXCEPT
                            ![g].expires = Retention(at, session[g].ceiling)]
      PROVE  Bounded(e, h)'
  <2>1. CASE g # h
    BY <1>0, <1>3, <1>t, <2>1 DEF Bounded
  <2>2. CASE g = h
    <3> DEFINE to == Retention(at, session[h].ceiling)
    <3>1. /\ session'[h].st = session[h].st /\ session'[h].expires = to
          /\ session'[h].ceiling = session[h].ceiling
      BY <1>0, <1>3, <2>2 DEF SessionRow
    <3>2. ASSUME session[h].st = "live" PROVE e <= to
      <4>1. e <= now + TokenTTL /\ now + TokenTTL <= at + SessionTTL
        BY <1>0, <1>3, <3>2 DEF Bounded
      <4>2. e <= at + SessionTTL
        BY <1>0, <4>1
      <4>3. session[h].ceiling # 0 => e <= session[h].ceiling
        BY <3>2 DEF Bounded
      <4>4. to = at + SessionTTL \/ (session[h].ceiling # 0 /\ to = session[h].ceiling)
        BY DEF Retention, Smaller
      <4> HIDE DEF to
      <4> QED BY <4>2, <4>3, <4>4
    <3> HIDE DEF to
    <3> QED BY <1>t, <3>1, <3>2 DEF Bounded
  <2> QED BY <2>1, <2>2
<1>4. ASSUME NEW g \in Hash \union {NoHash},
             session' = [session EXCEPT ![g].st = "gone"]
      PROVE  Bounded(e, h)'
  <2>1. /\ session'[h].expires = session[h].expires
        /\ session'[h].ceiling = session[h].ceiling
        /\ session'[h].st \in {"gone", session[h].st}
    BY <1>0, <1>4 DEF SessionRow
  <2> QED BY <1>t, <2>1 DEF Bounded
<1>5. ASSUME NEW g \in Hash, NEW row, session[g].st = "unborn",
             session' = [session EXCEPT ![g] = row]
      PROVE  Bounded(e, h)'
  <2>1. session'[h] = session[h]
    BY <1>0, <1>5 DEF Bounded
  <2> QED BY <1>t, <2>1 DEF Bounded
<1>6. SessionWrite
  BY SessionChange
<1> QED BY <1>2, <1>3, <1>4, <1>5, <1>6 DEF SessionWrite

\* Families, and what the requests are about to write, are bounded by the row
\* they were clamped to.
ClampInv ==
    /\ \A f \in Family :
          family[f].st = "live" /\ family[f].via # NoHash =>
             Bounded(family[f].expires, family[f].via)
    /\ \A r \in Request :
          work[r].pc \in {"mint", "advance"} /\ work[r].hash # NoHash =>
             Bounded(work[r].expires, work[r].hash)

\* No family is live initially.
LEMMA ClampInit == Init => ClampInv
BY DEF Init, ClampInv, UnbornFamily, Idle

\* ClampInv is preserved: a bump bounds what it found by what it wrote.
LEMMA ClampStep == TypeInv /\ ClockInv /\ ClampInv /\ [Next]_vars => ClampInv'
<1> SUFFICES ASSUME TypeInv, ClockInv, ClampInv, [Next]_vars PROVE ClampInv'
  OBVIOUS
<1>0. /\ work \in [Request -> Work] /\ family \in [Family -> FamilyRow]
      /\ now \in Nat /\ session \in [Hash -> SessionRow]
      /\ \A r \in Request : /\ work[r].expires \in Nat /\ work[r].at \in Nat
                            /\ work[r].hash \in Hash \union {NoHash}
      /\ \A f \in Family : /\ family[f].expires \in Nat
                           /\ family[f].via \in Hash \union {NoHash}
  BY DEF TypeInv, TypeOK, Work, FamilyRow
\* What stays where it was stays bounded.
<1>f. ASSUME NEW f \in Family, family[f].st = "live", family[f].via # NoHash
      PROVE  Bounded(family[f].expires, family[f].via) /\
             \E e \in Nat, h \in Hash :
                e = family[f].expires /\ h = family[f].via /\ Bounded(e, h)'
  BY <1>0, <1>f, BoundedStays DEF ClampInv
<1>r. ASSUME NEW r \in Request, work[r].pc \in {"mint", "advance"},
             work[r].hash # NoHash
      PROVE  \E e \in Nat, h \in Hash :
                e = work[r].expires /\ h = work[r].hash /\ Bounded(e, h)'
  BY <1>0, <1>r, BoundedStays DEF ClampInv
<1>1. ASSUME NEW q \in Request, work'[q].pc \in {"mint", "advance"},
             work'[q].hash # NoHash
      PROVE  Bounded(work[q].expires, work[q].hash)'
  <2>1. CASE work'[q] = work[q]
    <3>1. PICK e \in Nat, h \in Hash :
             e = work[q].expires /\ h = work[q].hash /\ Bounded(e, h)'
      BY <1>r, <1>1, <2>1
    <3> QED BY <2>1, <3>1 DEF Bounded
  <2>2. ASSUME NEW h \in Hash, Bumped(q, h)
        PROVE  Bounded(work[q].expires, work[q].hash)'
    <3> DEFINE at == work[q].at
               to == Retention(at, session[h].ceiling)
    <3>1. /\ work'[q].hash = h /\ work'[q].expires = Clamped(to, at)
          /\ session' = [session EXCEPT ![h].expires = to]
          /\ session[h].st = "live"
      BY <2>2 DEF Bumped
    <3>2. /\ session'[h].st = "live" /\ session'[h].expires = to
          /\ session'[h].ceiling = session[h].ceiling
      BY <1>0, <3>1 DEF SessionRow
    <3>3. at \in Nat /\ at <= now /\ session[h].ceiling \in Nat
          /\ TokenTTL \in Nat /\ SessionTTL \in Nat
      BY <1>0, <2>2, ConstantTypes DEF Bumped, ClockInv, SessionRow
    <3>4. now <= now' /\ now' \in Nat
      BY <1>0, TimeChange
    <3>5. to \in Nat /\ (session[h].ceiling # 0 => to <= session[h].ceiling)
      BY <3>3, RetentionType DEF Retention, Smaller
    <3> HIDE DEF to, at
    <3>6. Clamped(to, at) <= to /\ Clamped(to, at) <= at + TokenTTL
          /\ Clamped(to, at) \in Nat
      BY <3>3, <3>5 DEF Clamped, Smaller
    <3>7. Clamped(to, at) <= now' + TokenTTL
      BY <1>0, <3>3, <3>4, <3>6
    <3>8. session[h].ceiling # 0 => Clamped(to, at) <= session[h].ceiling
      BY <3>3, <3>5, <3>6
    <3> QED BY <3>1, <3>2, <3>6, <3>7, <3>8 DEF Bounded
  <2>3. \/ work'[q] = work[q]
        \/ Unbumped(q)
        \/ \E h \in Hash : Bumped(q, h)
    BY BumpChange DEF Unbumped, Bumped, SlotOf
  <2>4. ~Unbumped(q)
    BY <1>1 DEF Unbumped
  <2> QED BY <2>1, <2>2, <2>3, <2>4
\* A family that stays as it is.
<1>2. ASSUME NEW f \in Family, family'[f] = family[f], family'[f].st = "live",
             family'[f].via # NoHash
      PROVE  Bounded(family[f].expires, family[f].via)'
  <2>1. PICK e \in Nat, h \in Hash :
           e = family[f].expires /\ h = family[f].via /\ Bounded(e, h)'
    BY <1>f, <1>2
  <2> QED BY <1>2, <2>1 DEF Bounded
\* A family an invocation writes is bounded as what it held.
<1>3. ASSUME NEW f \in Family, NEW r \in Request,
             work[r].pc \in {"mint", "advance"},
             family'[f].expires = work[r].expires, family'[f].via = work[r].hash,
             family'[f].via # NoHash
      PROVE  Bounded(family[f].expires, family[f].via)'
  <2>1. PICK e \in Nat, h \in Hash :
           e = work[r].expires /\ h = work[r].hash /\ Bounded(e, h)'
    BY <1>r, <1>3
  <2> QED BY <1>3, <2>1 DEF Bounded
<1>4. ASSUME NEW f \in Family, family'[f].st = "live", family'[f].via # NoHash
      PROVE  Bounded(family[f].expires, family[f].via)'
  <2>1. CASE Quiet \/ (\E g \in Family : Replicate(g))
              \/ (\E g \in Family : Reserve(g))
    BY <1>2, <1>4, <2>1 DEF Quiet, Replicate, Reserve
  <2>2. ASSUME NEW g \in Family, Removal(g) PROVE family'[f] = family[f]
    BY <1>0, <1>4, <2>2 DEF Removal, DropFamily, WriteFamily, GoneFamily,
        UnbornFamily
  <2>3. ASSUME NEW r \in Request, NEW g \in Family, MintFamily(r, g)
        PROVE  Bounded(family[f].expires, family[f].via)'
    <3>1. CASE f = g
      <4>1. /\ family'[f].expires = work[r].expires
            /\ family'[f].via = work[r].hash /\ work[r].pc = "mint"
        BY <1>0, <2>3, <3>1 DEF MintFamily, WriteFamily, IsAt
      <4> QED BY <1>3, <1>4, <4>1
    <3>2. CASE f # g
      BY <1>0, <1>2, <1>4, <2>3, <3>2 DEF MintFamily, WriteFamily
    <3> QED BY <3>1, <3>2
  <2>4. ASSUME NEW r \in Request, Advance(r), work[r].fam \in Family
        PROVE  Bounded(family[f].expires, family[f].via)'
    <3>1. CASE f = work[r].fam
      <4>1. family[f] \in FamilyRow /\ work[r].pc = "advance"
        BY <1>0, <2>4 DEF Advance, AdvanceCounter, IsAt
      <4>2. family' = [family EXCEPT ![f] = [family[f] EXCEPT
                   !.st = "live", !.counter = work[r].counter + 1,
                   !.expires = work[r].expires, !.rotated = work[r].at,
                   !.via = work[r].hash]]
        BY <2>4, <3>1 DEF Advance, AdvanceCounter, WriteFamily
      <4>3. /\ family'[f].expires = work[r].expires
            /\ family'[f].via = work[r].hash
        BY <1>0, <4>1, <4>2 DEF FamilyRow
      <4> QED BY <1>3, <1>4, <4>1, <4>3
    <3>2. CASE f # work[r].fam
      <4>1. family'[f] = family[f]
        BY <2>4, <3>2, AdvanceWrites
      <4> QED BY <1>2, <1>4, <4>1
    <3> QED BY <3>1, <3>2
  <2> QED BY <1>2, <1>4, <2>1, <2>2, <2>3, <2>4, FamilyChange
<1> QED BY <1>1, <1>4 DEF ClampInv

\* A family whose last bump found a session row expires no later than that
\* row, though any number of requests move the row's deadline at once
\* (clampedExpiry, touchExpiry).
THEOREM FamiliesAreClamped == Spec => []ClampedWithinSession
<1>1. TypeInv /\ ClampInv => ClampedWithinSession
  BY DEF ClampInv, Bounded, ClampedWithinSession
<1>2. Init => TypeInv /\ ClockInv /\ ClampInv
  BY TypeInit, ClockInit, ClampInit
<1>3. (TypeInv /\ ClockInv /\ ClampInv) /\ [Next]_vars
         => (TypeInv /\ ClockInv /\ ClampInv)'
  BY TypeStep, ClockStep, ClampStep
<1> QED BY <1>1, <1>2, <1>3, PTL DEF Spec

=============================================================================
