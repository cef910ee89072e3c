--------------------------- MODULE LoginSessions ---------------------------
(***************************************************************************)
(* Login sessions and refresh-token families of one ESP User account       *)
(* (espuser/session, espuser/refreshtoken and their two DynamoDB tables).  *)
(*                                                                         *)
(* Every HTTP request is a Lambda invocation of its own.  A request slot   *)
(* r \in Request runs one invocation at a time, one action per DynamoDB    *)
(* call, so that any two requests interleave between their calls.  The     *)
(* tables are shared; what a request has read lives in work[r] and may be  *)
(* stale by the time it is used.  An invocation may stop at any call       *)
(* (Abandon): a crash, a timeout or a storage error it returns on.         *)
(***************************************************************************)
EXTENDS Integers, FiniteSets

CONSTANTS
    Hash,               \* keys of the sessions table (hash of a cookie value)
    Sid,                \* public session identifiers
    Family,             \* refresh-token family identifiers
    Flow,               \* authorization flows, each with its one code
    Request,            \* concurrent invocations
    NoHash, NoSid, NoFamily, NoFlow,
    Caps,               \* the provider caps in use (0: the provider has none)
    SessionTTL,         \* session.SessionTTLSeconds
    TokenTTL,           \* refreshtoken.TokenTTL
    FlowTTL,            \* auth.FlowTTL
    Grace,              \* refreshtoken.rotationGrace
    Timeout,            \* longest an invocation runs (the Lambda timeout)
    MaxTime,            \* bound on the clock
    MaxCounter,         \* bound on the rotations of one family
    BumpMayFail,        \* may the retention bump fail with a storage error?
    ReadsMayLag         \* may a table read miss the latest write?

ASSUME SentinelsAssumption ==
    /\ NoHash \notin Hash
    /\ NoSid \notin Sid
    /\ NoFamily \notin Family
    /\ NoFlow \notin Flow

\* The documented constraint on the two lifetimes, with room for the clock an
\* invocation captured before another one moved the same row.
ASSUME LifetimesAssumption ==
    /\ Caps \subseteq Nat
    /\ {SessionTTL, TokenTTL, FlowTTL, Grace, Timeout} \subseteq Nat
    /\ TokenTTL + Timeout <= SessionTTL

VARIABLES
    now,                \* the wall clock
    session,            \* [Hash -> session row]
    listed,             \* [Hash -> the sid the by-user index lists it under]
    family,             \* [Family -> family row]
    replica,            \* [Family -> what a lagging read may still return]
    flow,               \* [Flow -> authorization-flow row]
    token,              \* refresh tokens handed out, <<family, counter>>
    rotations,          \* history: successful rotations of each family
    origin,             \* history: the flow a family was minted from
    work                \* [Request -> what the invocation holds]

tables == <<session, listed, family, replica, flow>>
history == <<token, rotations, origin>>
vars == <<now, session, listed, family, replica, flow,
          token, rotations, origin, work>>

---------------------------------------------------------------------------
(* Rows and invocation records *)

Phase == {"unborn", "live", "gone"}

SessionRow ==
    [st : Phase, sid : Sid \union {NoSid}, expires : Nat, ceiling : Nat]

\* via is history: the session row whose bump clamped expires.
FamilyRow ==
    [st : Phase, sid : Sid \union {NoSid}, counter : Nat, expires : Nat,
     rotated : Nat, via : Hash \union {NoHash}]

FlowRow ==
    [st : {"unborn", "open", "code", "spent"}, sid : Sid \union {NoSid},
     expires : Nat]

Op == {"none", "signin", "sso", "mint", "rotate", "signout", "logout"}

Pc == {"idle", "create", "retire", "code", "consume", "list", "touch",
       "mint", "advance", "kill", "families", "rows"}

(***************************************************************************)
(* What an invocation holds: op and pc say what it does and which call is  *)
(* next, at is its clock reading, sid the session it works for.  The rest  *)
(* is what its earlier calls returned: hash (the prior session's row or    *)
(* the row that was bumped), hashes (index entries still to visit), ended  *)
(* (no listed row was missing so far), expires (the clamped expiry), fam   *)
(* and counter (the presented token), fams (families still to delete),     *)
(* flow (the code being redeemed).  why, dead and seen are history: why a  *)
(* family is killed, whether the session had surely ended when the token   *)
(* was presented, and the families a sign-out listed.                      *)
(***************************************************************************)
Work ==
    [op : Op, pc : Pc, at : Nat, sid : Sid \union {NoSid},
     hash : Hash \union {NoHash}, hashes : SUBSET Hash, ended : BOOLEAN,
     expires : Nat, fam : Family \union {NoFamily}, counter : Nat,
     fams : SUBSET Family, flow : Flow \union {NoFlow},
     why : {"none", "expired", "reuse", "ended"},
     dead : BOOLEAN, seen : SUBSET Family]

Idle ==
    [op |-> "none", pc |-> "idle", at |-> 0, sid |-> NoSid, hash |-> NoHash,
     hashes |-> {}, ended |-> TRUE, expires |-> 0, fam |-> NoFamily,
     counter |-> 0, fams |-> {}, flow |-> NoFlow, why |-> "none",
     dead |-> FALSE, seen |-> {}]

NoSession == [st |-> "unborn", sid |-> NoSid, expires |-> 0, ceiling |-> 0]

UnbornFamily ==
    [st |-> "unborn", sid |-> NoSid, counter |-> 0, expires |-> 0,
     rotated |-> 0, via |-> NoHash]

GoneFamily == [UnbornFamily EXCEPT !.st = "gone"]

NoFlowRow == [st |-> "unborn", sid |-> NoSid, expires |-> 0]

Init ==
    /\ now = 0
    /\ session = [h \in Hash |-> NoSession]
    /\ listed = [h \in Hash |-> NoSid]
    /\ family = [f \in Family |-> UnbornFamily]
    /\ replica = [f \in Family |-> UnbornFamily]
    /\ flow = [x \in Flow |-> NoFlowRow]
    /\ token = {}
    /\ rotations = [f \in Family |-> 0]
    /\ origin = [f \in Family |-> NoFlow]
    /\ work = [r \in Request |-> Idle]

---------------------------------------------------------------------------
(* Helpers *)

Smaller(a, b) == IF a <= b THEN a ELSE b

\* Mutant: a sign slip in the retention deadline.
RetentionBackwards(t, ceiling) ==
    IF ceiling = 0 THEN t - SessionTTL ELSE Smaller(t - SessionTTL, ceiling)

\* The rolling retention deadline, never past the provider's ceiling.
Retention(t, ceiling) ==
    IF ceiling = 0 THEN t + SessionTTL ELSE Smaller(t + SessionTTL, ceiling)

\* sessions_db.isExpired
Expired(h, t) == session[h].expires <= t

LiveAt(h, t) == session[h].st = "live" /\ ~Expired(h, t)

\* A sid no row and no request has carried: GenRandom draws fresh ones.
FreshSid(s) ==
    /\ \A h \in Hash : session[h].sid # s
    /\ \A r \in Request : work[r].sid # s

\* Write a family row; the replica a lagging read uses is left behind.
WriteFamily(f, row) ==
    /\ family' = [family EXCEPT ![f] = row]
    /\ replica' = IF ReadsMayLag THEN replica
                  ELSE [replica EXCEPT ![f] = row]

\* Mutant: a failing delete is logged and the handler carries on.
DropFamilyBestEffort(f) ==
    WriteFamily(f, GoneFamily) \/ UNCHANGED <<family, replica>>

DropFamily(f) == WriteFamily(f, GoneFamily)

\* What GetFamily and ListByUser, both without ConsistentRead, may return.
FamilyView == {family, replica}

\* Every row of the session is gone, the index knows it, and no sign-in is
\* about to give the sid another row.
SurelyEnded(s) ==
    /\ s # NoSid
    /\ \A h \in Hash : session[h].sid = s => session[h].st = "gone"
    /\ \A h \in Hash : listed[h] # s
    /\ \A r \in Request : work[r].op = "signin" => work[r].sid # s

Goto(r, pc) == work' = [work EXCEPT ![r].pc = pc]
Finish(r) == work' = [work EXCEPT ![r] = Idle]
IsAt(r, pc) == work[r].pc = pc

---------------------------------------------------------------------------
(* Signing in: session.Establish, then the flow's code *)

\* GetSession of the cookie the browser presented: a live row of the same
\* user lends its sid.  A cookie of another user, or none, is no prior.
SignIn(r, prior) ==
    /\ IsAt(r, "idle")
    /\ prior # NoHash => session[prior].st # "unborn"
    /\ IF prior # NoHash /\ LiveAt(prior, now)
       THEN work' = [work EXCEPT ![r] = [Idle EXCEPT
                !.op = "signin", !.pc = "create", !.at = now,
                !.sid = session[prior].sid, !.hash = prior]]
       ELSE \E s \in Sid :
                /\ FreshSid(s)
                /\ work' = [work EXCEPT ![r] = [Idle EXCEPT
                       !.op = "signin", !.pc = "create", !.at = now,
                       !.sid = s]]
    /\ UNCHANGED <<now, tables, history>>

\* CreateSession under a hash drawn afresh, clamped to the provider's cap.
CreateSession(r, h, cap) ==
    /\ IsAt(r, "create")
    /\ session[h].st = "unborn"
    /\ LET ceiling == IF cap = 0 THEN 0 ELSE work[r].at + cap
       IN  session' = [session EXCEPT ![h] =
               [st |-> "live", sid |-> work[r].sid, ceiling |-> ceiling,
                expires |-> Retention(work[r].at, ceiling)]]
    /\ Goto(r, IF work[r].hash = NoHash THEN "code" ELSE "retire")
    /\ UNCHANGED <<now, listed, family, replica, flow, history>>

\* Delete the row that was replaced.  A failure is only logged.
RetirePrior(r) ==
    /\ IsAt(r, "retire")
    /\ \/ session' = [session EXCEPT ![work[r].hash].st = "gone"]
       \/ UNCHANGED session
    /\ work' = [work EXCEPT ![r].pc = "code", ![r].hash = NoHash]
    /\ UNCHANGED <<now, listed, family, replica, flow, history>>

\* The session could not be written: the login goes on without one.
SignInWithoutSession(r) ==
    /\ BumpMayFail
    /\ IsAt(r, "create")
    /\ work' = [work EXCEPT ![r].pc = "code", ![r].sid = NoSid,
                            ![r].hash = NoHash]
    /\ UNCHANGED <<now, tables, history>>

\* The /oauth2/authorize shortcut: Lookup rolls the cookie's live row
\* forward in one conditional write, then a code is issued for its sid.
SingleSignOn(r, h) ==
    /\ IsAt(r, "idle")
    /\ LiveAt(h, now)
    /\ session' = [session EXCEPT ![h].expires =
                       Retention(now, session[h].ceiling)]
    /\ work' = [work EXCEPT ![r] = [Idle EXCEPT
            !.op = "sso", !.pc = "code", !.at = now,
            !.sid = session[h].sid]]
    /\ UNCHANGED <<now, listed, family, replica, flow, history>>

\* StartAuthFlow writes the flow row.
StartFlow(x) ==
    /\ flow[x].st = "unborn"
    /\ flow' = [flow EXCEPT ![x] = [st |-> "open", sid |-> NoSid,
                                    expires |-> now + FlowTTL]]
    /\ UNCHANGED <<now, session, listed, family, replica, history, work>>

\* IssueCode binds the flow to the subject once, while it is unexpired.
IssueCode(r, x) ==
    /\ IsAt(r, "code")
    /\ flow[x].st = "open"
    /\ now < flow[x].expires
    /\ flow' = [flow EXCEPT ![x].st = "code", ![x].sid = work[r].sid]
    /\ Finish(r)
    /\ UNCHANGED <<now, session, listed, family, replica, history>>

\* MintTokenSetForFirstPartyLogin: an app's login has no flow and goes from
\* Establish straight to the mint.
MintForApp(r) ==
    /\ IsAt(r, "code")
    /\ work[r].op = "signin"
    /\ work' = [work EXCEPT ![r].op = "mint", ![r].at = now,
            ![r].pc = IF work[r].sid = NoSid THEN "mint" ELSE "list",
            ![r].expires = now + TokenTTL]
    /\ UNCHANGED <<now, tables, history>>

---------------------------------------------------------------------------
(* Redeeming a code *)

\* GetFlowByCode: the code's flow, unexpired.
RedeemCode(r, x) ==
    /\ IsAt(r, "idle")
    /\ flow[x].st = "code"
    /\ now < flow[x].expires
    /\ work' = [work EXCEPT ![r] = [Idle EXCEPT
            !.op = "mint", !.pc = "consume", !.at = now,
            !.sid = flow[x].sid, !.flow = x]]
    /\ UNCHANGED <<now, tables, history>>

\* Mutant: ConsumeCode deletes without the existence condition.
AnyCode(x) == TRUE

CodeUnspent(x) == flow[x].st = "code"

\* ConsumeCode deletes the flow row if it is still there; a lost race is
\* invalid_grant.
ConsumeCode(r) ==
    /\ IsAt(r, "consume")
    /\ IF CodeUnspent(work[r].flow)
       THEN /\ flow' = [flow EXCEPT ![work[r].flow] =
                           [NoFlowRow EXCEPT !.st = "spent"]]
            /\ work' = [work EXCEPT
                  ![r].pc = IF work[r].sid = NoSid THEN "mint" ELSE "list",
                  ![r].at = now, ![r].expires = now + TokenTTL]
       ELSE /\ Finish(r)
            /\ UNCHANGED flow
    /\ UNCHANGED <<now, session, listed, family, replica, history>>

---------------------------------------------------------------------------
(* clampedExpiry: bump the session by sid, clamp the family to it *)

\* TouchExpiryBySID queries the by-user index, which may lag.
ListRows(r) ==
    /\ IsAt(r, "list")
    /\ work' = [work EXCEPT ![r].pc = "touch", ![r].at = now,
            ![r].hashes = {h \in Hash : listed[h] = work[r].sid},
            ![r].ended = TRUE]
    /\ UNCHANGED <<now, tables, history>>

WritePc(r) == IF work[r].op = "rotate" THEN "advance" ELSE "mint"

\* Mutant: the family's expiry ignores the session's.
Unclamped(to, at) == at + TokenTTL

\* A family lives TokenTTL, but no longer than the session row just bumped.
Clamped(to, at) == Smaller(to, at + TokenTTL)

\* touchExpiry of one listed row.  An expired row counts as ended, a missing
\* one as unknown; a live one is rolled forward and decides the expiry.
TouchRow(r, h) ==
    /\ IsAt(r, "touch")
    /\ h \in work[r].hashes
    /\ LET at == work[r].at
           to == Retention(at, session[h].ceiling)
           rest == work[r].hashes \ {h}
       IN  \/ /\ LiveAt(h, at)
              /\ session' = [session EXCEPT ![h].expires = to]
              /\ work' = [work EXCEPT ![r].pc = WritePc(r),
                     ![r].hash = h, ![r].hashes = {},
                     ![r].expires = Clamped(to, at)]
           \/ /\ session[h].st = "live" /\ Expired(h, at)
              /\ work' = [work EXCEPT ![r].hashes = rest]
              /\ UNCHANGED session
           \/ /\ session[h].st # "live"
              /\ work' = [work EXCEPT ![r].hashes = rest, ![r].ended = FALSE]
              /\ UNCHANGED session
    /\ UNCHANGED <<now, listed, family, replica, flow, history>>

\* Mutant: an ended session is taken for one that cannot be told.
NeverEnds(r) == FALSE

\* sessionGone: the bump found only ended rows, or none at all.
SessionGone(r) == work[r].ended /\ work[r].op = "rotate"

\* Every listed row was visited and none was live.  With all of them expired,
\* or none listed, the session has ended: a rotation kills its family, a mint
\* goes on.  Otherwise it cannot tell, and the plain TTL stands.
TouchedNone(r) ==
    /\ IsAt(r, "touch")
    /\ work[r].hashes = {}
    /\ IF SessionGone(r)
       THEN work' = [work EXCEPT ![r].pc = "kill", ![r].why = "ended"]
       ELSE work' = [work EXCEPT ![r].pc = WritePc(r),
                         ![r].expires = work[r].at + TokenTTL]
    /\ UNCHANGED <<now, tables, history>>

\* A storage error in the bump degrades to the plain TTL.
BumpFails(r) ==
    /\ BumpMayFail
    /\ work[r].pc \in {"list", "touch"}
    /\ work' = [work EXCEPT ![r].pc = WritePc(r), ![r].hashes = {},
                    ![r].expires = work[r].at + TokenTTL]
    /\ UNCHANGED <<now, tables, history>>

\* CreateFamily: the family's first row, and token 0.
MintFamily(r, f) ==
    /\ IsAt(r, "mint")
    /\ family[f].st = "unborn"
    /\ WriteFamily(f, [st |-> "live", sid |-> work[r].sid, counter |-> 0,
                       expires |-> work[r].expires, rotated |-> work[r].at,
                       via |-> work[r].hash])
    /\ token' = token \union {<<f, 0>>}
    /\ origin' = [origin EXCEPT ![f] = work[r].flow]
    /\ Finish(r)
    /\ UNCHANGED <<now, session, listed, flow, rotations>>

---------------------------------------------------------------------------
(* Rotate: redeeming a refresh token *)

\* What Rotate decides from the row it read, before any write.
RowExpired(row) == row.expires <= now
StaleByOne(c, row) == c + 1 = row.counter /\ now - row.rotated <= Grace

\* Load the family the token names and decide.  A row that is not there is
\* ErrRefreshNotFound; a lost-response retry gets the current token again.
PresentToken(r, t, row) ==
    /\ IsAt(r, "idle")
    /\ row.st = "live"
    /\ LET held == [Idle EXCEPT
               !.op = "rotate", !.at = now, !.sid = row.sid, !.fam = t[1],
               !.counter = t[2], !.dead = SurelyEnded(row.sid)]
       IN  \/ /\ RowExpired(row)
              /\ work' = [work EXCEPT ![r] =
                     [held EXCEPT !.pc = "kill", !.why = "expired"]]
              /\ UNCHANGED token
           \/ /\ ~RowExpired(row)
              /\ t[2] # row.counter
              /\ StaleByOne(t[2], row)
              /\ token' = token \union {<<t[1], row.counter>>}
              /\ UNCHANGED work
           \/ /\ ~RowExpired(row)
              /\ t[2] # row.counter
              /\ ~StaleByOne(t[2], row)
              /\ work' = [work EXCEPT ![r] =
                     [held EXCEPT !.pc = "kill", !.why = "reuse"]]
              /\ UNCHANGED token
           \/ /\ ~RowExpired(row)
              /\ t[2] = row.counter
              /\ t[2] < MaxCounter
              /\ work' = [work EXCEPT ![r] = [held EXCEPT
                     !.pc = IF row.sid = NoSid THEN "advance" ELSE "list",
                     !.expires = now + TokenTTL]]
              /\ UNCHANGED token
    /\ UNCHANGED <<now, tables, rotations, origin>>

\* DeleteFamily, its error ignored: the row may be gone already.
KillFamily(r) ==
    /\ IsAt(r, "kill")
    /\ IF family[work[r].fam].st = "live"
       THEN DropFamily(work[r].fam)
       ELSE UNCHANGED <<family, replica>>
    /\ Finish(r)
    /\ UNCHANGED <<now, session, listed, flow, history>>

\* Mutants: the condition only asks for the row; the condition holds for a
\* missing row (an upsert); the grace that re-serves a token also writes.
RowExists(r) == family[work[r].fam].st = "live"

CounterMatchesOrMissing(r) ==
    LET row == family[work[r].fam]
    IN  row.st # "live" \/ row.counter = work[r].counter

CounterMatchesWithGrace(r) ==
    LET row == family[work[r].fam]
    IN  row.st = "live" /\ (row.counter = work[r].counter
                               \/ StaleByOne(work[r].counter, row))

\* AdvanceCounter's condition: the row is there and its counter unchanged.
CounterMatches(r) ==
    LET row == family[work[r].fam]
    IN  row.st = "live" /\ row.counter = work[r].counter

\* AdvanceCounter, then the next token; a lost race is only refused.
AdvanceCounter(r) ==
    /\ IsAt(r, "advance")
    /\ IF CounterMatches(r)
       THEN LET f == work[r].fam
                next == work[r].counter + 1
            IN  /\ WriteFamily(f, [family[f] EXCEPT
                       !.st = "live", !.counter = next,
                       !.expires = work[r].expires, !.rotated = work[r].at,
                       !.via = work[r].hash])
                /\ token' = token \union {<<f, next>>}
                /\ rotations' = [rotations EXCEPT ![f] = @ + 1]
       ELSE UNCHANGED <<family, replica, token, rotations>>
    /\ Finish(r)
    /\ UNCHANGED <<now, session, listed, flow, origin>>

\* /oauth2/revoke: whoever holds a token of the family ends it.
RevokeFamily(t) ==
    /\ family[t[1]].st = "live"
    /\ DropFamily(t[1])
    /\ UNCHANGED <<now, session, listed, flow, history, work>>

---------------------------------------------------------------------------
(* Signing out: families first, then session rows *)

\* ListByUser, narrowed to one sid by DELETE sessions/{sid} and by the browser
\* logout, or not at all (NoSid) by DELETE sessions.
Listing(s, view) ==
    {f \in Family : view[f].st = "live" /\ (s = NoSid \/ view[f].sid = s)}

StartSignOut(r, op, s, view) ==
    work' = [work EXCEPT ![r] = [Idle EXCEPT
        !.op = op, !.pc = "families", !.at = now, !.sid = s,
        !.fams = Listing(s, view), !.seen = Listing(s, view)]]

SignOut(r, s, view) ==
    /\ IsAt(r, "idle")
    /\ StartSignOut(r, "signout", s, view)
    /\ UNCHANGED <<now, tables, history>>

\* GET /oauth2/logout resolves its session from the cookie, rolling it.
Logout(r, h, view) ==
    /\ IsAt(r, "idle")
    /\ LiveAt(h, now)
    /\ session' = [session EXCEPT ![h].expires =
                       Retention(now, session[h].ceiling)]
    /\ StartSignOut(r, "logout", session[h].sid, view)
    /\ UNCHANGED <<now, listed, family, replica, flow, history>>

\* Families are deleted one by one; a row already gone fails the delete and
\* the whole request with it.
SignOutFamily(r, f) ==
    /\ IsAt(r, "families")
    /\ f \in work[r].fams
    /\ IF family[f].st = "live"
       THEN /\ DropFamily(f)
            /\ work' = [work EXCEPT ![r].fams = @ \ {f}]
       ELSE /\ Finish(r)
            /\ UNCHANGED <<family, replica>>
    /\ UNCHANGED <<now, session, listed, flow, history>>

\* sessionHashesForUser; no row listed is ErrSessionNotFound, or nothing to do.
SignOutList(r) ==
    /\ IsAt(r, "families")
    /\ work[r].fams = {}
    /\ LET hs == {h \in Hash : IF work[r].sid = NoSid THEN listed[h] # NoSid
                               ELSE listed[h] = work[r].sid}
       IN  IF hs = {} THEN Finish(r)
           ELSE work' = [work EXCEPT ![r].pc = "rows", ![r].hashes = hs]
    /\ UNCHANGED <<now, tables, history>>

\* DeleteSession per listed hash; a missing row fails the request.
SignOutRow(r, h) ==
    /\ IsAt(r, "rows")
    /\ h \in work[r].hashes
    /\ IF session[h].st = "live"
       THEN /\ session' = [session EXCEPT ![h].st = "gone"]
            /\ IF work[r].hashes = {h} THEN Finish(r)
               ELSE work' = [work EXCEPT ![r].hashes = @ \ {h}]
       ELSE /\ Finish(r)
            /\ UNCHANGED session
    /\ UNCHANGED <<now, listed, family, replica, flow, history>>

---------------------------------------------------------------------------
(* The environment *)

\* An invocation stops where it is: timeout, crash or returned storage error.
Abandon(r) ==
    /\ ~IsAt(r, "idle")
    /\ Finish(r)
    /\ UNCHANGED <<now, tables, history>>

\* The by-user index catches up with one session row.
UpdateIndex(h) ==
    /\ listed' = [listed EXCEPT ![h] =
           IF session[h].st = "live" THEN session[h].sid ELSE NoSid]
    /\ listed' # listed
    /\ UNCHANGED <<now, session, family, replica, flow, history, work>>

\* Lagging reads catch up with one family row.
Replicate(f) ==
    /\ replica[f] # family[f]
    /\ replica' = [replica EXCEPT ![f] = family[f]]
    /\ UNCHANGED <<now, session, listed, family, flow, history, work>>

\* DynamoDB's TTL sweep removes expired rows, some time later.
SweepSession(h) ==
    /\ session[h].st = "live" /\ Expired(h, now)
    /\ session' = [session EXCEPT ![h].st = "gone"]
    /\ UNCHANGED <<now, listed, family, replica, flow, history, work>>

SweepFamily(f) ==
    /\ family[f].st = "live" /\ RowExpired(family[f])
    /\ DropFamily(f)
    /\ UNCHANGED <<now, session, listed, flow, history, work>>

\* Time passes, but no further than an invocation may run.
Tick ==
    /\ now < MaxTime
    /\ \A r \in Request : ~IsAt(r, "idle") => now < work[r].at + Timeout
    /\ now' = now + 1
    /\ UNCHANGED <<tables, history, work>>

---------------------------------------------------------------------------
SignInStep(r) ==
    \/ \E h \in Hash \union {NoHash} : SignIn(r, h)
    \/ \E h \in Hash, cap \in Caps : CreateSession(r, h, cap)
    \/ RetirePrior(r)
    \/ SignInWithoutSession(r)
    \/ \E h \in Hash : SingleSignOn(r, h)
    \/ \E x \in Flow : IssueCode(r, x)
    \/ MintForApp(r)

TokenStep(r) ==
    \/ \E x \in Flow : RedeemCode(r, x)
    \/ ConsumeCode(r)
    \/ ListRows(r)
    \/ \E h \in Hash : TouchRow(r, h)
    \/ TouchedNone(r)
    \/ BumpFails(r)
    \/ \E f \in Family : MintFamily(r, f)
    \/ \E t \in token, view \in FamilyView : PresentToken(r, t, view[t[1]])
    \/ KillFamily(r)
    \/ AdvanceCounter(r)

SignOutStep(r) ==
    \/ \E s \in Sid \union {NoSid}, view \in FamilyView : SignOut(r, s, view)
    \/ \E h \in Hash, view \in FamilyView : Logout(r, h, view)
    \/ \E f \in Family : SignOutFamily(r, f)
    \/ SignOutList(r)
    \/ \E h \in Hash : SignOutRow(r, h)

EnvironmentStep ==
    \/ \E x \in Flow : StartFlow(x)
    \/ \E t \in token : RevokeFamily(t)
    \/ \E h \in Hash : UpdateIndex(h) \/ SweepSession(h)
    \/ \E f \in Family : Replicate(f) \/ SweepFamily(f)
    \/ Tick

Next ==
    \/ \E r \in Request :
          SignInStep(r) \/ TokenStep(r) \/ SignOutStep(r) \/ Abandon(r)
    \/ EnvironmentStep

Spec == Init /\ [][Next]_vars

---------------------------------------------------------------------------
(* Correctness *)

\* The lineages LoginSessions implements: a family is a lineage, and its
\* newest token is the one its last successful rotation handed out.
Lineages == INSTANCE TokenLineage WITH
    Lineage <- Family,
    phase <- [f \in Family |-> family[f].st],
    latest <- rotations,
    handed <- token

TypeOK ==
    /\ now \in Nat
    /\ session \in [Hash -> SessionRow]
    /\ listed \in [Hash -> Sid \union {NoSid}]
    /\ family \in [Family -> FamilyRow]
    /\ replica \in [Family -> FamilyRow]
    /\ flow \in [Flow -> FlowRow]
    /\ token \subseteq Family \X Nat
    /\ rotations \in [Family -> Nat]
    /\ origin \in [Family -> Flow \union {NoFlow}]
    /\ work \in [Request -> Work]

\* Two redemptions of one refresh token never both advance the family: its
\* counter counts the successful rotations, and no token is ahead of it.
\* (Rotate, AdvanceCounter: "concurrent redemptions race and exactly one wins".)
RotationsAreSerial ==
    \A f \in Family :
        /\ family[f].st = "live" => family[f].counter = rotations[f]
        /\ \A t \in token : t[1] = f => t[2] <= rotations[f]

\* A family ended by sign-out, revocation or detected reuse never comes back,
\* whatever a request that read it before is still about to write.
EndedFamilyStaysEnded ==
    [][\A f \in Family : family[f].st = "gone" => family'[f].st = "gone"]_vars

\* A refresh token presented after its session was surely ended is never
\* rotated, so a code redeemed late cannot outlive a completed sign-out.
\* (MintRefreshtoken, Rotate.)  A failing bump is the documented exception.
EndedSessionRefused ==
    \A r \in Request :
        work[r].dead /\ ~BumpMayFail => ~IsAt(r, "advance")

\* When a sign-out has reached the session rows, every family it listed is
\* gone: interrupted, it never leaves the applications signed in behind an
\* ended session.  (handleDeleteOne, handleDeleteAll, handleLogout.)
FamiliesEndFirst ==
    \A r \in Request : IsAt(r, "rows") =>
        \A f \in work[r].seen : family[f].st = "gone"

\* A code mints at most one family, whoever redeems it how often.
\* (ExchangeAuthCode, ConsumeCode.)
CodeIsSingleUse ==
    \A f, g \in Family :
        origin[f] = origin[g] /\ origin[f] # NoFlow => f = g

\* A family whose last bump found a session row expires no later than that
\* row, though any number of requests move the row's deadline at once.
\* (clampedExpiry, touchExpiry.)
ClampedWithinSession ==
    \A f \in Family :
        LET h == family[f].via
        IN  family[f].st = "live" /\ h # NoHash /\ session[h].st = "live"
                => family[f].expires <= session[h].expires

\* The tables implement the abstract token lineages.
ImplementsLineages == Lineages!LineageSpec

===========================================================================
