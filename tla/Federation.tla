------------------------------ MODULE Federation ------------------------------
(***************************************************************************)
(* Signing in through an upstream provider and the user it leads to        *)
(* (src/espuser/handlers/authorize, src/espuser/idp, and the resolution of *)
(* users by contact in src/espuser/auth/oauthuser.go, which the password   *)
(* sign-in of src/espuser/legacyauth shares).  A flow holds one upstream   *)
(* leg at a time; a user is looked up by each verified contact through an  *)
(* index of the users' table, completed with the other, or created.        *)
(***************************************************************************)
EXTENDS Naturals, FiniteSets, TLC

CONSTANTS
    Provider,       \* upstream providers, enabled and allowed to the client
    PasswordProvider,   \* the one of them that takes passwords
    Account,        \* accounts of people at the providers
    Mail, Phone,    \* their contacts
    NoContact,
    Flow,           \* authorization flows waiting for a sign-in
    SignInCall,     \* callbacks and password sign-ins
    OldContacts,    \* what a user who signed up earlier may have
    MaxLegs,        \* bound: upstream legs started
    MaxProfileEdits,    \* bound: contacts changed at a provider
    LookupsMayFail  \* or find the index behind the table

ASSUME FederationConstants ==
    /\ PasswordProvider \in Provider
    /\ MaxLegs \in Nat /\ MaxProfileEdits \in Nat
    /\ NoContact \notin Mail \union Phone /\ "password" \notin Flow
    /\ OldContacts \subseteq [mail : Mail \union {NoContact}, phone : Phone \union {NoContact}]
    /\ LookupsMayFail \in BOOLEAN

VARIABLES
    accounts,   \* what each provider knows of its accounts
    idMapped,   \* the providers name the user's ID
    users,      \* the users' table: from user IDs to contacts
    flows,      \* the leg each flow holds and the user it is bound to
    legs,       \* the legs started, until their code is exchanged
    signIns,    \* [SignInCall -> where the call is]
    signedIn,   \* history: the proven contacts and the user of each sign-in
    profileEdits

federationVars ==
    <<accounts, idMapped, users, flows, legs, signIns, signedIn, profileEdits>>

NoSubject == <<"none">>
NoFlow == "password"
\* createUser: a new user's ID is made up, or is the one its provider names.
UserID == {<<"made", c>> : c \in SignInCall} \union {<<"named", a>> : a \in Account}
          \union {<<"old", "user">>}
Contacts == [mail : Mail \union {NoContact}, phone : Phone \union {NoContact}]
UpstreamAccount ==
    {a \in [at : Provider, mail : Mail \union {NoContact}, mailVerified : BOOLEAN,
            phone : Phone \union {NoContact}] : a.mail = NoContact => ~a.mailVerified}

FederationInit ==
    /\ accounts \in [Account -> UpstreamAccount]
    /\ idMapped \in BOOLEAN
    /\ \/ users = [u \in {} |-> 0]
       \/ \E old \in OldContacts : users = [u \in {<<"old", "user">>} |-> old]
    /\ flows = [f \in Flow |-> [provider |-> "none", nonce |-> 0, subject |-> NoSubject]]
    /\ legs = {}
    /\ signIns = [c \in SignInCall |-> [at |-> "new"]]
    /\ signedIn = {}
    /\ profileEdits = 0

Goes(c, to) == signIns' = [signIns EXCEPT ![c] = to]
SignInEnds(c) == Goes(c, [at |-> "done"])

----------------------------------------------------------------------------
(* The leg upstream.                                                       *)

\* A leg has a nonce and a verifier of its own (one number here); its state
\* is the flow, signed: every leg of a flow has the same.
NewUpstreamLeg(f, p) == [flow |-> f, provider |-> p, nonce |-> Cardinality(legs) + 1]

SetUpstreamLeg(f, leg) ==
    flows' = [flows EXCEPT ![f].provider = leg.provider, ![f].nonce = leg.nonce]

\* It replaces the leg the flow holds, unless the flow is bound to a user.
HandleFederationStart(f, p) ==
    /\ Cardinality(legs) < MaxLegs
    /\ flows[f].subject = NoSubject
    /\ LET leg == NewUpstreamLeg(f, p) IN
       /\ legs' = legs \union {leg}
       /\ SetUpstreamLeg(f, leg)
    /\ UNCHANGED <<accounts, idMapped, users, signIns, signedIn, profileEdits>>

FlowIDFromState(leg) == leg.flow
ProviderOf(f) == flows[f].provider

\* The browser comes back from a leg, signed in there as the account.  The
\* handler reads the flow its state names, if the flow's state is the same.
HandleFederationCallback(c, leg, a) ==
    /\ signIns[c].at = "new"
    /\ leg \in legs /\ accounts[a].at = leg.provider
    /\ LET f == FlowIDFromState(leg) IN
       Goes(c, [at |-> "exchange", flow |-> f, code |-> leg, account |-> a,
                provider |-> ProviderOf(f), nonce |-> flows[f].nonce])
    /\ UNCHANGED <<accounts, idMapped, users, flows, legs, signedIn, profileEdits>>

\* VerifiedContacts: a contact the provider has not verified is left out.
\* Mutant: all contacts count.
AllContacts(a) == [mail |-> accounts[a].mail, phone |-> accounts[a].phone]
VerifiedContacts(a) ==
    [mail |-> IF accounts[a].mailVerified THEN accounts[a].mail ELSE NoContact,
     phone |-> accounts[a].phone]

\* History: what the provider vouches for when the sign-in is made.
Proven(a) ==
    {<<"mail", m>> : m \in {m \in Mail : accounts[a].mail = m /\ accounts[a].mailVerified}}
    \union {<<"phone", n>> : n \in Phone \intersect {accounts[a].phone}}

\* Where a call that knows its account goes on, or ends without a contact.
LooksUp(c, a, f) ==
    LET known == VerifiedContacts(a) IN
    IF known = [mail |-> NoContact, phone |-> NoContact]
    THEN SignInEnds(c)
    ELSE Goes(c, [at |-> "mail", flow |-> f, account |-> a, known |-> known,
                  proven |-> Proven(a)])

\* The provider the flow names exchanges the code if it was issued there for
\* the flow's verifier.
Exchanged(call) == call.code.provider = call.provider /\ call.code.nonce = call.nonce

\* HandleCallback; the exchange may fail, too.
ExchangeCode(c) ==
    /\ signIns[c].at = "exchange"
    /\ LET call == signIns[c] IN
       \/ /\ Exchanged(call)
          /\ LooksUp(c, call.account, call.flow)
       \/ SignInEnds(c)
    /\ UNCHANGED <<accounts, idMapped, users, flows, legs, signedIn, profileEdits>>

TakesPasswords(p) == p = PasswordProvider

SigninWithPassword(c, a) ==
    /\ signIns[c].at = "new"
    /\ TakesPasswords(accounts[a].at)
    /\ LooksUp(c, a, NoFlow)
    /\ UNCHANGED <<accounts, idMapped, users, flows, legs, signedIn, profileEdits>>

\* A contact is changed at the provider; the account keeps its ID.
ProfileEdited(a) ==
    /\ profileEdits < MaxProfileEdits
    /\ \E to \in UpstreamAccount :
          /\ to.at = accounts[a].at /\ to # accounts[a]
          /\ accounts' = [accounts EXCEPT ![a] = to]
    /\ profileEdits' = profileEdits + 1
    /\ UNCHANGED <<idMapped, users, flows, legs, signIns, signedIn>>

----------------------------------------------------------------------------
(* ResolveOrCreateUserByContacts                                           *)

NotFound == [id |-> NoSubject, mail |-> NoContact, phone |-> NoContact]
\* queryOneByIndexedAttr: one row that has the contact.
RowsWith(attr, contact) ==
    {[id |-> u, mail |-> users[u].mail, phone |-> users[u].phone] :
        u \in {v \in DOMAIN users : users[v][attr] = contact}}
\* lookupContact: an error counts as not found, and an index that lags behind
\* the table does not find the row either.
LookupContact(attr, contact) ==
    IF contact = NoContact THEN {NotFound}
    ELSE IF RowsWith(attr, contact) = {} \/ LookupsMayFail
         THEN RowsWith(attr, contact) \union {NotFound}
         ELSE RowsWith(attr, contact)

LookupByMail(c) ==
    /\ signIns[c].at = "mail"
    /\ \E row \in LookupContact("mail", signIns[c].known.mail) :
          Goes(c, [at |-> "phone", flow |-> signIns[c].flow, account |-> signIns[c].account,
                   known |-> signIns[c].known, proven |-> signIns[c].proven, byMail |-> row])
    /\ UNCHANGED <<accounts, idMapped, users, flows, legs, signedIn, profileEdits>>

\* The row found by mail goes before the one found by phone; different users
\* end the call.
Resolved(c, row) ==
    Goes(c, [at |-> "resolved", flow |-> signIns[c].flow, account |-> signIns[c].account,
             known |-> signIns[c].known, proven |-> signIns[c].proven, row |-> row])
LookupByPhone(c) ==
    /\ signIns[c].at = "phone"
    /\ \E row \in LookupContact("phone", signIns[c].known.phone) :
          LET byMail == signIns[c].byMail IN
          IF byMail # NotFound /\ row # NotFound /\ byMail.id # row.id
          THEN SignInEnds(c)
          ELSE Resolved(c, IF byMail # NotFound THEN byMail ELSE row)
    /\ UNCHANGED <<accounts, idMapped, users, flows, legs, signedIn, profileEdits>>

SignedIn(c, u) ==
    Goes(c, [at |-> "complete", flow |-> signIns[c].flow, proven |-> signIns[c].proven,
             subject |-> u])

\* The contacts the row lacks, of those the sign-in knows.
Missing(c) ==
    LET row == signIns[c].row IN
    [mail |-> IF row.mail = NoContact THEN signIns[c].known.mail ELSE NoContact,
     phone |-> IF row.phone = NoContact THEN signIns[c].known.phone ELSE NoContact]

StillLacks(u, add) == \A attr \in {"mail", "phone"} :
    add[attr] # NoContact => users[u][attr] = NoContact
RecordVerifiedContacts(c) ==
    /\ signIns[c].at = "resolved" /\ signIns[c].row # NotFound
    /\ LET u == signIns[c].row.id
           add == Missing(c)
       IN
       IF StillLacks(u, add)
       THEN /\ users' = [users EXCEPT ![u] =
                   [attr \in {"mail", "phone"} |->
                       IF add[attr] # NoContact THEN add[attr] ELSE users[u][attr]]]
            /\ SignedIn(c, u)
       ELSE SignInEnds(c) /\ UNCHANGED users
    /\ UNCHANGED <<accounts, idMapped, flows, legs, signedIn, profileEdits>>

IdIsFree(u) == u \notin DOMAIN users
NewUserID(c) == IF idMapped THEN <<"named", signIns[c].account>> ELSE <<"made", c>>
CreateUser(c) ==
    /\ signIns[c].at = "resolved" /\ signIns[c].row = NotFound
    /\ LET u == NewUserID(c) IN
       IF IdIsFree(u)
       THEN /\ users' = [v \in DOMAIN users \union {u} |->
                            IF v = u THEN signIns[c].known ELSE users[v]]
            /\ SignedIn(c, u)
       ELSE SignInEnds(c) /\ UNCHANGED users
    /\ UNCHANGED <<accounts, idMapped, flows, legs, signedIn, profileEdits>>

----------------------------------------------------------------------------

\* CompleteStartedAuthFlow binds the flow, if no other sign-in did; tokens of a
\* password sign-in are minted at once (LoginSessions has what follows).
Completes(c) ==
    /\ signIns[c].at = "complete"
    /\ LET call == signIns[c] IN
       \/ /\ call.flow = NoFlow
          /\ UNCHANGED flows
          /\ signedIn' = signedIn \union {[proven |-> call.proven, subject |-> call.subject]}
       \/ /\ call.flow # NoFlow /\ flows[call.flow].subject = NoSubject
          /\ flows' = [flows EXCEPT ![call.flow].subject = call.subject]
          /\ signedIn' = signedIn \union {[proven |-> call.proven, subject |-> call.subject]}
       \/ /\ call.flow # NoFlow /\ flows[call.flow].subject # NoSubject
          /\ UNCHANGED <<flows, signedIn>>
    /\ SignInEnds(c)
    /\ UNCHANGED <<accounts, idMapped, users, legs, profileEdits>>

FederationNext ==
    \/ \E f \in Flow, p \in Provider : HandleFederationStart(f, p)
    \/ \E c \in SignInCall, leg \in legs, a \in Account : HandleFederationCallback(c, leg, a)
    \/ \E c \in SignInCall, a \in Account : SigninWithPassword(c, a)
    \/ \E c \in SignInCall :
          \/ ExchangeCode(c) \/ LookupByMail(c) \/ LookupByPhone(c)
          \/ RecordVerifiedContacts(c) \/ CreateUser(c) \/ Completes(c)
    \/ \E a \in Account : ProfileEdited(a)

FederationSpec == FederationInit /\ [][FederationNext]_federationVars

----------------------------------------------------------------------------

\* Types, and what each call holds while it is under way.
FederationTypeOK ==
    /\ accounts \in [Account -> UpstreamAccount]
    /\ DOMAIN users \subseteq UserID
    /\ \A u \in DOMAIN users : users[u] \in Contacts
    /\ \A f \in Flow : flows[f].subject \in DOMAIN users \union {NoSubject}
    /\ \A leg \in legs : leg.flow \in Flow /\ leg.provider \in Provider
    /\ \A c \in SignInCall : signIns[c].at \in
          {"new", "exchange", "mail", "phone", "resolved", "complete", "done"}

\* Whoever signs in becomes a user who has one of the contacts that the
\* provider had verified for them: never by a contact only claimed there, and
\* not either when a contact was recorded on the user or changed upstream
\* between the lookup and the end of the sign-in.
SignedInByContact ==
    \A s \in signedIn :
        \E attr \in {"mail", "phone"} : <<attr, users[s.subject][attr]>> \in s.proven

\* No sign-in changes a contact a user already has, whatever other sign-ins
\* recorded since it looked the user up and whatever ID its provider names.
ContactsAreKept ==
    [][\A u \in DOMAIN users : \A attr \in {"mail", "phone"} :
          users[u][attr] # NoContact => users'[u][attr] = users[u][attr]]_federationVars

=============================================================================
