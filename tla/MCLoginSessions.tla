-------------------------- MODULE MCLoginSessions --------------------------
(***************************************************************************)
(* Instances of LoginSessions for TLC.  Identifiers are drawn at random    *)
(* and requests are alike, so all of them are symmetric.                   *)
(***************************************************************************)
EXTENDS LoginSessions, TLC

Symmetric ==
    Permutations(Request) \union Permutations(Hash) \union
    Permutations(Sid) \union Permutations(Family) \union Permutations(Flow)

\* Two corners of one instance, explored side by side: codes redeemed for
\* several families through one session row, and several session rows over
\* one family without a code.
Redeeming ==
    /\ Cardinality({h \in Hash : session[h] # NoSession}) <= 1
    /\ \A f \in Family : rotations[f] = 0
SigningOut ==
    /\ Cardinality({f \in Family : family[f] # UnbornFamily}) <= 1
    /\ \A x \in Flow : flow[x] = NoFlowRow
CodesOrSignOuts == Redeeming \/ SigningOut
===========================================================================
