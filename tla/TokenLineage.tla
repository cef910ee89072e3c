--------------------------- MODULE TokenLineage ---------------------------
(***************************************************************************)
(* What the refresh-token service promises about one login, without        *)
(* saying how: a lineage is opened once, its tokens are handed out one     *)
(* after the other, and once it has ended it never yields a token again.   *)
(* LoginSessions shows that the families table, written by concurrent      *)
(* requests, implements this.                                              *)
(***************************************************************************)
EXTENDS Naturals

CONSTANT Lineage        \* the logins that can be opened

VARIABLES
    phase,              \* [Lineage -> {"unborn", "live", "gone"}]
    latest,             \* [Lineage -> Nat], the newest token's number
    handed              \* tokens ever handed out, <<lineage, number>>

lineageVars == <<phase, latest, handed>>

LineageInit ==
    /\ phase = [x \in Lineage |-> "unborn"]
    /\ latest = [x \in Lineage |-> 0]
    /\ handed = {}

\* A login opens its lineage and receives token 0.
Open(x) ==
    /\ phase[x] = "unborn"
    /\ phase' = [phase EXCEPT ![x] = "live"]
    /\ handed' = handed \union {<<x, 0>>}
    /\ UNCHANGED latest

\* The newest token is exchanged for its one successor.
Succeed(x) ==
    /\ phase[x] = "live"
    /\ <<x, latest[x]>> \in handed
    /\ <<x, latest[x] + 1>> \notin handed
    /\ latest' = [latest EXCEPT ![x] = @ + 1]
    /\ handed' = handed \union {<<x, latest[x] + 1>>}
    /\ UNCHANGED phase

\* A lineage ends: sign-out, revocation, detected reuse or expiry.
End(x) ==
    /\ phase[x] = "live"
    /\ phase' = [phase EXCEPT ![x] = "gone"]
    /\ UNCHANGED <<latest, handed>>

LineageNext == \E x \in Lineage : Open(x) \/ Succeed(x) \/ End(x)

LineageSpec == LineageInit /\ [][LineageNext]_lineageVars

===========================================================================
