-------------------------- MODULE MCGroupSharing --------------------------
(***************************************************************************)
(* Instances of GroupSharing and GroupListing for TLC.  Nobody is          *)
(* privileged before the group is created, so users are symmetric like the *)
(* identifiers.                                                            *)
(***************************************************************************)
EXTENDS GroupListing, TLC

Symmetric ==
    Permutations(Request) \union Permutations(User) \union
    Permutations(Sub) \union Permutations(Invite)

\* A group that has been founded and one of its subgroups joined.
JoinedInit ==
    \E owner, guest \in User, i \in Invite, s \in Sub :
        /\ owner # guest
        /\ group = "live"
        /\ sub = [x \in Sub |-> "live"]
        /\ mapping = [u \in User |->
              IF u = owner THEN [access |-> "primary", subs |-> {}]
              ELSE IF u = guest THEN [access |-> "subentity", subs |-> {s}]
              ELSE Absent]
        /\ lagged = mapping
        /\ invite = [[j \in Invite |-> NoInviteRow] EXCEPT ![i] =
              [st |-> "gone", access |-> "subentity", sub |-> s, by |-> owner, to |-> Nobody]]
        /\ founder = owner
        /\ approvals = {<<guest, i>>}
        /\ work = [r \in Request |-> Idle]
JoinedSpec == JoinedInit /\ [][Next]_vars
===========================================================================
