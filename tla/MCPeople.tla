------------------------------ MODULE MCPeople ------------------------------
(* One account and its sessions, or one workspace and its members: each    *)
(* behaviour follows one of the two, and the other stays where it began.   *)
EXTENDS Sessions, Membership, TLC

CONSTANTS p1, p2, ann, bob, cid, w1, w2

VARIABLE focus

vars == <<sessionVars, memberVars, focus>>

TwoProcs   == {p1, p2}
Addresses  == {ann, bob, cid}
TwoWorkers == {w1, w2}

Alike == Permutations(Addresses)

Init == SessionsInit /\ MembershipInit /\ focus \in {"account", "workspace"}

Next ==
  \/ focus = "account" /\ SessionsNext /\ UNCHANGED <<memberVars, focus>>
  \/ focus = "workspace" /\ MembershipNext /\ UNCHANGED <<sessionVars, focus>>

Spec == Init /\ [][Next]_vars

\* Every row and every request of both modules has its type, and no two users
\* share an address.
PeopleTypeOK == SessionsTypeOK /\ MembershipTypeOK

\* What is checked and used in separate commits goes past its limit by no more
\* than the requests in flight: attempts, reset links, seats.
LimitsHold == GuessesAreBounded /\ ResetLinkIsSpent /\ SeatsAreBounded

\* Who belongs to a workspace was invited to it, and who accepted belongs to it.
MembersAreInvited == AcceptedIsMember /\ StaffIsInvited
=============================================================================
