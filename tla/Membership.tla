----------------------------- MODULE Membership -----------------------------
(***************************************************************************)
(* Who belongs to a workspace: signup (app/auth/service.py), invitations   *)
(* (app/invitations), the seat limit (app/billing/entitlements.py), team   *)
(* management (app/users) and the deletion of a workspace (app/privacy).   *)
(*                                                                         *)
(* A request is a series of commits; what it has read stays true for it    *)
(* until it reads again.  users.email is unique, and so is the workspace   *)
(* of a subscription: an insert that clashes ends its request with a 500   *)
(* and leaves what the request has committed before.                       *)
(***************************************************************************)
EXTENDS Integers, FiniteSets

CONSTANTS
  Tenants,  \* workspaces that may be created
  Emails,   \* addresses people sign up with or are invited at
  MaxInvites, \* bound: rows of invitations
  Workers,  \* request threads
  Seats     \* the plan's seat limit

ASSUME MembershipAssumption ==
  /\ IsFiniteSet(Workers) /\ Workers # {}
  /\ MaxInvites \in Nat /\ Seats \in Nat \ {0}

VARIABLES
  tenants,     \* status of each workspace
  users,       \* rows of users
  invitations, \* rows of invitations
  plans,       \* how each workspace stands with billing
  deletions,   \* rows of workspace_deletions, by workspace
  job          \* what each thread is doing

memberVars == <<tenants, users, invitations, plans, deletions, job>>

\* Tenant.status; a workspace of app/auth/service.py starts active.
TenantStates == {"none", "active", "purged"}

\* users: role and is_active, and the row's own address.
Member == [email : Emails, tenant : Tenants, role : {"Owner", "Staff"}, active : BOOLEAN]

\* Rows of invitations, in the order they are created.
Invites == 1..MaxInvites

\* invitations.status, which knows no "expired": that is read off expires_at.
InviteRow == [status : {"pending", "accepted", "revoked"},
              email : Emails, tenant : Tenants, expired : BOOLEAN]

\* subscriptions, as far as seats and access read it: no row, an app trial, a plan
\* that is paid, a grandfathered row, or a trial or plan that is over.
Plans == {"none", "trial", "paid", "legacy", "over"}

\* _status() of the row: "active" is no row or a cancelled one.
Deletion == {"active", "requested", "eligible", "purged"}

NoInvite == [status |-> "none"]

Resting == [step |-> "idle"]

MembershipTypeOK ==
  /\ tenants \in [Tenants -> TenantStates]
  /\ users \subseteq Member
  /\ \A i \in Invites : invitations[i] \in InviteRow \cup {NoInvite}
  /\ plans \in [Tenants -> Plans]
  /\ deletions \in [Tenants -> Deletion]
  /\ \A u, v \in users : u.email = v.email => u = v

MembershipInit ==
  /\ tenants = [t \in Tenants |-> "none"]
  /\ users = {}
  /\ invitations = [i \in Invites |-> NoInvite]
  /\ plans = [t \in Tenants |-> "none"]
  /\ deletions = [t \in Tenants |-> "active"]
  /\ job = [w \in Workers |-> Resting]

Turn(w, next) == job' = [job EXCEPT ![w] = next]
On(w, step)   == job[w].step = step

EmailTaken(e) == \E u \in users : u.email = e

\* Mutant: addresses are not unique.
AddUserAgain(e, t, role) ==
  users' = users \cup {[email |-> e, tenant |-> t, role |-> role, active |-> TRUE]}

\* crud.create_user(): refused by the unique address.
AddUser(e, t, role) ==
  /\ ~EmailTaken(e)
  /\ users' = users \cup {[email |-> e, tenant |-> t, role |-> role, active |-> TRUE]}

\* has_active_billing_access()
HasPlan(t) == plans[t] \in {"trial", "paid", "legacy"}

\* require_role_and_billing(OWNER): who may act for a workspace.
ActsFor(u, t) == u \in users /\ u.tenant = t /\ u.role = "Owner" /\ u.active /\ HasPlan(t)

-----------------------------------------------------------------------------
(* signup(): address, workspace, user and trial, a commit each.            *)
SignupCheck(w, e) ==
  /\ On(w, "idle")
  /\ ~EmailTaken(e)
  /\ Turn(w, [step |-> "signup", email |-> e])
  /\ UNCHANGED <<tenants, users, invitations, plans, deletions>>

SignupTenant(w, t) ==
  /\ On(w, "signup")
  /\ tenants[t] = "none"
  /\ tenants' = [tenants EXCEPT ![t] = "active"]
  /\ Turn(w, [step |-> "signupUser", email |-> job[w].email, tenant |-> t])
  /\ UNCHANGED <<users, invitations, plans, deletions>>

\* Mutant: the role is left to create_user()'s default.
SignupStaff(w) ==
  /\ On(w, "signupUser")
  /\ AddUser(job[w].email, job[w].tenant, "Staff")
  /\ Turn(w, [step |-> "signupTrial", tenant |-> job[w].tenant])
  /\ UNCHANGED <<tenants, invitations, plans, deletions>>

SignupUser(w) ==
  /\ On(w, "signupUser")
  /\ AddUser(job[w].email, job[w].tenant, "Owner")
  /\ Turn(w, [step |-> "signupTrial", tenant |-> job[w].tenant])
  /\ UNCHANGED <<tenants, invitations, plans, deletions>>

\* The address was taken meanwhile: the workspace stays behind.
SignupClash(w) ==
  /\ On(w, "signupUser")
  /\ EmailTaken(job[w].email)
  /\ Turn(w, Resting)
  /\ UNCHANGED <<tenants, users, invitations, plans, deletions>>

\* start_trial_if_eligible()
SignupTrial(w) ==
  /\ On(w, "signupTrial")
  /\ plans' = [plans EXCEPT ![job[w].tenant] = IF @ = "none" THEN "trial" ELSE @]
  /\ Turn(w, Resting)
  /\ UNCHANGED <<tenants, users, invitations, deletions>>

\* What Stripe and the clock do to a plan; Billing has the detail.
PlanMoves(t) ==
  /\ tenants[t] = "active"
  /\ \/ /\ plans[t] \in {"trial", "over"}
        /\ plans' = [plans EXCEPT ![t] = "paid"]
     \/ /\ plans[t] \in {"trial", "paid"}
        /\ plans' = [plans EXCEPT ![t] = "over"]
  /\ UNCHANGED <<tenants, users, invitations, deletions, job>>

-----------------------------------------------------------------------------
(* Inviting: require_seat_available, then create_invitation().             *)
Pending(i) == invitations[i].status = "pending"

\* Every user counts, a deactivated one too, and every pending row, an expired one too.
SeatsTaken(t) ==
  Cardinality({u \in users : u.tenant = t})
    + Cardinality({i \in Invites : Pending(i) /\ invitations[i].tenant = t})

\* A workspace without a plan is unmetered here; an expired trial is refused.
SeatAvailable(t) == SeatsTaken(t) < Seats

InviteAdmit(w, t, e) ==
  /\ On(w, "idle")
  /\ \E u \in users : ActsFor(u, t)
  /\ SeatAvailable(t)
  /\ Turn(w, [step |-> "inviteLookup", tenant |-> t, email |-> e])
  /\ UNCHANGED <<tenants, users, invitations, plans, deletions>>

\* The address is nobody's and has no pending row here.
InviteLookup(w) ==
  /\ On(w, "inviteLookup")
  /\ Turn(w, IF \/ EmailTaken(job[w].email)
                \/ \E i \in Invites : Pending(i) /\ invitations[i].email = job[w].email
                                        /\ invitations[i].tenant = job[w].tenant
             THEN Resting ELSE [job[w] EXCEPT !.step = "inviteInsert"])
  /\ UNCHANGED <<tenants, users, invitations, plans, deletions>>

InviteInsert(w, i) ==
  /\ On(w, "inviteInsert")
  /\ i = 1 + Cardinality({j \in Invites : invitations[j] # NoInvite})
  /\ invitations' = [invitations EXCEPT ![i] =
       [status |-> "pending", email |-> job[w].email, tenant |-> job[w].tenant, expired |-> FALSE]]
  /\ Turn(w, Resting)
  /\ UNCHANGED <<tenants, users, plans, deletions>>

InviteExpires(i) ==
  /\ Pending(i) /\ ~invitations[i].expired
  /\ invitations' = [invitations EXCEPT ![i].expired = TRUE]
  /\ UNCHANGED <<tenants, users, plans, deletions, job>>

\* revoke_invitation(): whatever the row's status.
Revoke(i) ==
  /\ invitations[i].status \notin {"none", "revoked"}
  /\ \E u \in users : ActsFor(u, invitations[i].tenant)
  /\ invitations' = [invitations EXCEPT ![i].status = "revoked"]
  /\ UNCHANGED <<tenants, users, plans, deletions, job>>

-----------------------------------------------------------------------------
(* accept_invitation(): read, create the user, mark the row.               *)
AcceptRead(w, i) ==
  /\ On(w, "idle")
  /\ Pending(i) /\ ~invitations[i].expired
  /\ ~EmailTaken(invitations[i].email)
  /\ Turn(w, [step |-> "acceptUser", invite |-> i])
  /\ UNCHANGED <<tenants, users, invitations, plans, deletions>>

\* Mutant: the row is marked before the user is there.
AcceptMarkFirst(w) ==
  /\ On(w, "acceptUser")
  /\ invitations' = [invitations EXCEPT ![job[w].invite].status = "accepted"]
  /\ Turn(w, [job[w] EXCEPT !.step = "acceptMark"])
  /\ UNCHANGED <<tenants, users, plans, deletions>>

AcceptUser(w) ==
  /\ On(w, "acceptUser")
  /\ LET row == invitations[job[w].invite]
     IN  AddUser(row.email, row.tenant, "Staff")
  /\ Turn(w, [job[w] EXCEPT !.step = "acceptGrant"])
  /\ UNCHANGED <<tenants, invitations, plans, deletions>>

AcceptClash(w) ==
  /\ On(w, "acceptUser")
  /\ EmailTaken(invitations[job[w].invite].email)
  /\ Turn(w, Resting)
  /\ UNCHANGED <<tenants, users, invitations, plans, deletions>>

\* create_user() grandfathers a workspace that has no subscription.
AcceptGrant(w) ==
  /\ On(w, "acceptGrant")
  /\ plans' = [plans EXCEPT ![invitations[job[w].invite].tenant] = IF @ = "none" THEN "legacy" ELSE @]
  /\ Turn(w, [job[w] EXCEPT !.step = "acceptMark"])
  /\ UNCHANGED <<tenants, users, invitations, deletions>>

\* update_invitation_status(): whatever the row has become.
AcceptMark(w) ==
  /\ On(w, "acceptMark")
  /\ invitations' = [invitations EXCEPT ![job[w].invite].status = "accepted"]
  /\ Turn(w, Resting)
  /\ UNCHANGED <<tenants, users, plans, deletions>>

-----------------------------------------------------------------------------
(* Leaving: deactivation, and the deletion of a workspace.                 *)

\* Mutant: an owner may deactivate anyone.
DeactivateAny(u) ==
  /\ u.active
  /\ \E o \in users : ActsFor(o, u.tenant)
  /\ users' = (users \ {u}) \cup {[u EXCEPT !.active = FALSE]}
  /\ UNCHANGED <<tenants, invitations, plans, deletions, job>>

\* deactivate_user(): never oneself, never another workspace's.
Deactivate(u) ==
  /\ u.active
  /\ \E o \in users \ {u} : ActsFor(o, u.tenant)
  /\ users' = (users \ {u}) \cup {[u EXCEPT !.active = FALSE]}
  /\ UNCHANGED <<tenants, invitations, plans, deletions, job>>

\* request_deletion(): a row that is live is returned, one that is over replaced.
RequestDeletion(t) ==
  /\ \E u \in users : ActsFor(u, t)
  /\ deletions[t] \in {"active", "purged"}
  /\ deletions' = [deletions EXCEPT ![t] = "requested"]
  /\ UNCHANGED <<tenants, users, invitations, plans, job>>

\* Thirty days go by.
RecoveryEnds(t) ==
  /\ deletions[t] = "requested"
  /\ deletions' = [deletions EXCEPT ![t] = "eligible"]
  /\ UNCHANGED <<tenants, users, invitations, plans, job>>

\* cancel_deletion(): within the recovery period.
CancelDeletion(t) ==
  /\ \E u \in users : ActsFor(u, t)
  /\ deletions[t] = "requested"
  /\ deletions' = [deletions EXCEPT ![t] = "active"]
  /\ UNCHANGED <<tenants, users, invitations, plans, job>>

\* purge_workspace(): one commit.  The users lose their addresses (the rows leave the
\* model with them) and their access; invitations and the subscription stay.
Purge(t) ==
  /\ deletions[t] = "eligible" /\ tenants[t] # "none"
  /\ deletions' = [deletions EXCEPT ![t] = "purged"]
  /\ tenants' = [tenants EXCEPT ![t] = "purged"]
  /\ users' = {u \in users : u.tenant # t}
  /\ UNCHANGED <<invitations, plans, job>>

\* The process dies with every request in it.
JobsDie ==
  /\ \E w \in Workers : ~On(w, "idle")
  /\ job' = [w \in Workers |-> Resting]
  /\ UNCHANGED <<tenants, users, invitations, plans, deletions>>

MembershipNext ==
  \/ JobsDie
  \/ \E t \in Tenants : \/ PlanMoves(t) \/ RequestDeletion(t) \/ RecoveryEnds(t)
                        \/ CancelDeletion(t) \/ Purge(t)
  \/ \E u \in users : Deactivate(u)
  \/ \E i \in Invites : InviteExpires(i) \/ Revoke(i)
  \/ \E w \in Workers :
       \/ SignupUser(w) \/ SignupClash(w) \/ SignupTrial(w) \/ InviteLookup(w)
       \/ AcceptUser(w) \/ AcceptClash(w) \/ AcceptGrant(w) \/ AcceptMark(w)
       \/ \E e \in Emails : SignupCheck(w, e) \/ \E t \in Tenants : InviteAdmit(w, t, e)
       \/ \E t \in Tenants : SignupTenant(w, t)
       \/ \E i \in Invites : InviteInsert(w, i) \/ AcceptRead(w, i)

MembershipSpec == MembershipInit /\ [][MembershipNext]_memberVars

-----------------------------------------------------------------------------
\* An invitation read as accepted has brought somebody in: its address belongs to
\* a member of its workspace, unless the workspace has been purged since.
AcceptedIsMember ==
  \A i \in Invites : invitations[i].status = "accepted" =>
    \/ \E u \in users : u.email = invitations[i].email /\ u.tenant = invitations[i].tenant
    \/ tenants[invitations[i].tenant] = "purged"

\* Nobody is staff of a workspace that did not invite their address.
StaffIsInvited ==
  \A u \in users : u.role = "Staff" =>
    \E i \in Invites : /\ invitations[i].status # "none"
                       /\ invitations[i].email = u.email
                       /\ invitations[i].tenant = u.tenant

\* The people of a workspace: its members and those it has invited.
People(t) ==
  {u.email : u \in {v \in users : v.tenant = t}}
    \cup {invitations[i].email : i \in {j \in Invites : Pending(j) /\ invitations[j].tenant = t}}

\* The seat limit is counted and the seat taken in separate commits: there may be
\* more people than seats, by at most one for each further request in flight.
SeatsAreBounded ==
  \A t \in Tenants : Cardinality(People(t)) <= Seats + Cardinality(Workers) - 1

\* The comment on the seat count: a burst of invitations cannot go past the limit.
SeatsAreKept == \A t \in Tenants : Cardinality(People(t)) <= Seats

\* A signup never leaves a workspace without a user behind, unless the process dies.
NoOrphanWorkspace ==
  \A t \in Tenants : tenants[t] = "active" =>
    \/ \E u \in users : u.tenant = t
    \/ \E w \in Workers : On(w, "signupUser") /\ job[w].tenant = t

\* A workspace with members keeps an owner who can act, until it is purged.
OwnerRemains ==
  \A t \in Tenants :
    (\E u \in users : u.tenant = t) /\ tenants[t] = "active" =>
      \E u \in users : u.tenant = t /\ u.role = "Owner" /\ u.active
=============================================================================
