--------------------------- MODULE Organisations ---------------------------
(***************************************************************************)
(* Organisations, members and invites: cloud_handlers.go, the Clerk        *)
(* webhook (webhook_handler.go) and OrgAuthz (middleware/auth.go) over     *)
(* storage/cloud_store.go.  Each request is a goroutine; a step is one     *)
(* statement, and what a handler has read is old when it writes.           *)
(***************************************************************************)
EXTENDS Integers, FiniteSets

CONSTANTS
    Orgs,         \* ids CreateOrganization can hand out
    Users,        \* Clerk users
    Invites,      \* invite tokens
    Tasks,        \* requests that run at the same time
    GivenRoles,   \* roles asked for in invites and role changes
    None,         \* "no organisation", "no user", "no invite", "no role"
    MaxRequests,  \* bound: requests in all
    MaxFaults     \* bound: failed statements and cancelled requests

ASSUME RolesAssumption == GivenRoles \subseteq {"admin", "developer", "viewer"}
ASSUME NoneAssumption ==
    None \notin Orgs \cup Users \cup Invites \cup {"owner", "admin", "developer", "viewer"}
ASSUME BoundsAssumption == MaxRequests \in Nat /\ MaxFaults \in Nat

VARIABLES
    org,         \* organizations: created_by and whether live or deleted
    member,      \* org_members: role and whether active; role None is no row
    project,     \* organisations that have a project
    invite,      \* invites: organisation, role, state and who accepted
    task,        \* per request: next step and what it has read
    requests, faults,
    joined,      \* history: who became a member by which invite
    gone,        \* history: users Clerk has deleted
    overlapped   \* history: users who onboarded twice at once

tables == <<org, member, project, invite>>
history == <<joined, gone, overlapped>>
vars == <<tables, task, requests, faults, history>>

roleLevel == [r \in {"owner", "admin", "developer", "viewer"} |->
    CASE r = "owner" -> 4 [] r = "admin" -> 3 [] r = "developer" -> 2 [] r = "viewer" -> 1]

Idle == [step |-> "idle", user |-> None, org |-> None, target |-> None,
         role |-> None, invite |-> None]
NoMember == [role |-> None, active |-> FALSE]
NoInvite == [org |-> None, role |-> None, state |-> "none", by |-> None]

Init ==
    /\ org = [o \in Orgs |-> [by |-> None, state |-> "none"]]
    /\ member = [o \in Orgs |-> [u \in Users |-> NoMember]]
    /\ project = {}
    /\ invite = [v \in Invites |-> NoInvite]
    /\ task = [t \in Tasks |-> Idle]
    /\ requests = 0 /\ faults = 0
    /\ joined = {} /\ gone = {} /\ overlapped = {}

At(t, step) == task[t].step = step
Goto(t, step) == task' = [task EXCEPT ![t].step = step]
Finish(t) == task' = [task EXCEPT ![t] = Idle]
-----------------------------------------------------------------------------
\* Reads of the store.
GetOrgMember(o, u) == IF member[o][u].active THEN member[o][u].role ELSE None
CountActiveOwners(o) == Cardinality({u \in Users : GetOrgMember(o, u) = "owner"})

\* Faulty variant of GetOrganizationsForUser: deleted organisations only.
GetDeletedOrganizationsForUser(u) ==
    {o \in Orgs : org[o].state = "deleted" /\ member[o][u].active}

GetOrganizationsForUser(u) ==
    {o \in Orgs : org[o].state = "live" /\ member[o][u].active}

\* Writes of the store, one statement or transaction each.
CreateOrganization(o, u) ==
    /\ org[o].state = "none"
    /\ org' = [org EXCEPT ![o] = [by |-> u, state |-> "live"]]

\* ON CONFLICT: a former member comes back with the new role.
AddOrgMember(o, u, r) == member' = [member EXCEPT ![o][u] = [role |-> r, active |-> TRUE]]

\* No row to update is an error or nil, and changes nothing.
UpdateOrgMemberRole(o, u, r) ==
    member' = IF member[o][u].active THEN [member EXCEPT ![o][u].role = r] ELSE member

\* Faulty variant of RemoveOrgMember: the role is cleared and the row left.
RemoveRole(o, u) == member' = [member EXCEPT ![o][u].role = None]

RemoveOrgMember(o, u) == member' = [member EXCEPT ![o][u].active = FALSE]

\* All the user's memberships at once, the last owner's too.
DeleteClerkUser(u) ==
    member' = [o \in Orgs |-> [member[o] EXCEPT ![u].active = FALSE]]

\* Faulty variant of StoreAcceptInvite: without AND accepted_at IS NULL.
StoreAcceptInviteAgain(v, u) ==
    /\ invite[v].state \in {"pending", "accepted"}
    /\ invite' = [invite EXCEPT ![v].state = "accepted", ![v].by = u]

\* WHERE ... deleted_at IS NULL AND accepted_at IS NULL.
StoreAcceptInvite(v, u) ==
    /\ invite[v].state = "pending"
    /\ invite' = [invite EXCEPT ![v].state = "accepted", ![v].by = u]

\* Faulty variant of EnsureProjectForOrg: looks, and does not insert.
EnsureProjectSkipped(o) == project \subseteq {o} /\ UNCHANGED project

\* Every cloud project is inserted with api_key '', and that column is UNIQUE
\* (001_init.sql:17): only one can exist.
EnsureProjectForOrg(o) ==
    /\ project \subseteq {o}
    /\ project' = project \cup {o}
-----------------------------------------------------------------------------
\* A request arrives; OrgAuthz reads the caller's role once, here.
Request(t, next) ==
    /\ At(t, "idle")
    /\ requests < MaxRequests
    /\ requests' = requests + 1
    /\ task' = [task EXCEPT ![t] = next]

OrgAuthz(o, u, minRole) ==
    /\ GetOrgMember(o, u) # None
    /\ roleLevel[GetOrgMember(o, u)] >= roleLevel[minRole]

\* A statement fails, or the request's context ends: nothing is undone.
Abandon(t) ==
    /\ ~At(t, "idle")
    /\ faults < MaxFaults
    /\ faults' = faults + 1
    /\ Finish(t)
    /\ UNCHANGED <<tables, requests, history>>

\* Onboarding: an organisation if there is one; else create, own, project.
Onboarding(t, u) ==
    /\ GetOrganizationsForUser(u) = {}
    /\ Request(t, [Idle EXCEPT !.step = "createOrg", !.user = u])
    /\ overlapped' = IF \E s \in Tasks :
                          task[s].step \in {"createOrg", "addOwner"} /\ task[s].user = u
                     THEN overlapped \cup {u} ELSE overlapped
    /\ UNCHANGED <<tables, faults, joined, gone>>

OnboardCreate(t, o) ==
    /\ At(t, "createOrg")
    /\ CreateOrganization(o, task[t].user)
    /\ task' = [task EXCEPT ![t].step = "addOwner", ![t].org = o]
    /\ UNCHANGED <<member, project, invite, requests, faults, history>>

OnboardOwner(t) ==
    /\ At(t, "addOwner")
    /\ AddOrgMember(task[t].org, task[t].user, "owner")
    /\ Goto(t, "project")
    /\ UNCHANGED <<org, project, invite, requests, faults, history>>

\* The request ends with an error when the INSERT meets another's api_key.
OnboardProject(t) ==
    /\ At(t, "project")
    /\ \/ EnsureProjectForOrg(task[t].org)
       \/ ~(project \subseteq {task[t].org}) /\ UNCHANGED project
    /\ Finish(t)
    /\ UNCHANGED <<org, member, invite, requests, faults, history>>

\* DeleteOrganization: members, project, keys and invites stay.
DeleteOrganization(t, u, o) ==
    /\ OrgAuthz(o, u, "owner")
    /\ org[o].state = "live"
    /\ Request(t, [Idle EXCEPT !.step = "deleteOrg", !.user = u, !.org = o])
    /\ UNCHANGED <<tables, faults, history>>

SoftDeleteOrganization(t) ==
    /\ At(t, "deleteOrg")
    /\ org' = [org EXCEPT ![task[t].org].state = "deleted"]
    /\ Finish(t)
    /\ UNCHANGED <<member, project, invite, requests, faults, history>>
-----------------------------------------------------------------------------
\* Faulty variant of MayUpdate: the target's role is not looked at.
MayUpdateAnyone(o, x) == GetOrgMember(o, x) # None

\* "Cannot change the owner's role."
MayUpdate(o, x) == GetOrgMember(o, x) \notin {None, "owner"}

\* UpdateMember and RemoveMember: authorisation first, then the target is read,
\* then written.
MemberRequest(t, u, o, x, r, step) ==
    /\ OrgAuthz(o, u, "admin")
    /\ Request(t, [Idle EXCEPT !.step = step, !.user = u, !.org = o, !.target = x, !.role = r])
    /\ UNCHANGED <<tables, faults, history>>

UpdateMember(t, u, o, x, r) == MemberRequest(t, u, o, x, r, "updateCheck")
RemoveMember(t, u, o, x) == MemberRequest(t, u, o, x, None, "removeCheck")

CheckTarget(t) ==
    LET o == task[t].org
        role == GetOrgMember(o, task[t].target)
    IN
    /\ \/ At(t, "updateCheck") /\ (IF MayUpdate(o, task[t].target) THEN Goto(t, "update") ELSE Finish(t))
       \/ At(t, "removeCheck") /\ role = None /\ Finish(t)
       \/ At(t, "removeCheck") /\ role # None /\ Goto(t, IF role = "owner" THEN "owners" ELSE "remove")
    /\ UNCHANGED <<tables, requests, faults, history>>

\* "Prevent removing the owner if they are the last one": a query of its own.
CountOwners(t) ==
    /\ At(t, "owners")
    /\ IF CountActiveOwners(task[t].org) <= 1 THEN Finish(t) ELSE Goto(t, "remove")
    /\ UNCHANGED <<tables, requests, faults, history>>

WriteTarget(t) ==
    /\ \/ At(t, "update") /\ UpdateOrgMemberRole(task[t].org, task[t].target, task[t].role)
       \/ At(t, "remove") /\ RemoveOrgMember(task[t].org, task[t].target)
    /\ Finish(t)
    /\ UNCHANGED <<org, project, invite, requests, faults, history>>

\* handleUserDeleted: Clerk deletes the user; a session may outlive it.
UserDeleted(u) ==
    /\ u \notin gone
    /\ DeleteClerkUser(u)
    /\ gone' = gone \cup {u}
    /\ UNCHANGED <<org, project, invite, task, requests, faults, joined, overlapped>>
-----------------------------------------------------------------------------
\* CreateInvite: its only statement inserts the row.
CreateInvite(t, u, o, v, r) ==
    /\ OrgAuthz(o, u, "admin")
    /\ invite[v] = NoInvite
    /\ Request(t, [Idle EXCEPT !.step = "insertInvite", !.org = o, !.invite = v, !.role = r])
    /\ UNCHANGED <<tables, faults, history>>

InsertInvite(t) ==
    LET v == task[t].invite IN
    /\ At(t, "insertInvite")
    /\ invite' = IF invite[v] = NoInvite
                 THEN [invite EXCEPT ![v] = [org |-> task[t].org, role |-> task[t].role,
                                             state |-> "pending", by |-> None]]
                 ELSE invite
    /\ Finish(t)
    /\ UNCHANGED <<org, member, project, requests, faults, history>>

\* RevokeInvite: an accepted invite can be revoked too, without effect on the
\* member.
RevokeInvite(t, u, v) ==
    /\ invite[v].state \in {"pending", "accepted"}
    /\ OrgAuthz(invite[v].org, u, "admin")
    /\ Request(t, [Idle EXCEPT !.step = "revoke", !.invite = v])
    /\ UNCHANGED <<tables, faults, history>>

StoreRevokeInvite(t) ==
    /\ At(t, "revoke")
    /\ invite' = [invite EXCEPT ![task[t].invite].state = "revoked"]
    /\ Finish(t)
    /\ UNCHANGED <<org, member, project, requests, faults, history>>

\* AcceptInvite: the invite is read and must be pending; an expired one is
\* answered 410.
AcceptInvite(t, u, v) ==
    /\ invite[v].state = "pending"
    /\ Request(t, [Idle EXCEPT !.step = "notMember", !.user = u, !.invite = v,
                     !.org = invite[v].org, !.role = invite[v].role])
    /\ UNCHANGED <<tables, faults, history>>

CheckNotMember(t) ==
    /\ At(t, "notMember")
    /\ IF GetOrgMember(task[t].org, task[t].user) = None THEN Goto(t, "accept") ELSE Finish(t)
    /\ UNCHANGED <<tables, requests, faults, history>>

\* No row updated: 500.
MarkAccepted(t) ==
    /\ At(t, "accept")
    /\ \/ StoreAcceptInvite(task[t].invite, task[t].user) /\ Goto(t, "join")
       \/ invite[task[t].invite].state # "pending" /\ Finish(t) /\ UNCHANGED invite
    /\ UNCHANGED <<org, member, project, requests, faults, history>>

Join(t) ==
    /\ At(t, "join")
    /\ AddOrgMember(task[t].org, task[t].user, task[t].role)
    /\ joined' = joined \cup {<<task[t].invite, task[t].user>>}
    /\ Finish(t)
    /\ UNCHANGED <<org, project, invite, requests, faults, gone, overlapped>>
-----------------------------------------------------------------------------
TaskStep(t) ==
    \/ \E o \in Orgs : OnboardCreate(t, o)
    \/ OnboardOwner(t) \/ OnboardProject(t) \/ SoftDeleteOrganization(t)
    \/ CheckTarget(t) \/ CountOwners(t) \/ WriteTarget(t)
    \/ InsertInvite(t) \/ StoreRevokeInvite(t)
    \/ CheckNotMember(t) \/ MarkAccepted(t) \/ Join(t)

Arrival(t, u) ==
    \/ Onboarding(t, u)
    \/ \E o \in Orgs :
          \/ DeleteOrganization(t, u, o)
          \/ \E x \in Users : RemoveMember(t, u, o, x)
          \/ \E x \in Users, r \in GivenRoles : UpdateMember(t, u, o, x, r)
          \/ \E v \in Invites, r \in GivenRoles : CreateInvite(t, u, o, v, r)
    \/ \E v \in Invites : RevokeInvite(t, u, v) \/ AcceptInvite(t, u, v)

Next ==
    \/ \E t \in Tasks : TaskStep(t) \/ Abandon(t) \/ \E u \in Users : Arrival(t, u)
    \/ \E u \in Users : UserDeleted(u)

Spec == Init /\ [][Next]_vars
-----------------------------------------------------------------------------
Roles == DOMAIN roleLevel

TypeOK ==
    /\ org \in [Orgs -> [by : Users \cup {None}, state : {"none", "live", "deleted"}]]
    /\ member \in [Orgs -> [Users -> [role : Roles \cup {None}, active : BOOLEAN]]]
    /\ \A o \in Orgs, u \in Users : member[o][u].active => member[o][u].role # None
    /\ project \subseteq Orgs
    /\ \A v \in Invites : invite[v].state \in {"none", "pending", "accepted", "revoked"}
    /\ joined \subseteq Invites \X Users /\ gone \subseteq Users /\ overlapped \subseteq Users

InProgress(o, steps) == \E t \in Tasks : task[t].step \in steps /\ task[t].org = o

\* "Only the org creator holds it" and "the last owner cannot be removed"
\* (CLOUD_API.md:54-56), through every interleaving of role changes, removals
\* and invites that revive former members: the owner is the creator, and an
\* organisation that has had one loses it only when Clerk deletes that user.
OwnerStays ==
    \A o \in Orgs :
        /\ \A u \in Users : GetOrgMember(o, u) = "owner" => u = org[o].by
        /\ org[o].by # None /\ org[o].by \notin gone /\ faults = 0
              => \/ GetOrgMember(o, org[o].by) = "owner"
                 \/ InProgress(o, {"addOwner"})

\* An invite makes one member, the one recorded as accepting it, however many
\* accept it at once; and it is used up without a member only when the request
\* broke off between the two statements.
InviteUsedOnce ==
    \A v \in Invites :
        /\ \A u \in Users : <<v, u>> \in joined => invite[v].by = u
        /\ invite[v].by # None /\ faults = 0
              => \/ <<v, invite[v].by>> \in joined
                 \/ \E t \in Tasks : At(t, "join") /\ task[t].invite = v

\* A user comes to own two organisations only by onboarding twice at once: the
\* hole in "Idempotent: if the user already has an org, returns their existing
\* org" (cloud_handlers.go:64).
DoubleOnboardingExplained ==
    \A u \in Users :
        Cardinality({o \in Orgs : org[o].state = "live" /\ GetOrgMember(o, u) = "owner"}) > 1
            => u \in overlapped

\* An organisation that was onboarded is without a project only if its request
\* broke off or another organisation already has one.
ProjectlessExplained ==
    \A o \in Orgs :
        org[o].by # None /\ faults = 0 /\ ~InProgress(o, {"addOwner", "project"})
            => o \in project \/ project # {}
=============================================================================
