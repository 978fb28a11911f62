------------------------ MODULE OrganisationsProofs ------------------------
(***************************************************************************)
(* Theorems about Organisations, for every set of organisations, users,    *)
(* invites and concurrent requests and for all bounds.                     *)
(***************************************************************************)
EXTENDS Organisations, FiniteSetTheorems, TLAPS

OrgSteps == {"addOwner", "project", "deleteOrg", "updateCheck", "update", "removeCheck", "owners",
             "remove", "insertInvite", "notMember", "accept", "join"}
UserSteps == {"createOrg", "addOwner", "notMember", "accept", "join"}
TargetSteps == {"updateCheck", "update", "removeCheck", "owners", "remove"}
RoleSteps == {"updateCheck", "update", "insertInvite", "notMember", "accept", "join"}
InviteSteps == {"insertInvite", "revoke", "notMember", "accept", "join"}
Steps == {"idle"} \cup OrgSteps \cup UserSteps \cup TargetSteps \cup RoleSteps \cup InviteSteps

TaskRecords == [step : Steps, user : Users \cup {None}, org : Orgs \cup {None},
                target : Users \cup {None}, role : Roles \cup {None}, invite : Invites \cup {None}]

\* What a request has read by each of its steps.
WellRead(k) ==
    /\ k.step \in OrgSteps => k.org \in Orgs
    /\ k.step \in UserSteps => k.user \in Users
    /\ k.step \in TargetSteps => k.target \in Users
    /\ k.step \in RoleSteps => k.role \in GivenRoles
    /\ k.step \in InviteSteps => k.invite \in Invites

TasksTyped ==
    /\ task \in [Tasks -> TaskRecords]
    /\ \A t \in Tasks : WellRead(task[t])

\* An invite that can be accepted names an organisation and a role that can be
\* given, and nobody has accepted it.
InvitesTyped ==
    /\ invite \in [Invites -> [org : Orgs \cup {None}, role : Roles \cup {None},
                               state : {"none", "pending", "accepted", "revoked"},
                               by : Users \cup {None}]]
    /\ \A v \in Invites :
          /\ invite[v].state = "pending" => invite[v].org \in Orgs /\ invite[v].role \in GivenRoles
          /\ invite[v].state \in {"none", "pending"} => invite[v].by = None
          /\ invite[v].state = "none" => invite[v] = NoInvite

Typed == TypeOK /\ TasksTyped /\ InvitesTyped /\ requests \in Nat /\ faults \in Nat

LEMMA RolesGiven ==
  /\ Roles = {"owner", "admin", "developer", "viewer"}
  /\ GivenRoles \subseteq Roles \ {"owner"}
  /\ None \notin Roles
  BY RolesAssumption, NoneAssumption DEF Roles, roleLevel

LEMMA InitTyped == Init => Typed
  BY RolesGiven, NoneAssumption
     DEF Init, Typed, TypeOK, TasksTyped, TaskRecords, WellRead, InvitesTyped, Idle, NoMember, NoInvite,
         OrgSteps, UserSteps, TargetSteps, RoleSteps, InviteSteps, Steps

\* What the requests hold is kept when one of them moves on.
LEMMA MoveTyped ==
  ASSUME TasksTyped, NEW t \in Tasks, NEW k \in TaskRecords, WellRead(k),
         task' = [task EXCEPT ![t] = k]
  PROVE  TasksTyped'
  BY DEF TasksTyped

LEMMA IdleTyped == Idle \in TaskRecords /\ WellRead(Idle)
  BY DEF Idle, TaskRecords, WellRead, Steps, OrgSteps, UserSteps, TargetSteps, RoleSteps, InviteSteps

LEMMA FinishTyped ==
  ASSUME TasksTyped, NEW t \in Tasks, Finish(t)
  PROVE  TasksTyped'
  BY MoveTyped, IdleTyped DEF Finish

\* A request goes on to a step that needs no more than it has read.
LEMMA GotoTyped ==
  ASSUME TasksTyped, NEW t \in Tasks, NEW s \in Steps, Goto(t, s),
         s \in OrgSteps => task[t].step \in OrgSteps,
         s \in UserSteps => task[t].step \in UserSteps,
         s \in TargetSteps => task[t].step \in TargetSteps,
         s \in RoleSteps => task[t].step \in RoleSteps,
         s \in InviteSteps => task[t].step \in InviteSteps
  PROVE  TasksTyped'
<1> DEFINE k == [task[t] EXCEPT !.step = s]
<1>1. task' = [task EXCEPT ![t] = k]
  BY DEF Goto
<1>2. k \in TaskRecords
  BY DEF TasksTyped, TaskRecords
<1>3. WellRead(k)
  BY DEF TasksTyped, TaskRecords, WellRead
<1> HIDE DEF k
<1> QED BY <1>1, <1>2, <1>3, MoveTyped

MemberRecords == [role : Roles \cup {None}, active : BOOLEAN]

MembersTyped ==
    /\ member \in [Orgs -> [Users -> MemberRecords]]
    /\ \A o \in Orgs, u \in Users : member[o][u].active => member[o][u].role # None

LEMMA MemberWrite ==
  ASSUME MembersTyped, NEW o \in Orgs, NEW u \in Users, NEW m \in MemberRecords,
         m.active => m.role # None, member' = [member EXCEPT ![o][u] = m]
  PROVE  MembersTyped'
<1>1. member' \in [Orgs -> [Users -> MemberRecords]]
  BY DEF MembersTyped
<1>2. member'[o][u] = m
  BY DEF MembersTyped
<1>3. \A p \in Orgs, x \in Users : p # o \/ x # u => member'[p][x] = member[p][x]
  BY DEF MembersTyped
<1> QED BY <1>1, <1>2, <1>3 DEF MembersTyped

LEMMA ArrivalTyped ==
  ASSUME Typed, NEW t \in Tasks, NEW u \in Users, Arrival(t, u)
  PROVE  Typed'
<1> USE RolesGiven
<1>0. TypeOK /\ TasksTyped /\ InvitesTyped /\ requests \in Nat /\ faults \in Nat
  BY DEF Typed
<1>a. ASSUME NEW k \in TaskRecords, WellRead(k), Request(t, k), UNCHANGED <<tables, faults, joined, gone>>,
             overlapped' \subseteq Users
      PROVE  Typed'
  <2>1. TasksTyped'
    BY <1>0, <1>a, MoveTyped DEF Request
  <2>2. requests' \in Nat
    BY <1>0, <1>a DEF Request
  <2> QED BY <1>0, <1>a, <2>1, <2>2 DEF tables, Typed, TypeOK, InvitesTyped
<1>b. UNCHANGED history => UNCHANGED <<joined, gone>> /\ overlapped' \subseteq Users
  BY <1>0 DEF history, TypeOK
<1> USE DEF TaskRecords, WellRead, Steps, OrgSteps, UserSteps, TargetSteps, RoleSteps, InviteSteps, Idle
<1>1. CASE Onboarding(t, u)
  <2>1. overlapped' \subseteq Users
    BY <1>0, <1>1 DEF Onboarding, TypeOK
  <2> QED BY <1>1, <1>a, <2>1 DEF Onboarding
<1>2. ASSUME NEW o \in Orgs, DeleteOrganization(t, u, o) PROVE Typed'
  BY <1>2, <1>a, <1>b DEF DeleteOrganization
<1>3. ASSUME NEW o \in Orgs, NEW x \in Users, RemoveMember(t, u, o, x) PROVE Typed'
  BY <1>3, <1>a, <1>b DEF RemoveMember, MemberRequest
<1>4. ASSUME NEW o \in Orgs, NEW x \in Users, NEW r \in GivenRoles, UpdateMember(t, u, o, x, r)
      PROVE  Typed'
  BY <1>4, <1>a, <1>b DEF UpdateMember, MemberRequest
<1>5. ASSUME NEW o \in Orgs, NEW v \in Invites, NEW r \in GivenRoles, CreateInvite(t, u, o, v, r)
      PROVE  Typed'
  BY <1>5, <1>a, <1>b DEF CreateInvite
<1>6. ASSUME NEW v \in Invites, RevokeInvite(t, u, v) PROVE Typed'
  BY <1>6, <1>a, <1>b DEF RevokeInvite
<1>7. ASSUME NEW v \in Invites, AcceptInvite(t, u, v) PROVE Typed'
  <2>1. invite[v].org \in Orgs /\ invite[v].role \in GivenRoles
    BY <1>0, <1>7 DEF AcceptInvite, InvitesTyped
  <2> QED BY <1>7, <1>a, <1>b, <2>1 DEF AcceptInvite
<1> QED BY <1>1, <1>2, <1>3, <1>4, <1>5, <1>6, <1>7 DEF Arrival
-----------------------------------------------------------------------------
LEMMA TaskStepTyped ==
  ASSUME Typed, NEW t \in Tasks, TaskStep(t)
  PROVE  Typed'
<1> USE RolesGiven
<1>0. TypeOK /\ TasksTyped /\ InvitesTyped /\ requests \in Nat /\ faults \in Nat
  BY DEF Typed
<1>w. WellRead(task[t]) /\ task[t] \in TaskRecords
  BY <1>0 DEF TasksTyped
<1>n. MembersTyped
  BY <1>0 DEF TypeOK, MembersTyped, MemberRecords
<1>m. ASSUME NEW o \in Orgs, NEW u \in Users, NEW r \in Roles, AddOrgMember(o, u, r)
      PROVE  MembersTyped'
  <2>1. [role |-> r, active |-> TRUE] \in MemberRecords
    BY DEF MemberRecords
  <2> QED BY <1>m, <1>n, <2>1, MemberWrite DEF AddOrgMember
<1> USE DEF tables, history
<1>1. ASSUME NEW o \in Orgs, OnboardCreate(t, o) PROVE Typed'
  <2>1. task[t].user \in Users
    BY <1>1, <1>w DEF OnboardCreate, At, WellRead, UserSteps
  <2> DEFINE k == [task[t] EXCEPT !.step = "addOwner", !.org = o]
  <2>2. task' = [task EXCEPT ![t] = k] /\ k \in TaskRecords /\ WellRead(k)
    BY <1>1, <1>0, <1>w, <2>1
       DEF OnboardCreate, TasksTyped, TaskRecords, WellRead, Steps, OrgSteps, UserSteps, TargetSteps,
           RoleSteps, InviteSteps
  <2> HIDE DEF k
  <2>3. TasksTyped'
    BY <1>0, <2>2, MoveTyped
  <2> QED BY <1>0, <1>1, <2>1, <2>3 DEF OnboardCreate, CreateOrganization, Typed, TypeOK, InvitesTyped
<1>2. CASE OnboardOwner(t)
  <2>1. task[t].user \in Users /\ task[t].org \in Orgs
    BY <1>2, <1>w DEF OnboardOwner, At, WellRead, UserSteps, OrgSteps
  <2>2. TasksTyped'
    BY <1>0, <1>2, GotoTyped
       DEF OnboardOwner, At, Steps, OrgSteps, UserSteps, TargetSteps, RoleSteps, InviteSteps
  <2> QED BY <1>0, <1>2, <1>m, <2>1, <2>2 DEF OnboardOwner, Typed, TypeOK, InvitesTyped, MembersTyped, MemberRecords
<1>3. CASE OnboardProject(t)
  <2>1. task[t].org \in Orgs
    BY <1>3, <1>w DEF OnboardProject, At, WellRead, OrgSteps
  <2> QED BY <1>0, <1>3, <2>1, FinishTyped DEF OnboardProject, EnsureProjectForOrg, Typed, TypeOK, InvitesTyped
<1>4. CASE SoftDeleteOrganization(t)
  <2>1. org' \in [Orgs -> [by : Users \cup {None}, state : {"none", "live", "deleted"}]]
    BY <1>0, <1>4 DEF SoftDeleteOrganization, TypeOK
  <2> QED BY <1>0, <1>4, <2>1, FinishTyped DEF SoftDeleteOrganization, Typed, TypeOK, InvitesTyped
<1>5. CASE CheckTarget(t) \/ CountOwners(t)
  <2>1. TasksTyped'
    BY <1>0, <1>5, GotoTyped, FinishTyped
       DEF CheckTarget, CountOwners, At, Steps, OrgSteps, UserSteps, TargetSteps, RoleSteps, InviteSteps
  <2> QED BY <1>0, <1>5, <2>1 DEF CheckTarget, CountOwners, Typed, TypeOK, InvitesTyped
<1>6. CASE WriteTarget(t)
  <2> DEFINE o == task[t].org
             x == task[t].target
  <2>1. o \in Orgs /\ x \in Users
    BY <1>6, <1>w DEF WriteTarget, At, WellRead, OrgSteps, TargetSteps
  <2>2. MembersTyped'
    <3>1. CASE At(t, "update") /\ UpdateOrgMemberRole(o, x, task[t].role)
      <4>1. task[t].role \in Roles
        BY <1>w, <3>1 DEF At, WellRead, RoleSteps
      <4> DEFINE m == [member[o][x] EXCEPT !.role = task[t].role]
      <4>2. m \in MemberRecords /\ m.role # None
        <5>1. member[o][x] \in MemberRecords
          BY <1>n, <2>1 DEF MembersTyped
        <5> HIDE DEF o, x
        <5> QED BY <4>1, <5>1, RolesGiven DEF MemberRecords
      <4>3. UNCHANGED member \/ member' = [member EXCEPT ![o][x] = m]
        BY <3>1 DEF UpdateOrgMemberRole
      <4> HIDE DEF o, x, m
      <4>4. CASE UNCHANGED member
        BY <1>n, <4>4 DEF MembersTyped
      <4> QED BY <1>n, <2>1, <4>2, <4>3, <4>4, MemberWrite
    <3>2. CASE RemoveOrgMember(o, x)
      <4> DEFINE m == [member[o][x] EXCEPT !.active = FALSE]
      <4>1. m \in MemberRecords /\ ~m.active
        <5>1. member[o][x] \in MemberRecords
          BY <1>n, <2>1 DEF MembersTyped
        <5> HIDE DEF o, x
        <5> QED BY <5>1 DEF MemberRecords
      <4>2. member' = [member EXCEPT ![o][x] = m]
        BY <3>2 DEF RemoveOrgMember
      <4> HIDE DEF o, x, m
      <4> QED BY <1>n, <2>1, <4>1, <4>2, MemberWrite
    <3> QED BY <1>6, <3>1, <3>2 DEF WriteTarget
  <2> QED BY <1>0, <1>6, <2>2, FinishTyped
     DEF WriteTarget, Typed, TypeOK, InvitesTyped, MembersTyped, MemberRecords
<1>7. CASE InsertInvite(t)
  <2>1. task[t].invite \in Invites /\ task[t].org \in Orgs /\ task[t].role \in GivenRoles
    BY <1>7, <1>w DEF InsertInvite, At, WellRead, InviteSteps, OrgSteps, RoleSteps
  <2>2. InvitesTyped' /\ \A v \in Invites : invite'[v].state \in {"none", "pending", "accepted", "revoked"}
    BY <1>0, <1>7, <2>1 DEF InsertInvite, InvitesTyped, NoInvite
  <2> QED BY <1>0, <1>7, <2>2, FinishTyped DEF InsertInvite, Typed, TypeOK
<1>8. CASE StoreRevokeInvite(t)
  <2>1. task[t].invite \in Invites
    BY <1>8, <1>w DEF StoreRevokeInvite, At, WellRead, InviteSteps
  <2>2. InvitesTyped' /\ \A v \in Invites : invite'[v].state \in {"none", "pending", "accepted", "revoked"}
    BY <1>0, <1>8, <2>1 DEF StoreRevokeInvite, InvitesTyped
  <2> QED BY <1>0, <1>8, <2>2, FinishTyped DEF StoreRevokeInvite, Typed, TypeOK
<1>9. CASE CheckNotMember(t)
  <2>1. TasksTyped'
    BY <1>0, <1>9, GotoTyped, FinishTyped
       DEF CheckNotMember, At, Steps, OrgSteps, UserSteps, TargetSteps, RoleSteps, InviteSteps
  <2> QED BY <1>0, <1>9, <2>1 DEF CheckNotMember, Typed, TypeOK, InvitesTyped
<1>10. CASE MarkAccepted(t)
  <2>1. task[t].invite \in Invites /\ task[t].user \in Users
    BY <1>10, <1>w DEF MarkAccepted, At, WellRead, InviteSteps, UserSteps
  <2>2. TasksTyped'
    BY <1>0, <1>10, GotoTyped, FinishTyped
       DEF MarkAccepted, At, Steps, OrgSteps, UserSteps, TargetSteps, RoleSteps, InviteSteps
  <2>3. InvitesTyped' /\ \A v \in Invites : invite'[v].state \in {"none", "pending", "accepted", "revoked"}
    BY <1>0, <1>10, <2>1 DEF MarkAccepted, StoreAcceptInvite, InvitesTyped
  <2> QED BY <1>0, <1>10, <2>2, <2>3 DEF MarkAccepted, Typed, TypeOK
<1>11. CASE Join(t)
  <2>1. /\ task[t].org \in Orgs /\ task[t].user \in Users /\ task[t].role \in Roles
        /\ task[t].invite \in Invites
    BY <1>11, <1>w DEF Join, At, WellRead, OrgSteps, UserSteps, RoleSteps, InviteSteps
  <2> QED BY <1>0, <1>11, <1>m, <2>1, FinishTyped
     DEF Join, Typed, TypeOK, InvitesTyped, MembersTyped, MemberRecords
<1> QED BY <1>1, <1>2, <1>3, <1>4, <1>5, <1>6, <1>7, <1>8, <1>9, <1>10, <1>11 DEF TaskStep

LEMMA NextTyped == Typed /\ [Next]_vars => Typed'
<1> SUFFICES ASSUME Typed, [Next]_vars PROVE Typed'
  OBVIOUS
<1> USE DEF tables, history
<1>1. ASSUME NEW t \in Tasks, Abandon(t) PROVE Typed'
  BY <1>1, FinishTyped DEF Abandon, Typed, TypeOK, InvitesTyped
<1>2. ASSUME NEW u \in Users, UserDeleted(u) PROVE Typed'
  <2>1. MembersTyped
    BY DEF Typed, TypeOK, MembersTyped, MemberRecords
  <2>2. MembersTyped'
    <3>1. member' = [o \in Orgs |-> [member[o] EXCEPT ![u] = [member[o][u] EXCEPT !.active = FALSE]]]
      BY <1>2 DEF UserDeleted, DeleteClerkUser
    <3>2. \A o \in Orgs : /\ [member[o][u] EXCEPT !.active = FALSE] \in MemberRecords
                          /\ ~[member[o][u] EXCEPT !.active = FALSE].active
      <4> TAKE o \in Orgs
      <4>1. member[o][u] \in MemberRecords
        BY <2>1 DEF MembersTyped
      <4> QED BY <4>1 DEF MemberRecords
    <3> QED BY <2>1, <3>1, <3>2 DEF MembersTyped
  <2> QED BY <1>2, <2>2 DEF UserDeleted, Typed, TypeOK, InvitesTyped, TasksTyped, MembersTyped, MemberRecords
<1>3. CASE UNCHANGED vars
  BY <1>3 DEF vars, Typed, TypeOK, InvitesTyped, TasksTyped
<1> QED BY <1>1, <1>2, <1>3, ArrivalTyped, TaskStepTyped DEF Next

\* Every row and every request keeps its type, and what a request has read by a
\* step names rows that can exist: cloud_handlers.go never writes with a key it
\* has not looked up.
THEOREM OrganisationsTyped == Spec => [](TypeOK /\ Typed)
<1>1. Typed => TypeOK /\ Typed
  BY DEF Typed
<1> QED BY <1>1, InitTyped, NextTyped, PTL DEF Spec
-----------------------------------------------------------------------------
\* Nobody but the requests outside T, if any, has to do with o.
Untouched(o, T) ==
    /\ \A u \in Users : ~member[o][u].active
    /\ \A v \in Invites : invite[v].org # o
    /\ \A s \in T : task[s].org # o

\* An organisation is nobody's until it is created, and its creator's alone
\* until the owner's row is there: no one can be authorised on it before.
OrgInv ==
    \A o \in Orgs :
        /\ org[o].state = "none" => org[o].by = None /\ Untouched(o, Tasks)
        /\ org[o].state # "none" => org[o].by \in Users
        /\ \A t \in Tasks : At(t, "addOwner") /\ task[t].org = o =>
              org[o].by = task[t].user /\ Untouched(o, Tasks \ {t})

Lost(u) == u \in gone \/ faults > 0

\* A request that may write the creator's row has seen that it is not the
\* owner's any more.
OwnerInv ==
    /\ OwnerStays
    /\ \A t \in Tasks :
          /\ task[t].step \in {"update", "remove"} /\ task[t].target = org[task[t].org].by
                => Lost(task[t].target)
          /\ task[t].step \in {"accept", "join"} /\ task[t].user = org[task[t].org].by
                => Lost(task[t].user)

\* A request that is about to join is the one recorded on the invite.
InviteInv ==
    /\ InviteUsedOnce
    /\ \A t \in Tasks : At(t, "join") => invite[task[t].invite].by = task[t].user

Onboards(t, u) == task[t].step \in {"createOrg", "addOwner"} /\ task[t].user = u

Owns(u, o) == org[o].state = "live" /\ GetOrgMember(o, u) = "owner"

\* Without an overlap a user's organisations and onboardings are one at most.
OnboardInv ==
    \A u \in Users \ overlapped :
        /\ \A s, t \in Tasks : Onboards(s, u) /\ Onboards(t, u) => s = t
        /\ \A t \in Tasks, o \in Orgs : ~(Onboards(t, u) /\ Owns(u, o))
        /\ \A o, p \in Orgs : Owns(u, o) /\ Owns(u, p) => o = p
-----------------------------------------------------------------------------
\* The steps of a request, and how they touch what belongs to an organisation.
RequestStep(t) == TaskStep(t) \/ Abandon(t) \/ \E u \in Users : Arrival(t, u)

\* A request works on an organisation its caller, or its invite, belongs to.
Reached(o) == (\E u \in Users : member[o][u].active) \/ (\E v \in Invites : invite[v].org = o)

\* Requests that arrive only record what they have read.
LEMMA ArrivalReads ==
  ASSUME Typed, NEW t \in Tasks, NEW u \in Users, Arrival(t, u)
  PROVE  /\ UNCHANGED <<org, member, project, invite, faults, joined, gone>>
         /\ task[t].step = "idle"
         /\ \A s \in Tasks \ {t} : task'[s] = task[s]
         /\ task'[t].step \in {"createOrg", "deleteOrg", "updateCheck", "removeCheck", "insertInvite",
                               "revoke", "notMember"}
         /\ task'[t].org = None \/ (task'[t].org \in Orgs /\ Reached(task'[t].org))
         /\ task'[t].step # "createOrg" => UNCHANGED overlapped
         /\ task'[t].step = "createOrg" => Onboarding(t, u) /\ task'[t].user = u
<1>0. task \in [Tasks -> TaskRecords]
  BY DEF Typed, TasksTyped
<1>a. ASSUME NEW o \in Orgs, NEW r \in Roles, OrgAuthz(o, u, r) PROVE Reached(o)
  BY <1>a, RolesGiven DEF OrgAuthz, GetOrgMember, Reached
<1> USE <1>0, RolesGiven DEF Idle, tables, history, Request, At
<1> DEFINE Reads ==
             /\ UNCHANGED <<org, member, project, invite, faults, history>>
             /\ task[t].step = "idle"
             /\ \A s \in Tasks \ {t} : task'[s] = task[s]
             /\ task'[t].step \in {"deleteOrg", "updateCheck", "removeCheck", "insertInvite",
                                   "revoke", "notMember"}
             /\ task'[t].org = None \/ (task'[t].org \in Orgs /\ Reached(task'[t].org))
<1>1. CASE Onboarding(t, u)
  BY <1>1 DEF Onboarding
<1>2. ASSUME NEW o \in Orgs, DeleteOrganization(t, u, o) PROVE Reads
  BY <1>2, <1>a DEF DeleteOrganization
<1>3. ASSUME NEW o \in Orgs, NEW x \in Users, RemoveMember(t, u, o, x) PROVE Reads
  BY <1>3, <1>a DEF RemoveMember, MemberRequest
<1>4. ASSUME NEW o \in Orgs, NEW x \in Users, NEW r \in GivenRoles, UpdateMember(t, u, o, x, r)
      PROVE  Reads
  BY <1>4, <1>a DEF UpdateMember, MemberRequest
<1>5. ASSUME NEW o \in Orgs, NEW v \in Invites, NEW r \in GivenRoles, CreateInvite(t, u, o, v, r)
      PROVE  Reads
  BY <1>5, <1>a DEF CreateInvite
<1>6. ASSUME NEW v \in Invites, RevokeInvite(t, u, v) PROVE Reads
  BY <1>6 DEF RevokeInvite
<1>7. ASSUME NEW v \in Invites, AcceptInvite(t, u, v) PROVE Reads
  <2>1. invite[v].org \in Orgs
    BY <1>7 DEF AcceptInvite, Typed, InvitesTyped
  <2> QED BY <1>7, <2>1 DEF AcceptInvite, Reached
<1> HIDE DEF Reads
<1>8. CASE Reads
  BY <1>8 DEF Reads
<1> QED BY <1>1, <1>2, <1>3, <1>4, <1>5, <1>6, <1>7, <1>8 DEF Arrival

LEMMA OthersWait ==
  ASSUME Typed, NEW t \in Tasks, RequestStep(t)
  PROVE  \A s \in Tasks \ {t} : task'[s] = task[s]
<1>0. task \in [Tasks -> TaskRecords]
  BY DEF Typed, TasksTyped
<1>1. CASE TaskStep(t)
  BY <1>0, <1>1
     DEF TaskStep, OnboardCreate, OnboardOwner, OnboardProject, SoftDeleteOrganization, CheckTarget, CountOwners,
         WriteTarget, InsertInvite, StoreRevokeInvite, CheckNotMember, MarkAccepted, Join, Goto, Finish
<1>2. CASE Abandon(t)
  BY <1>0, <1>2 DEF Abandon, Finish
<1> QED BY <1>1, <1>2, ArrivalReads DEF RequestStep

\* Everything a request writes is of the organisation it works on.
LEMMA StaysInside ==
  ASSUME Typed, NEW t \in Tasks, TaskStep(t) \/ Abandon(t), \A o \in Orgs : ~OnboardCreate(t, o)
  PROVE  /\ task'[t].step # "addOwner"
         /\ task'[t].org \in {None, task[t].org}
         /\ \A o \in Orgs : /\ org'[o].by = org[o].by
                            /\ org'[o] = org[o] \/ (o = task[t].org /\ org'[o].state = "deleted")
         /\ \A o \in Orgs : o # task[t].org => member'[o] = member[o]
         /\ \A v \in Invites : invite'[v].org \in {invite[v].org, task[t].org}
<1>0. /\ task \in [Tasks -> TaskRecords] /\ WellRead(task[t]) /\ org \in [Orgs -> [by : Users \cup {None}, state : {"none", "live", "deleted"}]]
      /\ member \in [Orgs -> [Users -> MemberRecords]]
      /\ invite \in [Invites -> [org : Orgs \cup {None}, role : Roles \cup {None},
                               state : {"none", "pending", "accepted", "revoked"},
                               by : Users \cup {None}]]
  BY DEF Typed, TypeOK, TasksTyped, InvitesTyped, MemberRecords
<1> USE <1>0 DEF At, Goto, Finish, Idle, tables, TaskRecords
<1>1. CASE OnboardOwner(t) \/ WriteTarget(t) \/ Join(t)
  <2>1. \A o \in Orgs : o # task[t].org => member'[o] = member[o]
    <3>1. CASE OnboardOwner(t) \/ Join(t)
      BY <3>1 DEF OnboardOwner, Join, AddOrgMember
    <3>2. CASE WriteTarget(t)
      BY <3>2 DEF WriteTarget, UpdateOrgMemberRole, RemoveOrgMember
    <3> QED BY <1>1, <3>1, <3>2
  <2>2. UNCHANGED <<org, invite>> /\ task'[t].step # "addOwner" /\ task'[t].org \in {None, task[t].org}
    BY <1>1 DEF OnboardOwner, Join, WriteTarget
  <2> QED BY <2>1, <2>2
<1>2. CASE OnboardProject(t) \/ Abandon(t)
  BY <1>2 DEF OnboardProject, Abandon
<1>3. CASE SoftDeleteOrganization(t)
  BY <1>3 DEF SoftDeleteOrganization
<1>4. CASE CheckTarget(t) \/ CountOwners(t) \/ CheckNotMember(t)
  BY <1>4 DEF CheckTarget, CountOwners, CheckNotMember
<1>5. CASE InsertInvite(t)
  BY <1>5 DEF InsertInvite
<1>6. CASE StoreRevokeInvite(t)
  BY <1>6 DEF StoreRevokeInvite
<1>7. CASE MarkAccepted(t)
  <2>1. \A v \in Invites : invite'[v].org = invite[v].org
    <3>1. CASE UNCHANGED invite
      BY <3>1
    <3>2. CASE StoreAcceptInvite(task[t].invite, task[t].user)
      <4> DEFINE i == task[t].invite
                 u == task[t].user
      <4>1. invite' = [invite EXCEPT ![i].state = "accepted", ![i].by = u]
        BY <3>2 DEF StoreAcceptInvite
      <4> HIDE DEF i, u
      <4> QED BY <1>0, <4>1
    <3> QED BY <1>7, <3>1, <3>2 DEF MarkAccepted
  <2>2. UNCHANGED <<org, member>> /\ task'[t].step # "addOwner" /\ task'[t].org \in {None, task[t].org}
    BY <1>7 DEF MarkAccepted
  <2> QED BY <2>1, <2>2
<1> QED BY <1>1, <1>2, <1>3, <1>4, <1>5, <1>6, <1>7 DEF TaskStep

LEMMA OrgInit == Init => OrgInv
  BY NoneAssumption DEF Init, OrgInv, Untouched, At, Idle, NoMember, NoInvite

\* A step of t leaves the organisations of others as they are: it touches only
\* the one t works on, or one that somebody already belongs to.
LEMMA OrgKept ==
  ASSUME Typed, OrgInv, NEW t \in Tasks,
         \A s \in Tasks \ {t} : task'[s] = task[s],
         task'[t].step # "addOwner",
         \/ task'[t].org \in {None, task[t].org}
         \/ task'[t].org \in Orgs /\ Reached(task'[t].org),
         \A o \in Orgs : /\ org'[o].by = org[o].by
                         /\ org'[o] = org[o] \/ (o = task[t].org /\ org'[o].state = "deleted"),
         \A o \in Orgs : o # task[t].org => member'[o] = member[o],
         \A v \in Invites : invite'[v].org \in {invite[v].org, task[t].org}
  PROVE  OrgInv'
<1>1. ASSUME NEW o \in Orgs, NEW T \in SUBSET Tasks, t \in T, Untouched(o, T) PROVE Untouched(o, T)'
  <2>1. task[t].org # o /\ ~Reached(o)
    BY <1>1 DEF Untouched, Reached
  <2>2. task'[t].org # o
    BY <2>1, NoneAssumption
  <2> QED BY <1>1, <2>1, <2>2 DEF Untouched
<1> SUFFICES ASSUME NEW o \in Orgs
             PROVE  /\ org'[o].state = "none" => org'[o].by = None /\ Untouched(o, Tasks)'
                    /\ org'[o].state # "none" => org'[o].by \in Users
                    /\ \A s \in Tasks : task'[s].step = "addOwner" /\ task'[s].org = o =>
                          org'[o].by = task'[s].user /\ Untouched(o, Tasks \ {s})'
  BY DEF OrgInv, At
<1>2. org[o].state = "none" => org[o].by = None /\ Untouched(o, Tasks) /\ task[t].org # o
  BY DEF OrgInv, Untouched
<1>3. org'[o].state = "none" => org'[o].by = None /\ Untouched(o, Tasks)'
  BY <1>1, <1>2
<1>4. org'[o].state # "none" => org'[o].by \in Users
  BY <1>2 DEF OrgInv
<1>5. ASSUME NEW s \in Tasks, task'[s].step = "addOwner" /\ task'[s].org = o
      PROVE  org'[o].by = task'[s].user /\ Untouched(o, Tasks \ {s})'
  <2>1. s # t /\ task'[s] = task[s]
    BY <1>5
  <2>2. org[o].by = task[s].user /\ Untouched(o, Tasks \ {s})
    BY <1>5, <2>1 DEF OrgInv, At
  <2> QED BY <1>1, <2>1, <2>2
<1> QED BY <1>3, <1>4, <1>5

LEMMA OrgCreated ==
  ASSUME Typed, OrgInv, NEW t \in Tasks, NEW o \in Orgs, OnboardCreate(t, o)
  PROVE  OrgInv'
<1>1. /\ org[o].state = "none" /\ UNCHANGED <<member, invite>> /\ task[t].user \in Users
      /\ org'[o].by = task[t].user /\ org'[o].state = "live"
      /\ \A p \in Orgs \ {o} : org'[p] = org[p]
      /\ \A s \in Tasks \ {t} : task'[s] = task[s]
      /\ task'[t].step = "addOwner" /\ task'[t].org = o /\ task'[t].user = task[t].user
  <2>1. /\ org[o].state = "none" /\ UNCHANGED <<member, invite>>
        /\ org'[o].by = task[t].user /\ org'[o].state = "live"
        /\ \A p \in Orgs \ {o} : org'[p] = org[p]
    BY DEF OnboardCreate, CreateOrganization, Typed, TypeOK
  <2>2. task[t].user \in Users
    BY DEF OnboardCreate, At, Typed, TasksTyped, WellRead, UserSteps
  <2>3. task \in [Tasks -> TaskRecords]
    BY DEF Typed, TasksTyped
  <2>4. task' = [task EXCEPT ![t].step = "addOwner", ![t].org = o]
    BY DEF OnboardCreate
  <2>5. /\ \A s \in Tasks \ {t} : task'[s] = task[s]
        /\ task'[t].step = "addOwner" /\ task'[t].org = o /\ task'[t].user = task[t].user
    BY <2>3, <2>4 DEF TaskRecords
  <2> QED BY <2>1, <2>2, <2>5
<1>2. Untouched(o, Tasks)
  BY <1>1 DEF OrgInv
<1>3. \A s \in Tasks \ {t} : task'[s].org # o
  BY <1>1, <1>2 DEF Untouched
<1>4. \A p \in Orgs \ {o}, T \in SUBSET Tasks : Untouched(p, T) => Untouched(p, T)'
  BY <1>1 DEF Untouched
<1>5. Untouched(o, Tasks \ {t})'
  BY <1>1, <1>2 DEF Untouched
<1>6. ASSUME NEW p \in Orgs \ {o}
      PROVE  /\ org'[p].state = "none" => org'[p].by = None /\ Untouched(p, Tasks)'
             /\ org'[p].state # "none" => org'[p].by \in Users
             /\ \A s \in Tasks : task'[s].step = "addOwner" /\ task'[s].org = p =>
                   org'[p].by = task'[s].user /\ Untouched(p, Tasks \ {s})'
  BY <1>1, <1>4 DEF OrgInv, At
<1>7. \A s \in Tasks : task'[s].step = "addOwner" /\ task'[s].org = o => s = t
  BY <1>3
<1> QED BY <1>1, <1>5, <1>6, <1>7 DEF OrgInv, At

LEMMA OrgNext == Typed /\ OrgInv /\ [Next]_vars => OrgInv'
<1> SUFFICES ASSUME Typed, OrgInv, [Next]_vars PROVE OrgInv'
  OBVIOUS
<1>1. ASSUME NEW t \in Tasks, RequestStep(t) PROVE OrgInv'
  <2>1. CASE \E o \in Orgs : OnboardCreate(t, o)
    BY <2>1, OrgCreated
  <2>2. CASE (TaskStep(t) \/ Abandon(t)) /\ \A o \in Orgs : ~OnboardCreate(t, o)
    BY <1>1, <2>2, OthersWait, StaysInside, OrgKept
  <2>3. ASSUME NEW u \in Users, Arrival(t, u) PROVE OrgInv'
    BY <2>3, ArrivalReads, OrgKept
  <2> QED BY <1>1, <2>1, <2>2, <2>3 DEF RequestStep
<1>2. ASSUME NEW u \in Users, UserDeleted(u) PROVE OrgInv'
  <2>1. \A o \in Orgs, x \in Users : member'[o][x].active => member[o][x].active
    BY <1>2 DEF UserDeleted, DeleteClerkUser, Typed, TypeOK
  <2> QED BY <1>2, <2>1 DEF UserDeleted, OrgInv, Untouched, At
<1>3. CASE UNCHANGED vars
  BY <1>3 DEF vars, tables, OrgInv, Untouched, At
<1> QED BY <1>1, <1>2, <1>3 DEF Next, RequestStep
-----------------------------------------------------------------------------
\* Owners.

LEMMA OwnerInit == Init => OwnerInv
  BY NoneAssumption, RolesGiven DEF Init, OwnerInv, OwnerStays, GetOrgMember, Idle, NoMember

\* Facts cited for each action: what is where before the step.
LEMMA OwnerBefore ==
  ASSUME Typed, OrgInv, OwnerInv, NEW o \in Orgs, NEW t \in Tasks, task[t].org = o,
         task[t].step # "addOwner", org[o].by \in Users, ~Lost(org[o].by)
  PROVE  GetOrgMember(o, org[o].by) = "owner"
<1>1. org[o].by # None /\ org[o].by \notin gone /\ faults = 0
  BY NoneAssumption DEF Lost, Typed
<1>2. CASE InProgress(o, {"addOwner"})
  <2>1. PICK s \in Tasks : task[s].step = "addOwner" /\ task[s].org = o
    BY <1>2 DEF InProgress
  <2> QED BY <2>1 DEF OrgInv, Untouched, At
<1> QED BY <1>1, <1>2 DEF OwnerInv, OwnerStays

\* One owner: the creator.
LEMMA OneOwner ==
  ASSUME OwnerInv, NEW o \in Orgs
  PROVE  CountActiveOwners(o) <= 1
<1> DEFINE S == {u \in Users : GetOrgMember(o, u) = "owner"}
<1>1. S \subseteq {org[o].by}
  BY DEF OwnerInv, OwnerStays
<1>2. IsFiniteSet({org[o].by}) /\ Cardinality({org[o].by}) = 1
  BY FS_Singleton
<1> HIDE DEF S
<1>3. Cardinality(S) <= 1 /\ Cardinality(S) \in Nat
  BY <1>1, <1>2, FS_Subset, FS_CardinalityType
<1>4. CountActiveOwners(o) = Cardinality(S)
  BY DEF CountActiveOwners, S
<1> QED BY <1>3, <1>4

\* Steps that write no membership and create no organisation.
LEMMA OwnerKept ==
  ASSUME Typed, Typed', OwnerInv, NEW t \in Tasks,
         UNCHANGED <<member, gone>>, faults' >= faults,
         \A s \in Tasks \ {t} : task'[s] = task[s],
         \A o \in Orgs : org'[o].by = org[o].by,
         task[t].step = "addOwner" => faults' > 0,
         task'[t].step \in {"update", "remove"} /\ task'[t].target = org[task'[t].org].by
            => Lost(task'[t].target),
         task'[t].step \in {"accept", "join"} /\ task'[t].user = org[task'[t].org].by
            => Lost(task'[t].user)
  PROVE  OwnerInv'
<1>0. faults \in Nat /\ faults' \in Nat
  BY DEF Typed
<1>1. \A o \in Orgs, u \in Users : GetOrgMember(o, u)' = GetOrgMember(o, u)
  BY DEF GetOrgMember
<1>2. ASSUME NEW o \in Orgs, org'[o].by # None, org'[o].by \notin gone', faults' = 0
      PROVE  GetOrgMember(o, org[o].by)' = "owner" \/ InProgress(o, {"addOwner"})'
  <2>1. org[o].by # None /\ org[o].by \notin gone /\ faults = 0 /\ task[t].step # "addOwner"
    BY <1>0, <1>2
  <2>2. CASE GetOrgMember(o, org[o].by) = "owner"
    BY <2>2 DEF GetOrgMember
  <2>3. CASE InProgress(o, {"addOwner"})
    BY <2>1, <2>3 DEF InProgress
  <2> QED BY <2>1, <2>2, <2>3 DEF OwnerInv, OwnerStays
<1>3. OwnerStays'
  <2>1. \A o \in Orgs, u \in Users : GetOrgMember(o, u)' = "owner" => u = org'[o].by
    BY <1>1 DEF OwnerInv, OwnerStays
  <2> QED BY <1>2, <2>1 DEF OwnerStays, GetOrgMember
<1>4. \A u \in Users : Lost(u) => Lost(u)'
  BY <1>0 DEF Lost
<1>5. \A s \in Tasks : /\ task'[s].step \in {"update", "remove", "accept", "join"} => task'[s].org \in Orgs
                       /\ task'[s].step \in {"update", "remove"} => task'[s].target \in Users
                       /\ task'[s].step \in {"accept", "join"} => task'[s].user \in Users
  BY DEF Typed, TasksTyped, WellRead, OrgSteps, TargetSteps, UserSteps
<1> QED BY <1>3, <1>4, <1>5 DEF OwnerInv

\* A write of one membership: the creator becomes the owner, or it is a row the
\* creator has lost, or somebody else's, and not the owner's.
LEMMA OwnerWritten ==
  ASSUME Typed, Typed', OrgInv, OwnerInv, NEW t \in Tasks, NEW o \in Orgs, NEW u \in Users, task[t].org = o,
         UNCHANGED <<org, gone, faults>>,
         \A s \in Tasks \ {t} : task'[s] = task[s],
         task'[t].step \in {"idle", "project"},
         \A p \in Orgs, x \in Users : p # o \/ x # u => member'[p][x] = member[p][x],
         \/ task[t].step = "addOwner" /\ u = org[o].by /\ GetOrgMember(o, u)' = "owner"
         \/ /\ task[t].step # "addOwner"
            /\ GetOrgMember(o, u)' = "owner" => GetOrgMember(o, u) = "owner"
            /\ u = org[o].by => Lost(u)
  PROVE  OwnerInv'
<1>1. \A p \in Orgs, x \in Users : p # o \/ x # u => GetOrgMember(p, x)' = GetOrgMember(p, x)
  BY DEF GetOrgMember
<1>2. \A p \in Orgs, x \in Users : GetOrgMember(p, x)' = "owner" => x = org[p].by
  BY <1>1 DEF OwnerInv, OwnerStays
<1>3. ASSUME NEW p \in Orgs, org[p].by # None, org[p].by \notin gone, faults = 0
      PROVE  GetOrgMember(p, org[p].by)' = "owner" \/ InProgress(p, {"addOwner"})'
  <2>0. org[p].by \in Users /\ ~Lost(org[p].by)
    BY <1>3 DEF OrgInv, Lost, Typed
  <2>1. CASE p = o
    <3>1. CASE task[t].step = "addOwner"
      BY <2>1, <3>1
    <3>2. CASE task[t].step # "addOwner"
      <4>1. GetOrgMember(o, org[o].by) = "owner"
        BY <2>0, <2>1, <3>2, OwnerBefore
      <4>2. org[o].by # u
        BY <2>0, <2>1, <3>2
      <4> QED BY <1>1, <2>0, <2>1, <4>1, <4>2
    <3> QED BY <3>1, <3>2
  <2>2. CASE p # o
    <3>1. CASE GetOrgMember(p, org[p].by) = "owner"
      BY <1>1, <2>0, <2>2, <3>1
    <3>2. CASE InProgress(p, {"addOwner"})
      BY <2>2, <3>2 DEF InProgress
    <3> QED BY <1>3, <3>1, <3>2 DEF OwnerInv, OwnerStays
  <2> QED BY <2>1, <2>2
<1>4. OwnerStays'
  BY <1>2, <1>3 DEF OwnerStays, GetOrgMember
<1>5. \A x \in Users : Lost(x) => Lost(x)'
  BY DEF Lost
<1>6. \A s \in Tasks : /\ task'[s].step \in {"update", "remove"} => task'[s].target \in Users
                       /\ task'[s].step \in {"accept", "join"} => task'[s].user \in Users
  BY DEF Typed, TasksTyped, WellRead, TargetSteps, UserSteps
<1> QED BY <1>4, <1>5, <1>6 DEF OwnerInv

\* A row that AddOrgMember writes, and the rows it leaves alone.
LEMMA MemberAdded ==
  ASSUME MembersTyped, NEW o \in Orgs, NEW u \in Users, NEW r \in Roles, AddOrgMember(o, u, r)
  PROVE  /\ GetOrgMember(o, u)' = r
         /\ \A p \in Orgs, y \in Users : p # o \/ y # u => member'[p][y] = member[p][y]
<1> DEFINE m == [role |-> r, active |-> TRUE]
<1>1. m \in MemberRecords /\ m.role # None /\ m.active /\ m.role = r
  BY RolesGiven DEF MemberRecords
<1>2. member' = [member EXCEPT ![o][u] = m]
  BY DEF AddOrgMember
<1> HIDE DEF m
<1>3. member'[o][u] = m /\ \A p \in Orgs, y \in Users : p # o \/ y # u => member'[p][y] = member[p][y]
  BY <1>1, <1>2 DEF MembersTyped
<1> QED BY <1>1, <1>3 DEF GetOrgMember

\* A role change or a removal makes nobody an owner.
LEMMA TargetWritten ==
  ASSUME Typed, NEW t \in Tasks, NEW o \in Orgs, NEW x \in Users, WriteTarget(t),
         o = task[t].org, x = task[t].target
  PROVE  /\ \A p \in Orgs, y \in Users : p # o \/ y # x => member'[p][y] = member[p][y]
         /\ GetOrgMember(o, x)' # "owner"
<1>0. WellRead(task[t]) /\ MembersTyped
  BY DEF Typed, TypeOK, TasksTyped, MembersTyped, MemberRecords
<1> USE DEF At
<1>1. CASE task[t].step = "update"
  <2>1. task[t].role \in GivenRoles
    BY <1>0, <1>1 DEF WellRead, RoleSteps
  <2>2. CASE UNCHANGED member /\ ~member[o][x].active
    BY <2>2, RolesGiven DEF GetOrgMember
  <2>3. CASE member' = [member EXCEPT ![o][x].role = task[t].role]
    <3> DEFINE m == [member[o][x] EXCEPT !.role = task[t].role]
    <3>1. m \in MemberRecords /\ m.role = task[t].role /\ m.role # None
      <4>1. member[o][x] \in MemberRecords
        BY <1>0 DEF MembersTyped
      <4> QED BY <2>1, <4>1, RolesGiven DEF MemberRecords
    <3>2. member' = [member EXCEPT ![o][x] = m]
      BY <2>3
    <3> HIDE DEF m
    <3>3. member'[o][x] = m /\ \A p \in Orgs, y \in Users : p # o \/ y # x => member'[p][y] = member[p][y]
      BY <1>0, <3>1, <3>2 DEF MembersTyped
    <3> QED BY <2>1, <3>1, <3>3, RolesGiven DEF GetOrgMember
  <2> QED BY <1>1, <2>2, <2>3 DEF WriteTarget, UpdateOrgMemberRole
<1>2. CASE task[t].step = "remove"
  <2> DEFINE m == [member[o][x] EXCEPT !.active = FALSE]
  <2>1. m \in MemberRecords /\ ~m.active
    <3>1. member[o][x] \in MemberRecords
      BY <1>0 DEF MembersTyped
    <3> QED BY <3>1 DEF MemberRecords
  <2>2. member' = [member EXCEPT ![o][x] = m]
    BY <1>2 DEF WriteTarget, RemoveOrgMember
  <2> HIDE DEF m
  <2>3. member'[o][x] = m /\ \A p \in Orgs, y \in Users : p # o \/ y # x => member'[p][y] = member[p][y]
    BY <1>0, <2>1, <2>2 DEF MembersTyped
  <2> QED BY <2>1, <2>3, RolesGiven DEF GetOrgMember
<1> QED BY <1>1, <1>2 DEF WriteTarget

\* Nor does the deletion of a user.
LEMMA OwnersDeleted ==
  ASSUME Typed, NEW u \in Users, UserDeleted(u)
  PROVE  \A o \in Orgs, x \in Users : GetOrgMember(o, x)' = "owner" => GetOrgMember(o, x) = "owner"
<1>1. MembersTyped
  BY DEF Typed, TypeOK, MembersTyped, MemberRecords
<1>2. \A o \in Orgs : member'[o] = [member[o] EXCEPT ![u].active = FALSE]
  BY DEF UserDeleted, DeleteClerkUser
<1>3. \A o \in Orgs : ~member'[o][u].active /\ \A x \in Users \ {u} : member'[o][x] = member[o][x]
  <2> TAKE o \in Orgs
  <2> DEFINE m == [member[o][u] EXCEPT !.active = FALSE]
  <2>1. ~m.active
    <3>1. member[o][u] \in MemberRecords
      BY <1>1 DEF MembersTyped
    <3> QED BY <3>1 DEF MemberRecords
  <2>2. member'[o] = [member[o] EXCEPT ![u] = m]
    BY <1>2
  <2> HIDE DEF m
  <2> QED BY <1>1, <2>1, <2>2 DEF MembersTyped
<1> QED BY <1>3, RolesGiven DEF GetOrgMember

LEMMA OwnerStep ==
  ASSUME Typed, Typed', OrgInv, OwnerInv, NEW t \in Tasks, TaskStep(t) \/ Abandon(t)
  PROVE  OwnerInv'
<1>0. /\ task \in [Tasks -> TaskRecords] /\ WellRead(task[t]) /\ MembersTyped /\ faults \in Nat
      /\ org \in [Orgs -> [by : Users \cup {None}, state : {"none", "live", "deleted"}]]
  BY DEF Typed, TypeOK, TasksTyped, MembersTyped, MemberRecords
<1>o. \A s \in Tasks \ {t} : task'[s] = task[s]
  BY OthersWait DEF RequestStep
<1>l. ASSUME NEW o \in Orgs, task[t].org = o, org[o].by \in Users, task[t].step # "addOwner",
             GetOrgMember(o, org[o].by) # "owner"
      PROVE  Lost(org[o].by)
  BY <1>l, OwnerBefore
<1>f. ASSUME Finish(t), UNCHANGED <<member, gone>>, faults' >= faults, \A p \in Orgs : org'[p].by = org[p].by,
             task[t].step = "addOwner" => faults' > 0
      PROVE  OwnerInv'
  <2>1. task'[t].step = "idle"
    BY <1>0, <1>f DEF Finish, Idle
  <2> QED BY <1>f, <1>o, <2>1, OwnerKept
<1> USE DEF At
<1>1. ASSUME NEW p \in Orgs, OnboardCreate(t, p) PROVE OwnerInv'
  <2>1. /\ UNCHANGED <<member, gone, faults>> /\ org[p].state = "none"
        /\ task'[t].step = "addOwner" /\ task'[t].org = p
        /\ \A q \in Orgs \ {p} : org'[q].by = org[q].by
    BY <1>0, <1>1 DEF OnboardCreate, CreateOrganization, history, TaskRecords
  <2>2. Untouched(p, Tasks)
    BY <2>1 DEF OrgInv
  <2>3. \A q \in Orgs, y \in Users : /\ GetOrgMember(q, y)' = GetOrgMember(q, y)
                                    /\ GetOrgMember(p, y) = None
    BY <2>1, <2>2 DEF GetOrgMember, Untouched
  <2>4. \A q \in Orgs, y \in Users : GetOrgMember(q, y)' = "owner" => y = org'[q].by
    BY <2>1, <2>3, NoneAssumption DEF OwnerInv, OwnerStays
  <2>5. ASSUME NEW q \in Orgs, NEW b \in Users, org'[q].by = b, b \notin gone', faults' = 0
        PROVE  GetOrgMember(q, b)' = "owner" \/ InProgress(q, {"addOwner"})'
    <3>1. CASE q = p
      BY <2>1, <3>1 DEF InProgress
    <3>2. CASE q # p
      <4>1. GetOrgMember(q, b) = "owner" \/ InProgress(q, {"addOwner"})
        BY <2>1, <2>5, <3>2, NoneAssumption DEF OwnerInv, OwnerStays
      <4>2. InProgress(q, {"addOwner"}) => InProgress(q, {"addOwner"})'
        BY <1>1, <1>o DEF InProgress, OnboardCreate
      <4> QED BY <2>3, <4>1, <4>2
    <3> QED BY <3>1, <3>2
  <2>6. OwnerStays'
    <3>1. \A q \in Orgs : org'[q].by # None => org'[q].by \in Users
      BY DEF Typed, TypeOK
    <3> QED BY <2>4, <2>5, <3>1 DEF OwnerStays, GetOrgMember
  <2>7. \A s \in Tasks \ {t} : task'[s].org # p
    BY <1>o, <2>2 DEF Untouched
  <2>8. \A s \in Tasks : task'[s].step \in {"update", "remove", "accept", "join"} => task'[s].org \in Orgs
    BY DEF Typed, TasksTyped, WellRead, OrgSteps
  <2> QED BY <1>o, <2>1, <2>6, <2>7, <2>8 DEF OwnerInv, Lost
<1>2. CASE OnboardOwner(t)
  <2>1. PICK o \in Orgs, u \in Users : o = task[t].org /\ u = task[t].user
    BY <1>0, <1>2 DEF OnboardOwner, WellRead, OrgSteps, UserSteps
  <2>2. u = org[o].by
    BY <1>2, <2>1 DEF OnboardOwner, OrgInv
  <2>3. /\ GetOrgMember(o, u)' = "owner"
        /\ \A p \in Orgs, y \in Users : p # o \/ y # u => member'[p][y] = member[p][y]
    BY <1>0, <1>2, MemberAdded, <2>1, RolesGiven DEF OnboardOwner
  <2>4. task'[t].step = "project" /\ UNCHANGED <<org, gone, faults>> /\ task[t].step = "addOwner"
    BY <1>0, <1>2 DEF OnboardOwner, Goto, TaskRecords, history
  <2> QED BY <1>o, <2>1, <2>2, <2>3, <2>4, OwnerWritten
<1>3. CASE OnboardProject(t)
  BY <1>3, <1>0, <1>f DEF OnboardProject, history
<1>4. CASE SoftDeleteOrganization(t)
  <2>1. \A p \in Orgs : org'[p].by = org[p].by
    BY <1>0, <1>4 DEF SoftDeleteOrganization
  <2> QED BY <1>4, <1>0, <1>f, <2>1 DEF SoftDeleteOrganization, history
<1>5. CASE CheckTarget(t) \/ CountOwners(t)
  <2>1. UNCHANGED <<org, member, gone, faults>> /\ task[t].step \in {"updateCheck", "removeCheck", "owners"}
    BY <1>5 DEF CheckTarget, CountOwners, tables, history
  <2>2. PICK o \in Orgs, x \in Users : o = task[t].org /\ x = task[t].target
    BY <1>0, <2>1 DEF WellRead, OrgSteps, TargetSteps
  <2>3. CASE Finish(t)
    BY <1>0, <1>f, <2>1, <2>3
  <2>4. CASE Goto(t, "owners")
    <3>1. task'[t].step = "owners"
      BY <1>0, <2>4 DEF Goto, TaskRecords
    <3> QED BY <1>0, <1>o, <2>1, <3>1, OwnerKept
  <2>5. CASE (Goto(t, "update") \/ Goto(t, "remove")) /\ GetOrgMember(o, x) # "owner"
    <3>1. /\ task'[t].step \in {"update", "remove"}
          /\ task'[t].target = x /\ task'[t].org = o
      BY <1>0, <2>2, <2>5 DEF Goto, TaskRecords
    <3>2. x = org[o].by => Lost(x)
      BY <1>l, <2>1, <2>2, <2>5
    <3> QED BY <1>0, <1>o, <2>1, <3>1, <3>2, OwnerKept
  <2>6. CASE CountOwners(t)
    <3>1. CountActiveOwners(o) <= 1
      BY OneOwner
    <3> QED BY <2>2, <2>3, <2>6, <3>1 DEF CountOwners
  <2>7. CASE CheckTarget(t)
    BY <2>2, <2>3, <2>4, <2>5, <2>7 DEF CheckTarget, MayUpdate
  <2> QED BY <1>5, <2>6, <2>7
<1>6. CASE WriteTarget(t)
  <2>1. PICK o \in Orgs, x \in Users : o = task[t].org /\ x = task[t].target
    BY <1>0, <1>6 DEF WriteTarget, WellRead, OrgSteps, TargetSteps
  <2>2. /\ UNCHANGED <<org, gone, faults>> /\ task'[t].step = "idle"
        /\ task[t].step \in {"update", "remove"}
    BY <1>0, <1>6 DEF WriteTarget, history, Finish, Idle
  <2>3. /\ \A p \in Orgs, y \in Users : p # o \/ y # x => member'[p][y] = member[p][y]
        /\ GetOrgMember(o, x)' # "owner"
    BY <1>6, <2>1, TargetWritten
  <2>4. x = org[o].by => Lost(x)
    BY <2>1, <2>2 DEF OwnerInv
  <2> QED BY <1>o, <2>1, <2>2, <2>3, <2>4, OwnerWritten
<1>7. CASE InsertInvite(t) \/ StoreRevokeInvite(t)
  BY <1>7, <1>0, <1>f DEF InsertInvite, StoreRevokeInvite, history
<1>8. CASE CheckNotMember(t)
  <2>1. UNCHANGED <<org, member, gone, faults>> /\ task[t].step = "notMember"
    BY <1>8 DEF CheckNotMember, tables, history
  <2>2. PICK o \in Orgs, u \in Users : o = task[t].org /\ u = task[t].user
    BY <1>0, <2>1 DEF WellRead, OrgSteps, UserSteps
  <2>3. CASE Finish(t)
    BY <1>0, <1>f, <2>1, <2>3
  <2>4. CASE Goto(t, "accept") /\ GetOrgMember(o, u) = None
    <3>1. task'[t].step = "accept" /\ task'[t].user = u /\ task'[t].org = o
      BY <1>0, <2>2, <2>4 DEF Goto, TaskRecords
    <3>2. u = org[o].by => Lost(u)
      BY <1>l, <2>1, <2>2, <2>4, RolesGiven
    <3> QED BY <1>0, <1>o, <2>1, <3>1, <3>2, OwnerKept
  <2> QED BY <1>8, <2>2, <2>3, <2>4 DEF CheckNotMember
<1>9. CASE MarkAccepted(t)
  <2>1. UNCHANGED <<org, member, gone, faults>> /\ task[t].step = "accept"
    BY <1>9 DEF MarkAccepted, history
  <2>2. CASE Finish(t)
    BY <1>0, <1>f, <2>1, <2>2
  <2>3. CASE Goto(t, "join")
    <3>1. task'[t].step = "join" /\ task'[t].user = task[t].user /\ task'[t].org = task[t].org
      BY <1>0, <2>3 DEF Goto, TaskRecords
    <3>2. task[t].user = org[task[t].org].by => Lost(task[t].user)
      BY <2>1 DEF OwnerInv
    <3> QED BY <1>0, <1>o, <2>1, <3>1, <3>2, OwnerKept
  <2> QED BY <1>9, <2>2, <2>3 DEF MarkAccepted
<1>10. CASE Join(t)
  <2>1. PICK o \in Orgs, u \in Users, r \in GivenRoles :
           o = task[t].org /\ u = task[t].user /\ r = task[t].role
    BY <1>0, <1>10 DEF Join, WellRead, OrgSteps, UserSteps, RoleSteps
  <2>2. UNCHANGED <<org, gone, faults>> /\ task'[t].step = "idle" /\ task[t].step = "join"
    BY <1>0, <1>10 DEF Join, Finish, Idle
  <2>3. /\ GetOrgMember(o, u)' # "owner"
        /\ \A p \in Orgs, y \in Users : p # o \/ y # u => member'[p][y] = member[p][y]
    BY <1>0, <1>10, MemberAdded, <2>1, RolesGiven DEF Join
  <2>4. u = org[o].by => Lost(u)
    BY <2>1, <2>2 DEF OwnerInv
  <2> QED BY <1>o, <2>1, <2>2, <2>3, <2>4, OwnerWritten
<1>11. CASE Abandon(t)
  <2>1. UNCHANGED <<org, member, gone>> /\ faults' = faults + 1 /\ Finish(t)
    BY <1>11 DEF Abandon, tables, history
  <2> QED BY <1>0, <1>f, <2>1
<1> QED BY <1>1, <1>2, <1>3, <1>4, <1>5, <1>6, <1>7, <1>8, <1>9, <1>10, <1>11 DEF TaskStep

LEMMA OwnerNext == Typed /\ Typed' /\ OrgInv /\ OwnerInv /\ [Next]_vars => OwnerInv'
<1> SUFFICES ASSUME Typed, Typed', OrgInv, OwnerInv, [Next]_vars PROVE OwnerInv'
  OBVIOUS
<1>1. ASSUME NEW t \in Tasks, NEW u \in Users, Arrival(t, u) PROVE OwnerInv'
  BY <1>1, ArrivalReads, OwnerKept DEF Typed
<1>2. ASSUME NEW u \in Users, UserDeleted(u) PROVE OwnerInv'
  <2>1. UNCHANGED <<org, task, faults>> /\ gone' = gone \cup {u}
    BY <1>2 DEF UserDeleted
  <2>2. \A o \in Orgs, x \in Users : GetOrgMember(o, x)' = "owner" => GetOrgMember(o, x) = "owner"
    BY <1>2, OwnersDeleted
  <2>3. \A o \in Orgs, x \in Users \ {u} : GetOrgMember(o, x)' = GetOrgMember(o, x)
    BY <1>2 DEF UserDeleted, DeleteClerkUser, GetOrgMember, Typed, TypeOK
  <2>4. OwnerStays'
    <3>1. \A o \in Orgs, x \in Users : GetOrgMember(o, x)' = "owner" => x = org'[o].by
      BY <2>1, <2>2 DEF OwnerInv, OwnerStays
    <3>2. ASSUME NEW o \in Orgs, org[o].by # None, org[o].by \notin gone', faults = 0
          PROVE  GetOrgMember(o, org[o].by)' = "owner" \/ InProgress(o, {"addOwner"})'
      <4>1. org[o].by \in Users \ {u} /\ org[o].by \notin gone
        BY <2>1, <3>2 DEF OrgInv
      <4>2. InProgress(o, {"addOwner"}) => InProgress(o, {"addOwner"})'
        BY <2>1 DEF InProgress
      <4>3. PICK b \in Users \ {u} : b = org[o].by
        BY <4>1
      <4>4. GetOrgMember(o, b)' = GetOrgMember(o, b)
        BY <2>3
      <4>5. GetOrgMember(o, b) = "owner" \/ InProgress(o, {"addOwner"})
        BY <3>2, <4>1, <4>3 DEF OwnerInv, OwnerStays
      <4> QED BY <2>1, <4>2, <4>3, <4>4, <4>5 DEF GetOrgMember
    <3> QED BY <2>1, <3>1, <3>2 DEF OwnerStays, GetOrgMember
  <2>5. \A x : Lost(x) => Lost(x)'
    BY <2>1 DEF Lost
  <2> QED BY <2>1, <2>4, <2>5 DEF OwnerInv, Lost
<1>3. CASE UNCHANGED vars
  BY <1>3 DEF vars, tables, history, OwnerInv, OwnerStays, GetOrgMember, InProgress, Lost
<1> QED BY <1>1, <1>2, <1>3, OwnerStep DEF Next

\* The owner of an organisation is its creator, who stays it until Clerk deletes
\* the user: no interleaving of role changes, removals, invites and onboardings,
\* each acting on rows read before, gives the role to another or takes it away.
THEOREM OwnersStay == Spec => []OwnerStays
<1>1. Init => OrgInv /\ OwnerInv
  BY OrgInit, OwnerInit
<1>2. Typed /\ Typed' /\ OrgInv /\ OwnerInv /\ [Next]_vars => OrgInv' /\ OwnerInv'
  BY OrgNext, OwnerNext
<1>3. OwnerInv => OwnerStays
  BY DEF OwnerInv
<1> QED BY <1>1, <1>2, <1>3, InitTyped, NextTyped, PTL DEF Spec
-----------------------------------------------------------------------------
\* Invites.

LEMMA InviteInit == Init => InviteInv
  BY DEF Init, InviteInv, InviteUsedOnce, At, Idle, NoInvite

\* Steps that accept no invite and join nobody.
LEMMA InviteKept ==
  ASSUME Typed, Typed', InviteInv, NEW t \in Tasks,
         UNCHANGED joined, faults' >= faults,
         \A s \in Tasks \ {t} : task'[s] = task[s],
         \A v \in Invites : invite'[v].by = invite[v].by,
         task[t].step = "join" => faults' > 0,
         task'[t].step # "join"
  PROVE  InviteInv'
<1>0. faults \in Nat /\ faults' \in Nat
  BY DEF Typed
<1>1. \A s \in Tasks : At(s, "join") => task[s].invite \in Invites
  BY DEF At, Typed, TasksTyped, WellRead, InviteSteps
<1>2. \A s \in Tasks : At(s, "join")' => At(s, "join") /\ task'[s] = task[s]
  BY DEF At
<1>3. \A s \in Tasks : At(s, "join")' => invite'[task'[s].invite].by = task'[s].user
  BY <1>1, <1>2 DEF InviteInv
<1>4. ASSUME NEW v \in Invites, invite'[v].by # None, faults' = 0
      PROVE  <<v, invite'[v].by>> \in joined' \/ \E s \in Tasks : At(s, "join")' /\ task'[s].invite = v
  <2>1. invite[v].by # None /\ faults = 0 /\ task[t].step # "join"
    BY <1>0, <1>4
  <2>2. ASSUME NEW s \in Tasks, At(s, "join"), task[s].invite = v
        PROVE  At(s, "join")' /\ task'[s].invite = v
    BY <2>1, <2>2 DEF At
  <2> QED BY <2>1, <2>2 DEF InviteInv, InviteUsedOnce
<1>5. InviteUsedOnce'
  BY <1>4 DEF InviteInv, InviteUsedOnce, At
<1> QED BY <1>3, <1>5 DEF InviteInv, At

LEMMA InviteStep ==
  ASSUME Typed, Typed', InviteInv, NEW t \in Tasks, TaskStep(t) \/ Abandon(t)
  PROVE  InviteInv'
<1>0. /\ task \in [Tasks -> TaskRecords] /\ WellRead(task[t]) /\ faults \in Nat
      /\ invite \in [Invites -> [org : Orgs \cup {None}, role : Roles \cup {None},
                               state : {"none", "pending", "accepted", "revoked"},
                               by : Users \cup {None}]]
  BY DEF Typed, TasksTyped, InvitesTyped
<1>o. \A s \in Tasks \ {t} : task'[s] = task[s]
  BY OthersWait DEF RequestStep
<1> USE DEF At
<1>1. CASE \/ \E o \in Orgs : OnboardCreate(t, o)
           \/ OnboardOwner(t) \/ OnboardProject(t) \/ SoftDeleteOrganization(t)
           \/ CheckTarget(t) \/ CountOwners(t) \/ WriteTarget(t) \/ CheckNotMember(t)
  <2>1. /\ UNCHANGED <<joined, faults, invite>> /\ task[t].step # "join"
        /\ task'[t].step # "join"
    BY <1>0, <1>1
       DEF OnboardCreate, OnboardOwner, OnboardProject, SoftDeleteOrganization, CheckTarget, CountOwners, WriteTarget,
           CheckNotMember, Goto, Finish, Idle, tables, history, TaskRecords
  <2> QED BY <1>0, <1>o, <2>1, InviteKept
<1>2. CASE InsertInvite(t)
  <2>1. UNCHANGED <<joined, faults>> /\ task[t].step # "join" /\ task'[t].step # "join"
    BY <1>0, <1>2 DEF InsertInvite, Finish, Idle, history
  <2>2. \A v \in Invites : invite'[v].by = invite[v].by
    BY <1>0, <1>2 DEF InsertInvite, NoInvite
  <2> QED BY <1>0, <1>o, <2>1, <2>2, InviteKept
<1>3. CASE StoreRevokeInvite(t)
  <2>1. UNCHANGED <<joined, faults>> /\ task[t].step # "join" /\ task'[t].step # "join"
    BY <1>0, <1>3 DEF StoreRevokeInvite, Finish, Idle, history
  <2>2. \A v \in Invites : invite'[v].by = invite[v].by
    BY <1>0, <1>3 DEF StoreRevokeInvite
  <2> QED BY <1>0, <1>o, <2>1, <2>2, InviteKept
<1>4. CASE MarkAccepted(t)
  <2>1. UNCHANGED <<joined, faults>> /\ task[t].step = "accept"
    BY <1>4 DEF MarkAccepted, history
  <2>2. CASE Finish(t) /\ UNCHANGED invite
    <3>1. task'[t].step = "idle"
      BY <1>0, <2>2 DEF Finish, Idle
    <3> QED BY <1>0, <1>o, <2>1, <2>2, <3>1, InviteKept
  <2>3. CASE StoreAcceptInvite(task[t].invite, task[t].user) /\ Goto(t, "join")
    <3>1. PICK v \in Invites, u \in Users : v = task[t].invite /\ u = task[t].user
      BY <1>0, <2>1 DEF WellRead, InviteSteps, UserSteps
    <3>2. invite' = [invite EXCEPT ![v].state = "accepted", ![v].by = u] /\ invite[v].state = "pending"
      BY <2>3, <3>1 DEF StoreAcceptInvite
    <3>3. invite[v].by = None
      BY <3>2 DEF Typed, InvitesTyped
    <3>4. invite'[v].by = u /\ \A w \in Invites \ {v} : invite'[w] = invite[w]
      BY <1>0, <3>2
    <3>5. task'[t].step = "join" /\ task'[t].invite = v /\ task'[t].user = u
      BY <1>0, <2>3, <3>1 DEF Goto, TaskRecords
    <3>6. \A x \in Users : <<v, x>> \notin joined
      BY <3>3, NoneAssumption DEF InviteInv, InviteUsedOnce
    <3>7. \A s \in Tasks : At(s, "join") => task[s].invite \in Invites \ {v}
      BY <3>3, NoneAssumption DEF InviteInv, Typed, TasksTyped, WellRead, InviteSteps, UserSteps
    <3>8. \A s \in Tasks : At(s, "join")' => invite'[task'[s].invite].by = task'[s].user
      BY <1>o, <3>4, <3>5, <3>7 DEF InviteInv
    <3>9. \A w \in Invites : \A x \in Users : <<w, x>> \in joined => invite'[w].by = x
      BY <3>4, <3>6 DEF InviteInv, InviteUsedOnce
    <3>10. ASSUME NEW w \in Invites, invite'[w].by # None, faults = 0
           PROVE  <<w, invite'[w].by>> \in joined \/ \E s \in Tasks : task'[s].step = "join" /\ task'[s].invite = w
      <4>1. CASE w = v
        BY <3>5, <4>1
      <4>2. CASE w # v
        <5>1. <<w, invite[w].by>> \in joined \/ \E s \in Tasks : At(s, "join") /\ task[s].invite = w
          BY <3>4, <3>10, <4>2 DEF InviteInv, InviteUsedOnce
        <5> QED BY <1>o, <2>1, <3>4, <4>2, <5>1
      <4> QED BY <4>1, <4>2
    <3> QED BY <2>1, <3>8, <3>9, <3>10 DEF InviteInv, InviteUsedOnce
  <2> QED BY <1>4, <2>2, <2>3 DEF MarkAccepted
<1>5. CASE Join(t)
  <2>1. PICK v \in Invites, u \in Users : v = task[t].invite /\ u = task[t].user
    BY <1>0, <1>5 DEF Join, WellRead, InviteSteps, UserSteps
  <2>2. UNCHANGED <<invite, faults>> /\ joined' = joined \cup {<<v, u>>} /\ task'[t].step = "idle"
    BY <1>0, <1>5, <2>1 DEF Join, Finish, Idle
  <2>3. invite[v].by = u
    BY <1>5, <2>1 DEF Join, InviteInv
  <2>4. ASSUME NEW w \in Invites, invite[w].by # None, faults = 0
        PROVE  <<w, invite[w].by>> \in joined' \/ \E s \in Tasks : task'[s].step = "join" /\ task'[s].invite = w
    <3>1. CASE w = v
      BY <2>2, <2>3, <3>1
    <3>2. CASE w # v
      BY <1>o, <2>1, <2>2, <2>4, <3>2 DEF InviteInv, InviteUsedOnce
    <3> QED BY <3>1, <3>2
  <2>5. \A s \in Tasks : task'[s].step = "join" => invite[task'[s].invite].by = task'[s].user
    BY <1>o, <2>2 DEF InviteInv
  <2>6. \A w \in Invites : \A x \in Users : <<w, x>> \in joined' => invite[w].by = x
    BY <2>2, <2>3 DEF InviteInv, InviteUsedOnce
  <2> QED BY <2>2, <2>4, <2>5, <2>6 DEF InviteInv, InviteUsedOnce
<1>6. CASE Abandon(t)
  <2>1. UNCHANGED <<joined, invite>> /\ faults' = faults + 1 /\ task'[t].step = "idle"
    BY <1>0, <1>6 DEF Abandon, tables, history, Finish, Idle
  <2> QED BY <1>0, <1>o, <2>1, InviteKept
<1> QED BY <1>1, <1>2, <1>3, <1>4, <1>5, <1>6 DEF TaskStep

LEMMA InviteNext == Typed /\ Typed' /\ InviteInv /\ [Next]_vars => InviteInv'
<1> SUFFICES ASSUME Typed, Typed', InviteInv, [Next]_vars PROVE InviteInv'
  OBVIOUS
<1>1. ASSUME NEW t \in Tasks, NEW u \in Users, Arrival(t, u) PROVE InviteInv'
  BY <1>1, ArrivalReads, InviteKept DEF Typed
<1>2. CASE (\E u \in Users : UserDeleted(u)) \/ UNCHANGED vars
  BY <1>2 DEF UserDeleted, vars, tables, history, InviteInv, InviteUsedOnce, At
<1> QED BY <1>1, <1>2, InviteStep DEF Next

\* However many requests accept an invite at once, it makes one member, the one
\* recorded on it; and it is used up without a member only after a fault.
THEOREM InvitesUsedOnce == Spec => []InviteUsedOnce
<1>1. InviteInv => InviteUsedOnce
  BY DEF InviteInv
<1> QED BY <1>1, InviteInit, InviteNext, InitTyped, NextTyped, PTL DEF Spec
-----------------------------------------------------------------------------
\* Onboarding.

LEMMA OnboardInit == Init => OnboardInv
  BY DEF Init, OnboardInv, Onboards, Owns, Idle

\* Steps after which nobody onboards or owns who did not before.
LEMMA OnboardKept ==
  ASSUME OnboardInv, overlapped \subseteq overlapped',
         \A s \in Tasks, u \in Users : Onboards(s, u)' => Onboards(s, u),
         \A o \in Orgs, u \in Users : Owns(u, o)' => Owns(u, o)
  PROVE  OnboardInv'
  BY DEF OnboardInv

\* Only onboarding makes an owner.
LEMMA NoNewOwner ==
  ASSUME Typed, NEW t \in Tasks, TaskStep(t) \/ Abandon(t), ~OnboardOwner(t)
  PROVE  \A o \in Orgs, u \in Users : GetOrgMember(o, u)' = "owner" => GetOrgMember(o, u) = "owner"
<1>0. WellRead(task[t]) /\ MembersTyped
  BY DEF Typed, TypeOK, TasksTyped, MembersTyped, MemberRecords
<1>1. CASE WriteTarget(t)
  <2>1. PICK o \in Orgs, x \in Users : o = task[t].org /\ x = task[t].target
    BY <1>0, <1>1 DEF WriteTarget, At, WellRead, OrgSteps, TargetSteps
  <2> QED BY <1>1, <2>1, TargetWritten DEF GetOrgMember
<1>2. CASE Join(t)
  <2>1. PICK o \in Orgs, u \in Users, r \in GivenRoles :
           o = task[t].org /\ u = task[t].user /\ r = task[t].role
    BY <1>0, <1>2 DEF Join, At, WellRead, OrgSteps, UserSteps, RoleSteps
  <2>2. /\ GetOrgMember(o, u)' # "owner"
        /\ \A p \in Orgs, y \in Users : p # o \/ y # u => member'[p][y] = member[p][y]
    BY <1>0, <1>2, <2>1, MemberAdded, RolesGiven DEF Join
  <2> QED BY <2>2 DEF GetOrgMember
<1>3. CASE UNCHANGED member
  BY <1>3 DEF GetOrgMember
<1> QED BY <1>1, <1>2, <1>3
     DEF TaskStep, Abandon, OnboardCreate, OnboardProject, SoftDeleteOrganization, CheckTarget, CountOwners,
         InsertInvite, StoreRevokeInvite, CheckNotMember, MarkAccepted, tables

LEMMA OnboardStep ==
  ASSUME Typed, Typed', OrgInv, OnboardInv, NEW t \in Tasks, TaskStep(t) \/ Abandon(t)
  PROVE  OnboardInv'
<1>0. task \in [Tasks -> TaskRecords] /\ WellRead(task[t]) /\ MembersTyped
  BY DEF Typed, TypeOK, TasksTyped, MembersTyped, MemberRecords
<1>o. \A s \in Tasks \ {t} : task'[s] = task[s]
  BY OthersWait DEF RequestStep
<1>h. UNCHANGED overlapped
  BY DEF TaskStep, Abandon, OnboardCreate, OnboardOwner, OnboardProject, SoftDeleteOrganization, CheckTarget, CountOwners,
         WriteTarget, InsertInvite, StoreRevokeInvite, CheckNotMember, MarkAccepted, Join, history
<1>1. ASSUME NEW p \in Orgs, OnboardCreate(t, p) PROVE OnboardInv'
  <2>1. /\ UNCHANGED member /\ org[p].state = "none" /\ task[t].step = "createOrg"
        /\ task'[t].step = "addOwner" /\ task'[t].user = task[t].user
        /\ \A q \in Orgs \ {p} : org'[q] = org[q]
    BY <1>0, <1>1 DEF OnboardCreate, CreateOrganization, At, TaskRecords, Typed, TypeOK
  <2>2. \A u \in Users : ~member[p][u].active
    BY <2>1 DEF OrgInv, Untouched
  <2>3. \A o \in Orgs, u \in Users : Owns(u, o)' => Owns(u, o)
    BY <2>1, <2>2, NoneAssumption DEF Owns, GetOrgMember
  <2>4. \A s \in Tasks, u \in Users : Onboards(s, u)' => Onboards(s, u)
    BY <1>o, <2>1 DEF Onboards
  <2> QED BY <1>h, <2>3, <2>4, OnboardKept
<1>2. CASE OnboardOwner(t)
  <2>1. PICK o \in Orgs, u \in Users : o = task[t].org /\ u = task[t].user
    BY <1>0, <1>2 DEF OnboardOwner, At, WellRead, OrgSteps, UserSteps
  <2>2. /\ UNCHANGED org /\ task[t].step = "addOwner" /\ task'[t].step = "project"
        /\ \A p \in Orgs, y \in Users : p # o \/ y # u => member'[p][y] = member[p][y]
    BY <1>0, <1>2, <2>1, MemberAdded, RolesGiven DEF OnboardOwner, At, Goto, TaskRecords
  <2>3. Onboards(t, u)
    BY <2>1, <2>2 DEF Onboards
  <2>4. \A s \in Tasks, y \in Users : Onboards(s, y)' => s # t /\ Onboards(s, y)
    BY <1>o, <2>2 DEF Onboards
  <2>5. \A p \in Orgs, y \in Users : Owns(y, p)' => Owns(y, p) \/ (p = o /\ y = u)
    BY <2>2 DEF Owns, GetOrgMember
  <2>6. u \notin overlapped => /\ \A s \in Tasks : Onboards(s, u) => s = t
                               /\ \A p \in Orgs : ~Owns(u, p)
    BY <2>3 DEF OnboardInv
  <2> QED BY <1>h, <2>4, <2>5, <2>6 DEF OnboardInv
<1>3. CASE ~OnboardOwner(t) /\ \A p \in Orgs : ~OnboardCreate(t, p)
  <2>1. \A o \in Orgs, u \in Users : Owns(u, o)' => Owns(u, o)
    BY <1>3, NoNewOwner, StaysInside DEF Owns
  <2>2. task'[t].step # "createOrg"
    BY <1>0, <1>3
       DEF TaskStep, Abandon, OnboardProject, SoftDeleteOrganization, CheckTarget, CountOwners, WriteTarget,
           InsertInvite, StoreRevokeInvite, CheckNotMember, MarkAccepted, Join, Goto, Finish, Idle, TaskRecords
  <2>3. \A s \in Tasks, u \in Users : Onboards(s, u)' => Onboards(s, u)
    BY <1>3, <1>o, <2>2, StaysInside DEF Onboards
  <2> QED BY <1>h, <2>1, <2>3, OnboardKept
<1> QED BY <1>1, <1>2, <1>3

LEMMA OnboardNext == Typed /\ Typed' /\ OrgInv /\ OnboardInv /\ [Next]_vars => OnboardInv'
<1> SUFFICES ASSUME Typed, Typed', OrgInv, OnboardInv, [Next]_vars PROVE OnboardInv'
  OBVIOUS
<1>1. ASSUME NEW t \in Tasks, NEW u \in Users, Arrival(t, u) PROVE OnboardInv'
  <2>1. /\ UNCHANGED <<org, member>> /\ \A s \in Tasks \ {t} : task'[s] = task[s]
        /\ task'[t].step \in {"createOrg", "deleteOrg", "updateCheck", "removeCheck", "insertInvite",
                              "revoke", "notMember"}
    BY <1>1, ArrivalReads
  <2>2. \A o \in Orgs, x \in Users : Owns(x, o)' = Owns(x, o)
    BY <2>1 DEF Owns, GetOrgMember
  <2>3. CASE task'[t].step # "createOrg"
    <3>1. UNCHANGED overlapped
      BY <1>1, <2>3, ArrivalReads
    <3>2. \A s \in Tasks, x \in Users : Onboards(s, x)' => Onboards(s, x)
      BY <2>1, <2>3 DEF Onboards
    <3> QED BY <2>2, <3>1, <3>2, OnboardKept
  <2>4. CASE task'[t].step = "createOrg"
    <3>1. Onboarding(t, u) /\ task'[t].user = u
      BY <1>1, <2>4, ArrivalReads
    <3>2. \A o \in Orgs : ~Owns(u, o)
      BY <3>1, RolesGiven DEF Onboarding, GetOrganizationsForUser, Owns, GetOrgMember
    <3>3. \A s \in Tasks, x \in Users : Onboards(s, x)' => Onboards(s, x) \/ (s = t /\ x = u)
      BY <2>1, <3>1 DEF Onboards
    <3>4. /\ overlapped \subseteq overlapped'
          /\ u \notin overlapped' => \A s \in Tasks : ~Onboards(s, u)
      BY <3>1 DEF Onboarding, Onboards
    <3> QED BY <2>2, <3>2, <3>3, <3>4 DEF OnboardInv
  <2> QED BY <2>3, <2>4
<1>2. ASSUME NEW u \in Users, UserDeleted(u) PROVE OnboardInv'
  <2>1. UNCHANGED <<org, task, overlapped>>
    BY <1>2 DEF UserDeleted
  <2>2. \A o \in Orgs, x \in Users : Owns(x, o)' => Owns(x, o)
    BY <1>2, <2>1, OwnersDeleted DEF Owns
  <2>3. \A s \in Tasks, x \in Users : Onboards(s, x)' => Onboards(s, x)
    BY <2>1 DEF Onboards
  <2> QED BY <2>1, <2>2, <2>3, OnboardKept
<1>3. CASE UNCHANGED vars
  BY <1>3 DEF vars, tables, history, OnboardInv, Onboards, Owns, GetOrgMember
<1> QED BY <1>1, <1>2, <1>3, OnboardStep DEF Next

LEMMA OwnsOne == OnboardInv => DoubleOnboardingExplained
<1> SUFFICES ASSUME OnboardInv, NEW u \in Users \ overlapped,
                    Cardinality({o \in Orgs : Owns(u, o)}) > 1
             PROVE  FALSE
  BY DEF DoubleOnboardingExplained, Owns
<1> DEFINE S == {o \in Orgs : Owns(u, o)}
<1>1. CASE S = {}
  BY <1>1, FS_EmptySet
<1>2. CASE S # {}
  <2>1. PICK o \in Orgs : Owns(u, o)
    BY <1>2
  <2>2. S = {o}
    BY <2>1 DEF OnboardInv
  <2> QED BY <2>2, FS_Singleton
<1> QED BY <1>1, <1>2

\* A user who owns two live organisations onboarded twice at once, whatever else
\* ran in between: the look at GetOrganizationsForUser stops every later one.
THEOREM OnboardingOverlapped == Spec => []DoubleOnboardingExplained
<1>1. Init => OrgInv /\ OnboardInv
  BY OrgInit, OnboardInit
<1>2. Typed /\ Typed' /\ OrgInv /\ OnboardInv /\ [Next]_vars => OrgInv' /\ OnboardInv'
  BY OrgNext, OnboardNext
<1> QED BY <1>1, <1>2, OwnsOne, InitTyped, NextTyped, PTL DEF Spec
-----------------------------------------------------------------------------
\* Projects.

\* Steps that end no onboarding without a project.
LEMMA ProjectKept ==
  ASSUME Typed, Typed', ProjectlessExplained, NEW t \in Tasks, project \subseteq project', faults' >= faults,
         \A s \in Tasks \ {t} : task'[s] = task[s],
         \A o \in Orgs : org'[o].by = org[o].by \/ (task'[t].step = "addOwner" /\ task'[t].org = o),
         task[t].step \in {"addOwner", "project"} =>
            \/ task'[t].step \in {"addOwner", "project"} /\ task'[t].org = task[t].org
            \/ project' # {} \/ faults' > 0
  PROVE  ProjectlessExplained'
<1>0. faults \in Nat /\ faults' \in Nat
  BY DEF Typed
<1> SUFFICES ASSUME NEW o \in Orgs, org'[o].by # None, faults' = 0,
                    \A s \in Tasks : ~(task'[s].step \in {"addOwner", "project"} /\ task'[s].org = o)
             PROVE  project' # {}
  BY DEF ProjectlessExplained, InProgress
<1>1. org[o].by # None /\ faults = 0
  BY <1>0
<1>2. CASE InProgress(o, {"addOwner", "project"})
  <2>1. task[t].step \in {"addOwner", "project"} /\ task[t].org = o
    BY <1>2 DEF InProgress
  <2> QED BY <1>0, <2>1
<1>3. CASE ~InProgress(o, {"addOwner", "project"})
  BY <1>1, <1>3 DEF ProjectlessExplained
<1> QED BY <1>2, <1>3

LEMMA ProjectStep ==
  ASSUME Typed, Typed', ProjectlessExplained, NEW t \in Tasks, TaskStep(t) \/ Abandon(t)
  PROVE  ProjectlessExplained'
<1>0. task \in [Tasks -> TaskRecords] /\ faults \in Nat
  BY DEF Typed, TasksTyped
<1>o. \A s \in Tasks \ {t} : task'[s] = task[s]
  BY OthersWait DEF RequestStep
<1>1. ASSUME NEW p \in Orgs, OnboardCreate(t, p) PROVE ProjectlessExplained'
  <2>1. /\ UNCHANGED <<project, faults>> /\ task[t].step = "createOrg"
        /\ task'[t].step = "addOwner" /\ task'[t].org = p
        /\ \A q \in Orgs \ {p} : org'[q] = org[q]
    BY <1>0, <1>1 DEF OnboardCreate, CreateOrganization, At, TaskRecords, Typed, TypeOK
  <2> QED BY <1>0, <1>o, <2>1, ProjectKept
<1>2. CASE OnboardOwner(t)
  <2>1. /\ UNCHANGED <<org, project, faults>>
        /\ task'[t].step = "project" /\ task'[t].org = task[t].org
    BY <1>0, <1>2 DEF OnboardOwner, Goto, TaskRecords
  <2> QED BY <1>0, <1>o, <2>1, ProjectKept
<1>3. CASE OnboardProject(t)
  <2>1. UNCHANGED <<org, faults>> /\ project \subseteq project' /\ project' # {}
    BY <1>3 DEF OnboardProject, EnsureProjectForOrg
  <2> QED BY <1>0, <1>o, <2>1, ProjectKept
<1>4. CASE Abandon(t)
  <2>1. UNCHANGED <<org, project>> /\ faults' = faults + 1
    BY <1>4 DEF Abandon, tables
  <2> QED BY <1>0, <1>o, <2>1, ProjectKept
<1>5. CASE \/ SoftDeleteOrganization(t) \/ CheckTarget(t) \/ CountOwners(t) \/ WriteTarget(t) \/ InsertInvite(t)
           \/ StoreRevokeInvite(t) \/ CheckNotMember(t) \/ MarkAccepted(t) \/ Join(t)
  <2>1. UNCHANGED <<project, faults>> /\ task[t].step \notin {"createOrg", "addOwner", "project"}
    BY <1>5 DEF SoftDeleteOrganization, CheckTarget, CountOwners, WriteTarget, InsertInvite, StoreRevokeInvite,
                CheckNotMember, MarkAccepted, Join, At, tables
  <2>2. \A o \in Orgs : org'[o].by = org[o].by
    BY <2>1, StaysInside DEF OnboardCreate, At
  <2> QED BY <1>0, <1>o, <2>1, <2>2, ProjectKept
<1> QED BY <1>1, <1>2, <1>3, <1>4, <1>5 DEF TaskStep

LEMMA ProjectNext == Typed /\ Typed' /\ ProjectlessExplained /\ [Next]_vars => ProjectlessExplained'
<1> SUFFICES ASSUME Typed, Typed', ProjectlessExplained, [Next]_vars PROVE ProjectlessExplained'
  OBVIOUS
<1>1. ASSUME NEW t \in Tasks, NEW u \in Users, Arrival(t, u) PROVE ProjectlessExplained'
  BY <1>1, ArrivalReads, ProjectKept DEF Typed
<1>2. CASE (\E u \in Users : UserDeleted(u)) \/ UNCHANGED vars
  BY <1>2 DEF UserDeleted, vars, tables, ProjectlessExplained, InProgress
<1> QED BY <1>1, <1>2, ProjectStep DEF Next

\* An onboarding that runs to its end leaves a project behind, its own or the one
\* whose empty api_key kept it from inserting.
THEOREM OnboardingLeavesProject == Spec => []ProjectlessExplained
<1>1. Init => ProjectlessExplained
  BY DEF Init, ProjectlessExplained
<1> QED BY <1>1, ProjectNext, InitTyped, NextTyped, PTL DEF Spec
=============================================================================
