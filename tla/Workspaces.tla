----------------------------- MODULE Workspaces -----------------------------
(***************************************************************************)
(* Workspaces (tenants), memberships, invites, schedules and account       *)
(* closure: the handlers of controllers/workspaces.go, scheduled_runs.go   *)
(* and account.go over the kawai database and the Kratos identity store.   *)
(*                                                                         *)
(* A handler checks with one statement and acts with another; each         *)
(* statement, or each transaction that only writes, is a step.  A handler  *)
(* may stop between any two of its steps: a database error, a cancelled    *)
(* request context or a crash of the server (Abort).  Read-only handlers   *)
(* change nothing and are left out.  Emails are in bijection with users.   *)
(***************************************************************************)
EXTENDS Naturals, FiniteSets

CONSTANTS
    Proc,        \* requests in flight
    User,        \* Kratos identities, and the lower-cased emails they have
    Tenant,      \* workspace ids (fresh UUIDs)
    Invite,      \* invite ids (fresh UUIDs)
    Schedule,    \* schedule ids (fresh UUIDs)
    Setups,      \* pairs of the path variables of the members routes and the
                 \* handlers clients call, one pair per behaviour
    InputRole,   \* the roles clients send, known to the code or not
    Nil          \* no tenant, no invite, no role, no user

Role == {"owner", "member", "viewer"}

ASSUME InputsAssumption ==
    /\ Nil \notin InputRole
    /\ \A x \in Setups : x[1] \subseteq {"id", "membershipId"}
    /\ Nil \notin User \cup Tenant \cup Invite \cup Role \cup Schedule

VARIABLES
    routeVars,  \* the path variables of the members routes
    work,       \* the handlers clients call
    tenants,    \* rows of tenants
    used,       \* the workspace ids generated so far
    members,    \* tenant_members: members[t][u] is the role, or Nil
    invites,    \* tenant_invites: invites[i] is the row, or Nil
    usedInv,    \* the invite ids generated so far
    schedules,  \* scheduled_runs: schedules[c] is the row, or Nil
    usedSched,  \* the schedule ids generated so far
    purged,     \* the users whose purge transaction has committed
    identity,   \* the users with a Kratos identity
    active,     \* metadata_public.active_workspace_id, or Nil
    pc, req,    \* per request: where its handler is and what it works on
    approved,   \* history: <<t, u, r>>: an owner of t chose role r for u
    held        \* history: <<t, u, r>>: u has held role r in t

agenda == <<schedules, usedSched>>
db == <<tenants, used, members, invites, usedInv, agenda, purged>>
outside == <<identity, active>>
history == <<approved, held>>
setup == <<routeVars, work>>
vars == <<routeVars, work, tenants, used, members, invites, usedInv, schedules, usedSched,
          purged, identity, active, pc, req, approved, held>>

ScheduleRow == [user : User, tenant : Tenant]
InviteRow == [tenant : Tenant, email : User, role : Role, by : User,
              state : {"open", "accepted", "expired"}]

\* What a handler keeps between its steps.
Request == [user : User \cup {Nil}, tenant : Tenant \cup {Nil}, target : User \cup {Nil},
            role : Role \cup InputRole \cup {Nil}, inv : Invite \cup {Nil},
            sched : Schedule \cup {Nil}, content : SUBSET Schedule, doomed : SUBSET Tenant,
            invs : SUBSET Invite, left : SUBSET Tenant]
NoRequest == [user |-> Nil, tenant |-> Nil, target |-> Nil, role |-> Nil, inv |-> Nil,
              sched |-> Nil, content |-> {}, doomed |-> {}, invs |-> {}, left |-> {}]

NoMember == [u \in User |-> Nil]

Init ==
    /\ \E x \in Setups : routeVars = x[1] /\ work = x[2]
    /\ tenants = {} /\ used = {}
    /\ members = [t \in Tenant |-> NoMember]
    /\ invites = [i \in Invite |-> Nil] /\ usedInv = {}
    /\ schedules = [c \in Schedule |-> Nil] /\ usedSched = {}
    /\ purged = {} /\ identity = User
    /\ active = [u \in User |-> Nil]
    /\ pc = [s \in Proc |-> "idle"]
    /\ req = [s \in Proc |-> NoRequest]
    /\ approved = {} /\ held = {}

-----------------------------------------------------------------------------
\* Mutant of validRole: any text is taken for a role.
validRoleAny(r) == r # Nil

validRole(r) == r \in Role

userRole(t, u) == IF t = Nil THEN Nil ELSE members[t][u]
userIsMember(t, u) == userRole(t, u) # Nil
userIsOwner(t, u) == userRole(t, u) = "owner"
countOwners(t) == Cardinality({u \in User : members[t][u] = "owner"})

Goto(s, label) == pc' = [pc EXCEPT ![s] = label]

\* The handler writes its response.
Reply(s) == Goto(s, "idle") /\ req' = [req EXCEPT ![s] = NoRequest]

\* History: who chose the roles (a check that ran while the caller was an
\* owner), and which roles users have held.
Approve(s) ==
    approved' = approved \cup
        IF userIsOwner(req[s].tenant, req[s].user)
        THEN {<<req[s].tenant, req[s].target, req[s].role>>} ELSE {}
Hold(t, u, r) == held' = held \cup {<<t, u, r>>}

\* DELETE FROM tenants as the handlers rely on it: the foreign keys of the
\* database, whose schema is not in the repository, cascade to the rows.
DropTenants(D) ==
    /\ tenants' = tenants \ D
    /\ members' = [t \in Tenant |-> IF t \in D THEN NoMember ELSE members[t]]
    /\ invites' = [i \in Invite |->
                      IF invites[i] # Nil /\ invites[i].tenant \in D THEN Nil ELSE invites[i]]

\* PostgreSQL row locks: what an uncommitted purge of another request has
\* deleted (workspaces, invites, memberships) makes a statement that writes
\* one of these rows, or a row that references them, wait for it to end.
Purging(o) == pc[o] \in {"closeInvites", "closeMembers", "closeCommit"}
Free(s, t) == \A o \in Proc \ {s} : Purging(o) => t \notin req[o].doomed
FreeInvite(s, i) == \A o \in Proc \ {s} : Purging(o) => i \notin req[o].invs
FreeMember(s, t, u) ==
    /\ Free(s, t)
    /\ \A o \in Proc \ {s} : Purging(o) /\ req[o].user = u => t \notin req[o].left
FreeRows(s, t) ==
    /\ \A u \in User : members[t][u] # Nil => FreeMember(s, t, u)
    /\ \A i \in Invite : invites[i] # Nil /\ invites[i].tenant = t => FreeInvite(s, i)

\* The edge authenticates the caller and hands the request to the server.
Begin(s, label, r) ==
    /\ pc[s] = "idle" /\ label \in work
    /\ r.user \in identity
    /\ Goto(s, label)
    /\ req' = [req EXCEPT ![s] = r]
    /\ UNCHANGED <<setup, db, outside, history>>

\* An error, a cancelled context or a crash ends the handler between steps.
Abort(s) ==
    /\ pc[s] # "idle"
    /\ Reply(s)
    /\ UNCHANGED <<setup, db, outside, history>>

-----------------------------------------------------------------------------
(***************************************************************************)
(* Workspaces.                                                             *)
(***************************************************************************)
\* TenantsCreateHandler: one transaction inserts the workspace and its owner.
TenantsCreate(s) ==
    /\ pc[s] = "create"
    /\ \E t \in Tenant \ used :
          /\ tenants' = tenants \cup {t}
          /\ used' = used \cup {t}
          /\ members' = [members EXCEPT ![t][req[s].user] = "owner"]
          /\ approved' = approved \cup {<<t, req[s].user, "owner">>}
          /\ Hold(t, req[s].user, "owner")
    /\ Reply(s)
    /\ UNCHANGED <<setup, invites, usedInv, agenda, purged, outside>>

\* TenantDeleteHandler: owner check, then the DELETE.
TenantDeleteCheck(s) ==
    /\ pc[s] = "delete" /\ userIsOwner(req[s].tenant, req[s].user)
    /\ Goto(s, "deleteExec")
    /\ UNCHANGED <<setup, db, outside, history, req>>

TenantDeleteExec(s) ==
    /\ pc[s] = "deleteExec"
    /\ Free(s, req[s].tenant) /\ FreeRows(s, req[s].tenant)
    /\ DropTenants({req[s].tenant})
    /\ Reply(s)
    /\ UNCHANGED <<setup, used, usedInv, agenda, purged, outside, history>>

-----------------------------------------------------------------------------
(***************************************************************************)
(* Invites.                                                                *)
(***************************************************************************)
\* Mutant of InviteCreateCheck: anybody who is logged in may invite.
InviteCreateUnchecked(s) ==
    /\ pc[s] = "invite" /\ validRole(req[s].role)
    /\ Goto(s, "inviteExec")
    /\ Approve(s)
    /\ UNCHANGED <<setup, db, outside, held, req>>

\* TenantInviteCreateHandler: a known role, owner check, then the INSERT, which
\* the foreign key on tenants refuses when the workspace is gone.
InviteCreateCheck(s) ==
    /\ pc[s] = "invite" /\ validRole(req[s].role)
    /\ userIsOwner(req[s].tenant, req[s].user)
    /\ Goto(s, "inviteExec")
    /\ Approve(s)
    /\ UNCHANGED <<setup, db, outside, held, req>>

InviteCreateExec(s) ==
    /\ pc[s] = "inviteExec" /\ req[s].tenant \in tenants
    /\ Free(s, req[s].tenant)
    /\ \E i \in Invite \ usedInv :
          /\ invites' = [invites EXCEPT ![i] =
                            [tenant |-> req[s].tenant, email |-> req[s].target,
                             role |-> req[s].role, by |-> req[s].user, state |-> "open"]]
          /\ usedInv' = usedInv \cup {i}
    /\ Reply(s)
    /\ UNCHANGED <<setup, tenants, used, members, agenda, purged, outside, history>>

\* expires_at passes.
InviteExpires(i) ==
    /\ invites[i] # Nil /\ invites[i].state = "open"
    /\ invites' = [invites EXCEPT ![i].state = "expired"]
    /\ UNCHANGED <<setup, tenants, used, members, usedInv, agenda, purged, outside, history, pc, req>>

\* TenantInviteAcceptHandler: the SELECT takes no lock; what it read is used
\* by the writes that follow.
InviteAcceptSelect(s) ==
    /\ pc[s] = "accept"
    /\ LET inv == invites[req[s].inv]
       IN  /\ inv # Nil /\ inv.state = "open" /\ inv.email = req[s].user
           /\ req' = [req EXCEPT ![s].tenant = inv.tenant, ![s].role = inv.role]
    /\ Goto(s, "acceptExec")
    /\ UNCHANGED <<setup, db, outside, history>>

\* INSERT ... ON CONFLICT DO UPDATE SET role, then the UPDATE of the invite row
\* (if it is still there), then COMMIT.
InviteAcceptExec(s) ==
    /\ pc[s] = "acceptExec" /\ req[s].tenant \in tenants
    /\ FreeMember(s, req[s].tenant, req[s].user) /\ FreeInvite(s, req[s].inv)
    /\ members' = [members EXCEPT ![req[s].tenant][req[s].user] = req[s].role]
    /\ invites' = IF invites[req[s].inv] = Nil THEN invites
                  ELSE [invites EXCEPT ![req[s].inv].state = "accepted"]
    /\ Hold(req[s].tenant, req[s].user, req[s].role)
    /\ Reply(s)
    /\ UNCHANGED <<setup, tenants, used, usedInv, agenda, purged, outside, approved>>

-----------------------------------------------------------------------------
(***************************************************************************)
(* Members.  The handlers take the workspace from the path variable "id".  *)
(***************************************************************************)
PathTenant(t) == IF "id" \in routeVars THEN t ELSE Nil

\* membershipUserID: the prefix of "<tenantId>:<userId>" must be the workspace.
membershipUserID(t, u) == IF PathTenant(t) = t THEN u ELSE Nil

\* A members request whose membershipId the handler refuses with 400.
MembershipIdInvalid(s) ==
    /\ pc[s] \in {"role", "remove"}
    /\ membershipUserID(req[s].tenant, req[s].target) = Nil
    /\ Goto(s, "rejected")
    /\ UNCHANGED <<setup, db, outside, history, req>>

\* MemberUpdateRoleHandler: a known role, owner check, last-owner guard, UPDATE.
MemberUpdateRoleCheck(s) ==
    /\ pc[s] = "role" /\ membershipUserID(req[s].tenant, req[s].target) # Nil
    /\ validRole(req[s].role) /\ userIsOwner(req[s].tenant, req[s].user)
    /\ Goto(s, "roleGuard")
    /\ Approve(s)
    /\ UNCHANGED <<setup, db, outside, held, req>>

MemberUpdateRoleGuard(s) ==
    /\ pc[s] = "roleGuard"
    /\ req[s].target = req[s].user /\ req[s].role # "owner" => countOwners(req[s].tenant) > 1
    /\ Goto(s, "roleExec")
    /\ UNCHANGED <<setup, db, outside, history, req>>

MemberUpdateRoleExec(s) ==
    /\ pc[s] = "roleExec" /\ userIsMember(req[s].tenant, req[s].target)
    /\ FreeMember(s, req[s].tenant, req[s].target)
    /\ members' = [members EXCEPT ![req[s].tenant][req[s].target] = req[s].role]
    /\ Hold(req[s].tenant, req[s].target, req[s].role)
    /\ Reply(s)
    /\ UNCHANGED <<setup, tenants, used, invites, usedInv, agenda, purged, outside, approved>>

\* Mutant of MemberRemoveCheck: who asks is not looked at.
MemberRemoveUnchecked(s) ==
    /\ pc[s] = "remove" /\ membershipUserID(req[s].tenant, req[s].target) # Nil
    /\ Goto(s, "removeGuard")
    /\ UNCHANGED <<setup, db, outside, history, req>>

\* MemberRemoveHandler: owner or self, sole-owner guard, DELETE.
MemberRemoveCheck(s) ==
    /\ pc[s] = "remove" /\ membershipUserID(req[s].tenant, req[s].target) # Nil
    /\ req[s].target # req[s].user => userIsOwner(req[s].tenant, req[s].user)
    /\ Goto(s, "removeGuard")
    /\ UNCHANGED <<setup, db, outside, history, req>>

MemberRemoveGuard(s) ==
    /\ pc[s] = "removeGuard"
    /\ req[s].target = req[s].user /\ userIsOwner(req[s].tenant, req[s].user)
          => countOwners(req[s].tenant) > 1
    /\ Goto(s, "removeExec")
    /\ UNCHANGED <<setup, db, outside, history, req>>

\* The error of userRole is dropped: a failed read looks like no role.
MemberRemoveGuardError(s) ==
    /\ pc[s] = "removeGuard" /\ req[s].target = req[s].user
    /\ Goto(s, "removeExec")
    /\ UNCHANGED <<setup, db, outside, history, req>>

MemberRemoveExec(s) ==
    /\ pc[s] = "removeExec"
    /\ FreeMember(s, req[s].tenant, req[s].target)
    /\ members' = [members EXCEPT ![req[s].tenant][req[s].target] = Nil]
    /\ Reply(s)
    /\ UNCHANGED <<setup, tenants, used, invites, usedInv, agenda, purged, outside, history>>

-----------------------------------------------------------------------------
(***************************************************************************)
(* The account: closure (AccountDeleteHandler) and the active workspace.   *)
(***************************************************************************)
\* Step 1c of the purge: the workspaces with exactly one membership row among
\* the rows of the closing user.
soleMemberTenants(u) ==
    {t \in tenants : Cardinality({v \in {u} : members[t][v] # Nil}) = 1}

\* Mutant of AccountPurgeSelect: the transaction is never committed.
AccountPurgeForgotten(s) ==
    /\ pc[s] = "close"
    /\ Goto(s, "talos")
    /\ UNCHANGED <<setup, db, outside, history, req>>

\* One transaction.  Each DELETE sees the rows committed before it; what it
\* removes is kept in the request until COMMIT makes it visible.
\* Statements 1a to 1c: schedules (content) and workspaces, with their rows.
AccountPurgeSelect(s) ==
    LET D == soleMemberTenants(req[s].user)
    IN  /\ pc[s] = "close"
        /\ \A t \in D : Free(s, t) /\ FreeRows(s, t)
        /\ req' = [req EXCEPT ![s].doomed = D,
                              ![s].content = {c \in Schedule : /\ schedules[c] # Nil
                                                               /\ schedules[c].user = req[s].user}]
        /\ Goto(s, "closeInvites")
        /\ UNCHANGED <<setup, db, outside, history>>

\* Statement 1d.  Without an email header only invites the user created go.
AccountPurgeInvites(s) ==
    \E mail \in BOOLEAN :
        LET I == {i \in Invite : /\ invites[i] # Nil /\ invites[i].tenant \notin req[s].doomed
                                 /\ \/ invites[i].by = req[s].user
                                    \/ mail /\ invites[i].email = req[s].user}
        IN  /\ pc[s] = "closeInvites"
            /\ \A i \in I : Free(s, invites[i].tenant) /\ FreeInvite(s, i)
            /\ req' = [req EXCEPT ![s].invs = I]
            /\ Goto(s, "closeMembers")
            /\ UNCHANGED <<setup, db, outside, history>>

\* Statement 1e: the remaining memberships.
AccountPurgeMembers(s) ==
    LET T == {t \in Tenant \ req[s].doomed : members[t][req[s].user] # Nil}
    IN  /\ pc[s] = "closeMembers"
        /\ \A t \in T : FreeMember(s, t, req[s].user)
        /\ req' = [req EXCEPT ![s].left = T]
        /\ Goto(s, "closeCommit")
        /\ UNCHANGED <<setup, db, outside, history>>

\* COMMIT: content, workspaces, invites and memberships go together.
AccountPurgeCommit(s) ==
    LET u == req[s].user
        D == req[s].doomed
    IN  /\ pc[s] = "closeCommit"
        /\ purged' = purged \cup {u}
        /\ tenants' = tenants \ D
        /\ members' = [t \in Tenant |->
                          IF t \in D THEN NoMember
                          ELSE [members[t] EXCEPT ![u] = IF t \in req[s].left THEN Nil ELSE @]]
        /\ invites' = [i \in Invite |->
                          IF invites[i] # Nil /\ (i \in req[s].invs \/ invites[i].tenant \in D)
                          THEN Nil ELSE invites[i]]
        /\ schedules' = [c \in Schedule |-> IF c \in req[s].content THEN Nil ELSE schedules[c]]
        /\ Goto(s, "talos")
        /\ req' = [req EXCEPT ![s] = [NoRequest EXCEPT !.user = u]]
        /\ UNCHANGED <<setup, used, usedInv, usedSched, outside, history>>

\* Talos: the purge of the keys is best effort, every error is logged and
\* ignored, and nothing here reads that store back: it only takes time.
AccountTalosPurge(s) ==
    /\ pc[s] = "talos"
    /\ Goto(s, "kratos")
    /\ UNCHANGED <<setup, db, outside, history, req>>

\* Kratos last: 200, 204 and 404 all mean the identity is gone.
AccountIdentityDelete(s) ==
    /\ pc[s] = "kratos"
    /\ identity' = identity \ {req[s].user}
    /\ active' = [active EXCEPT ![req[s].user] = Nil]
    /\ Reply(s)
    /\ UNCHANGED <<setup, db, history>>

\* Mutant of ActiveWorkspaceCheck: membership is not looked at.
ActiveWorkspaceUnchecked(s) ==
    /\ pc[s] = "active"
    /\ Goto(s, "activeGet")
    /\ UNCHANGED <<setup, db, outside, history, req>>

\* ActiveWorkspaceSetHandler: membership check, then GET and PUT of the identity
\* (setKratosMetadata); the other metadata the PUT sends back is not modelled.
ActiveWorkspaceCheck(s) ==
    /\ pc[s] = "active" /\ userIsMember(req[s].tenant, req[s].user)
    /\ Goto(s, "activeGet")
    /\ UNCHANGED <<setup, db, outside, history, req>>

ActiveWorkspaceGet(s) ==
    /\ pc[s] = "activeGet" /\ req[s].user \in identity
    /\ Goto(s, "activePut")
    /\ UNCHANGED <<setup, db, outside, history, req>>

ActiveWorkspacePut(s) ==
    /\ pc[s] = "activePut" /\ req[s].user \in identity
    /\ active' = [active EXCEPT ![req[s].user] = req[s].tenant]
    /\ Reply(s)
    /\ UNCHANGED <<setup, db, identity, history>>

-----------------------------------------------------------------------------
(***************************************************************************)
(* Schedules.  The table has no foreign key to tenants, so a row may       *)
(* outlive its workspace.  The scheduler that runs them is another program.*)
(***************************************************************************)
SchedulesCreate(s) ==
    /\ pc[s] = "schedCreate"
    /\ \E c \in Schedule \ usedSched :
          /\ schedules' = [schedules EXCEPT ![c] =
                              [user |-> req[s].user, tenant |-> req[s].tenant]]
          /\ usedSched' = usedSched \cup {c}
    /\ Reply(s)
    /\ UNCHANGED <<setup, tenants, used, members, invites, usedInv, purged, outside, history>>

\* Mutant of SchedulesDeleteCheck: any schedule of the workspace may be deleted.
SchedulesDeleteUnowned(s) ==
    /\ pc[s] = "schedDelete"
    /\ schedules[req[s].sched] # Nil /\ schedules[req[s].sched].tenant = req[s].tenant
    /\ Goto(s, "schedDeleteExec")
    /\ UNCHANGED <<setup, db, outside, history, req>>

\* SchedulesDeleteHandler: the caller's own schedule in this workspace, then
\* the DELETE by id.
SchedulesDeleteCheck(s) ==
    /\ pc[s] = "schedDelete"
    /\ schedules[req[s].sched] = [user |-> req[s].user, tenant |-> req[s].tenant]
    /\ Goto(s, "schedDeleteExec")
    /\ UNCHANGED <<setup, db, outside, history, req>>

SchedulesDeleteExec(s) ==
    /\ pc[s] = "schedDeleteExec"
    /\ schedules' = [schedules EXCEPT ![req[s].sched] = Nil]
    /\ Reply(s)
    /\ UNCHANGED <<setup, tenants, used, members, invites, usedInv, usedSched, purged, outside,
                   history>>

-----------------------------------------------------------------------------
\* On scoped routes the edge injects the active workspace as X-Tenant-Id, and
\* RequireWorkspaceMembership lets its members through to the handler.
RequireWorkspaceMembership(u) == active[u] # Nil /\ userIsMember(active[u], u)
Scoped(u) == [NoRequest EXCEPT !.user = u, !.tenant = active[u]]

Arrive(s) ==
    \E u \in User :
        \/ Begin(s, "create", [NoRequest EXCEPT !.user = u])
        \/ Begin(s, "close", [NoRequest EXCEPT !.user = u])
        \/ \E t \in used : Begin(s, "active", [NoRequest EXCEPT !.user = u, !.tenant = t])
        \/ \E i \in usedInv : Begin(s, "accept", [NoRequest EXCEPT !.user = u, !.inv = i])
        \/ /\ RequireWorkspaceMembership(u)
           /\ \/ Begin(s, "delete", Scoped(u))
              \/ \E v \in User, r \in InputRole :
                    \/ Begin(s, "invite", [Scoped(u) EXCEPT !.target = v, !.role = r])
                    \/ Begin(s, "role", [Scoped(u) EXCEPT !.target = v, !.role = r])
              \/ \E v \in User : Begin(s, "remove", [Scoped(u) EXCEPT !.target = v])
              \/ Begin(s, "schedCreate", Scoped(u))
              \/ \E c \in usedSched : Begin(s, "schedDelete", [Scoped(u) EXCEPT !.sched = c])

Step(s) ==
    \/ TenantsCreate(s) \/ TenantDeleteCheck(s) \/ TenantDeleteExec(s)
    \/ InviteCreateCheck(s) \/ InviteCreateExec(s)
    \/ InviteAcceptSelect(s) \/ InviteAcceptExec(s)
    \/ MembershipIdInvalid(s)
    \/ MemberUpdateRoleCheck(s) \/ MemberUpdateRoleGuard(s) \/ MemberUpdateRoleExec(s)
    \/ MemberRemoveCheck(s) \/ MemberRemoveGuard(s) \/ MemberRemoveGuardError(s)
    \/ MemberRemoveExec(s)
    \/ AccountPurgeSelect(s) \/ AccountPurgeInvites(s) \/ AccountPurgeMembers(s)
    \/ AccountPurgeCommit(s) \/ AccountTalosPurge(s) \/ AccountIdentityDelete(s)
    \/ ActiveWorkspaceCheck(s) \/ ActiveWorkspaceGet(s) \/ ActiveWorkspacePut(s)
    \/ SchedulesCreate(s) \/ SchedulesDeleteCheck(s) \/ SchedulesDeleteExec(s)

Next ==
    \/ \E s \in Proc : Arrive(s) \/ Step(s) \/ Abort(s)
    \/ \E i \in Invite : InviteExpires(i)

Spec == Init /\ [][Next]_vars

-----------------------------------------------------------------------------
Label == {"idle", "create", "delete", "deleteExec", "invite", "inviteExec", "accept",
          "acceptExec", "role", "roleGuard", "roleExec", "remove", "removeGuard", "removeExec",
          "rejected", "close", "closeInvites", "closeMembers", "closeCommit", "talos", "kratos",
          "active", "activeGet", "activePut", "schedCreate", "schedDelete", "schedDeleteExec"}

\* Every variable has its type: in particular a member and an invite have one of
\* the three roles the code knows, whatever text clients send for a role.
TypeOK ==
    /\ \E x \in Setups : routeVars = x[1] /\ work = x[2]
    /\ used \subseteq Tenant /\ tenants \subseteq used
    /\ members \in [Tenant -> [User -> Role \cup {Nil}]]
    /\ invites \in [Invite -> InviteRow \cup {Nil}]
    /\ usedInv \subseteq Invite
    /\ schedules \in [Schedule -> ScheduleRow \cup {Nil}] /\ usedSched \subseteq Schedule
    /\ purged \subseteq User /\ identity \subseteq User
    /\ active \in [User -> Tenant \cup {Nil}]
    /\ pc \in [Proc -> Label]
    /\ req \in [Proc -> Request]
    /\ approved \cup held \subseteq Tenant \X User \X (Role \cup InputRole)

\* Nobody holds a role in a workspace unless they created it, or somebody who
\* was an owner of it when the handler looked chose exactly that role for them,
\* by invite or by role update, however checks, writes, deletions, closures and
\* failures interleave.
RolesTraceable ==
    \A t \in Tenant, u \in User :
        members[t][u] # Nil => <<t, u, members[t][u]>> \in approved

WasOwner(t, u) == <<t, u, "owner">> \in held
WasMember(t, u) == \E r \in Role : <<t, u, r>> \in held

\* Nobody is put out of a workspace by a stranger: a membership goes only when
\* the user leaves, when somebody who has been an owner of the workspace removes
\* the user or deletes the workspace, or when an account that has been a member
\* of it is closed; checks, guards and deletes are separate statements, and an
\* owner may lose the role in between.
MembersKept ==
    [][\A t \in Tenant, u \in User : members[t][u] # Nil /\ members'[t][u] = Nil =>
          \E s \in Proc :
              /\ pc'[s] # pc[s]
              /\ \/ /\ pc[s] = "removeExec" /\ req[s].tenant = t /\ req[s].target = u
                    /\ req[s].user = u \/ WasOwner(t, req[s].user)
                 \/ pc[s] = "deleteExec" /\ req[s].tenant = t /\ WasOwner(t, req[s].user)
                 \/ pc[s] = "closeCommit" /\ WasMember(t, req[s].user)]_vars

\* The identity goes last: nobody loses the login, and with it the way to retry
\* the closure, before the rows of the account were purged, whatever failed or
\* was retried on the way (account.go: Kratos LAST).
IdentityLast == User \ identity \subseteq purged

\* The workspace the edge injects for a user is one the user was a member of.
ActiveWasMember ==
    \A u \in User : active[u] # Nil => WasMember(active[u], u)

\* A schedule never changes hands, and it goes only by a deletion or a closure its
\* own user asked for, although the owner is checked in one statement and the
\* row deleted by id in another.
SchedulesKept ==
    [][\A c \in Schedule : schedules[c] # Nil /\ schedules'[c] # schedules[c] =>
          /\ schedules'[c] = Nil
          /\ \E s \in Proc : /\ req[s].user = schedules[c].user
                             /\ pc[s] \in {"schedDeleteExec", "closeCommit"} /\ pc'[s] # pc[s]]_vars

\* Losing the owner role to another role never leaves a workspace without an
\* owner (MemberUpdateRoleHandler: "never let the last owner demote themselves
\* (would strand the ws)").
LastOwnerKept ==
    [][\A t \in Tenant :
          (\E u \in User : members[t][u] = "owner" /\ members'[t][u] \in Role \ {"owner"})
              => \E u \in User : members'[t][u] = "owner"]_vars

\* Closing an account takes no workspace away from its other members
\* ("Delete tenants where the user is the SOLE member", AccountDeleteHandler).
SharedWorkspaceSurvives ==
    [][\A s \in Proc : pc[s] = "closeCommit" /\ pc'[s] = "talos" =>
          \A t \in tenants \ tenants' :
              \A u \in User \ {req[s].user} : members[t][u] = Nil]_vars

\* A membershipId as TenantMembersHandler returns it is not refused as invalid.
MembershipIdAccepted == \A s \in Proc : pc[s] # "rejected"
=============================================================================
