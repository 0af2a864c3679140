-------------------------- MODULE WorkspacesProofs --------------------------
(***************************************************************************)
(* For every number of requests, users, workspaces and invites: every role *)
(* was chosen by an owner, nobody is put out of a workspace by a stranger, *)
(* the identity goes last and the active workspace is one the user was a   *)
(* member of.                                                              *)
(*                                                                         *)
(* None of the four is inductive: the handlers check in one step and write *)
(* in a later one, and an invite carries a role from one request to        *)
(* another.  The invariant follows what was checked through the invites    *)
(* (InvitesApproved) and through the handlers (CheckedRole, CheckedActive, *)
(* CheckedOwner, PurgeDone).                                               *)
(***************************************************************************)
EXTENDS Workspaces, FiniteSetTheorems, TLAPS

\* The fields that a handler has set when it is at a step that uses them.
FieldsSet ==
    \A s \in Proc :
        /\ pc[s] # "idle" => req[s].user \in User
        /\ pc[s] \in {"delete", "deleteExec", "invite", "inviteExec", "acceptExec", "role",
                      "roleGuard", "roleExec", "remove", "removeGuard", "removeExec", "active",
                      "activeGet", "activePut", "schedCreate", "schedDelete"} => req[s].tenant \in Tenant
        /\ pc[s] \in {"invite", "inviteExec", "role", "roleGuard", "roleExec", "remove",
                      "removeGuard", "removeExec"} => req[s].target \in User
        /\ pc[s] \in {"inviteExec", "roleGuard", "roleExec", "acceptExec"} => req[s].role \in Role
        /\ pc[s] \in {"accept", "acceptExec"} => req[s].inv \in Invite
        /\ pc[s] \in {"schedDelete", "schedDeleteExec"} => req[s].sched \in Schedule
        /\ pc[s] = "close" => req[s].left = {}

\* An invite in the table offers a role that an owner chose.
InvitesApproved ==
    \A i \in Invite : invites[i] # Nil =>
        <<invites[i].tenant, invites[i].email, invites[i].role>> \in approved

\* A handler past its owner check, or past the SELECT of an invite, works on a
\* role that an owner chose.
CheckedRole ==
    \A s \in Proc :
        /\ pc[s] \in {"inviteExec", "roleGuard", "roleExec"} =>
              <<req[s].tenant, req[s].target, req[s].role>> \in approved
        /\ pc[s] = "acceptExec" => <<req[s].tenant, req[s].user, req[s].role>> \in approved

\* Members hold the role they have, and a handler past its membership check
\* serves a past member.
MembersHeld == \A t \in Tenant, u \in User : members[t][u] # Nil => <<t, u, members[t][u]>> \in held
CheckedActive ==
    \A s \in Proc : pc[s] \in {"activeGet", "activePut"} => WasMember(req[s].tenant, req[s].user)

\* A handler past its owner check serves a past owner, and a purge has deleted
\* rows of workspaces its user was a member of.
CheckedOwner ==
    \A s \in Proc :
        /\ pc[s] = "deleteExec" => WasOwner(req[s].tenant, req[s].user)
        /\ pc[s] \in {"removeGuard", "removeExec"} =>
              req[s].target = req[s].user \/ WasOwner(req[s].tenant, req[s].user)
        /\ Purging(s) => \A t \in req[s].doomed \cup req[s].left : WasMember(t, req[s].user)

\* A closure that reached Talos or Kratos has committed its purge.
PurgeDone == \A s \in Proc : pc[s] \in {"talos", "kratos"} => req[s].user \in purged

AccessInv == /\ TypeOK /\ FieldsSet /\ InvitesApproved /\ CheckedRole /\ RolesTraceable
             /\ MembersHeld /\ CheckedActive /\ ActiveWasMember /\ CheckedOwner
             /\ PurgeDone /\ IdentityLast

\* Nil is no user, workspace, invite or role.
LEMMA NilFacts == Nil \notin User /\ Nil \notin Tenant /\ Nil \notin Invite /\ Nil \notin Role
  BY InputsAssumption

\* Whom the handlers find to be a member, or an owner, is recorded as one.
LEMMA FoundHeld ==
    ASSUME AccessInv, NEW t \in Tenant, NEW u \in User
    PROVE  /\ members[t][u] # Nil => WasMember(t, u)
           /\ userIsMember(t, u) => WasMember(t, u)
           /\ userIsOwner(t, u) => WasOwner(t, u)
<1>1. members[t][u] # Nil => members[t][u] \in Role
  BY DEF AccessInv, TypeOK
<1>2. members[t][u] # Nil => WasMember(t, u)
  BY <1>1 DEF AccessInv, MembersHeld, WasMember
<1>3. userIsMember(t, u) => members[t][u] # Nil
  BY NilFacts DEF userIsMember, userRole
<1>4. userIsOwner(t, u) => members[t][u] = "owner" /\ members[t][u] # Nil
  BY NilFacts DEF userIsOwner, userRole, Role
<1> QED
  BY <1>2, <1>3, <1>4 DEF AccessInv, MembersHeld, WasOwner

\* An empty database, all identities, no request.
LEMMA InitInv == Init => AccessInv
<1> SUFFICES ASSUME Init PROVE AccessInv
  OBVIOUS
<1>1. NoRequest \in Request /\ NoMember \in [User -> Role \cup {Nil}]
  BY DEF NoRequest, Request, NoMember
<1>2. TypeOK
  BY <1>1 DEF Init, TypeOK, Label
<1> QED
  BY <1>2 DEF Purging, WasMember, Init, AccessInv, FieldsSet, InvitesApproved, CheckedRole, RolesTraceable, MembersHeld,
     CheckedActive, CheckedOwner, ActiveWasMember, PurgeDone, IdentityLast, NoMember

\* A request ends, by its reply or by a failure: what it had checked is forgotten.
LEMMA ReplyFields ==
    ASSUME TypeOK, FieldsSet, NEW s \in Proc, Reply(s)
    PROVE  /\ pc' \in [Proc -> Label] /\ req' \in [Proc -> Request]
           /\ FieldsSet' /\ pc'[s] = "idle"
           /\ \A o \in Proc \ {s} : pc'[o] = pc[o] /\ req'[o] = req[o]
<1>1. NoRequest \in Request
  BY DEF NoRequest, Request
<1>2. /\ pc' = [pc EXCEPT ![s] = "idle"] /\ req' = [req EXCEPT ![s] = NoRequest]
      /\ pc \in [Proc -> Label] /\ req \in [Proc -> Request]
  BY DEF Reply, Goto, TypeOK
<1>3. pc' \in [Proc -> Label] /\ req' \in [Proc -> Request]
  BY <1>1, <1>2 DEF Label
<1>4. pc'[s] = "idle" /\ \A o \in Proc \ {s} : pc'[o] = pc[o] /\ req'[o] = req[o]
  BY <1>2
<1>5. FieldsSet'
  BY <1>4 DEF FieldsSet
<1> QED
  BY <1>3, <1>4, <1>5

\* A request arrives: the database and the identities do not change.
LEMMA BeginInv ==
    ASSUME AccessInv, NEW s \in Proc, NEW r \in Request, NEW l \in Label, Begin(s, l, r),
           r.user \in User,
           l \in {"create", "close", "active", "accept", "delete", "invite", "role", "remove",
                  "schedCreate", "schedDelete"},
           l \in {"active", "delete", "invite", "role", "remove", "schedCreate", "schedDelete"}
              => r.tenant \in Tenant,
           l \in {"invite", "role", "remove"} => r.target \in User,
           l = "accept" => r.inv \in Invite,
           l = "schedDelete" => r.sched \in Schedule,
           l = "close" => r.left = {}
    PROVE  AccessInv'
<1> USE DEF AccessInv
<1>1. /\ pc' = [pc EXCEPT ![s] = l] /\ req' = [req EXCEPT ![s] = r]
      /\ UNCHANGED <<routeVars, work, schedules, usedSched, tenants, used, members, invites, usedInv, purged, identity, active,
                     approved, held>>
  BY DEF Begin, Goto, db, setup, agenda, outside, history
<1>2. TypeOK'
  BY <1>1 DEF TypeOK
<1>3. FieldsSet' /\ CheckedRole' /\ CheckedActive' /\ CheckedOwner' /\ PurgeDone'
  BY <1>1 DEF TypeOK, FieldsSet, CheckedRole, CheckedActive, CheckedOwner, PurgeDone, Purging,
     WasMember, WasOwner
<1>4. InvitesApproved' /\ RolesTraceable' /\ MembersHeld' /\ ActiveWasMember' /\ IdentityLast'
  BY <1>1 DEF InvitesApproved, RolesTraceable, MembersHeld, ActiveWasMember, WasMember, IdentityLast
<1> QED
  BY <1>2, <1>3, <1>4

\* The requests clients can send have the fields their handlers use.
LEMMA ArriveInv == ASSUME AccessInv, NEW s \in Proc, Arrive(s) PROVE AccessInv'
<1>0. NoRequest \in Request /\ used \subseteq Tenant /\ usedInv \subseteq Invite
      /\ usedSched \subseteq Schedule
  BY InputsAssumption DEF NoRequest, Request, AccessInv, TypeOK
<1>1. PICK u \in User :
        \/ Begin(s, "create", [NoRequest EXCEPT !.user = u])
        \/ Begin(s, "close", [NoRequest EXCEPT !.user = u])
        \/ \E t \in used : Begin(s, "active", [NoRequest EXCEPT !.user = u, !.tenant = t])
        \/ \E i \in usedInv : Begin(s, "accept", [NoRequest EXCEPT !.user = u, !.inv = i])
        \/ /\ RequireWorkspaceMembership(u)
           /\ \/ Begin(s, "delete", Scoped(u))
              \/ \E v \in User, r \in InputRole :
                    \/ Begin(s, "invite", [Scoped(u) EXCEPT !.target = v, !.role = r])
                    \/ Begin(s, "role", [Scoped(u) EXCEPT !.target = v, !.role = r])
              \/ \E v \in User : Begin(s, "remove", [Scoped(u) EXCEPT !.target = v])
              \/ Begin(s, "schedCreate", Scoped(u))
              \/ \E c \in usedSched : Begin(s, "schedDelete", [Scoped(u) EXCEPT !.sched = c])
  BY DEF Arrive
<1>2. CASE Begin(s, "create", [NoRequest EXCEPT !.user = u]) \/ Begin(s, "close", [NoRequest EXCEPT !.user = u])
  <2>1. [NoRequest EXCEPT !.user = u] \in Request /\ [NoRequest EXCEPT !.user = u].user = u
        /\ [NoRequest EXCEPT !.user = u].left = {}
    BY DEF NoRequest, Request
  <2> QED
    BY <1>2, <2>1, BeginInv DEF Label
<1>3. ASSUME NEW t \in used, Begin(s, "active", [NoRequest EXCEPT !.user = u, !.tenant = t])
      PROVE  AccessInv'
  <2> DEFINE r == [NoRequest EXCEPT !.user = u, !.tenant = t]
  <2>1. r \in Request /\ r.user = u /\ r.tenant = t
    BY <1>0 DEF NoRequest, Request
  <2> QED
    BY <1>0, <1>3, <2>1, BeginInv DEF Label
<1>4. ASSUME NEW i \in usedInv, Begin(s, "accept", [NoRequest EXCEPT !.user = u, !.inv = i])
      PROVE  AccessInv'
  <2> DEFINE r == [NoRequest EXCEPT !.user = u, !.inv = i]
  <2>1. r \in Request /\ r.user = u /\ r.inv = i
    BY <1>0 DEF NoRequest, Request
  <2> QED
    BY <1>0, <1>4, <2>1, BeginInv DEF Label
<1>5. CASE RequireWorkspaceMembership(u)
  <2>1. active[u] \in Tenant
    BY <1>5 DEF RequireWorkspaceMembership, AccessInv, TypeOK
  <2>2. CASE Begin(s, "delete", Scoped(u)) \/ Begin(s, "schedCreate", Scoped(u))
    <3>1. Scoped(u) \in Request /\ Scoped(u).user = u /\ Scoped(u).tenant = active[u]
      BY <2>1 DEF Scoped, NoRequest, Request
    <3> QED
      BY <2>1, <2>2, <3>1, BeginInv DEF Label
  <2>3. ASSUME NEW v \in User, NEW role \in InputRole,
               \/ Begin(s, "invite", [Scoped(u) EXCEPT !.target = v, !.role = role])
               \/ Begin(s, "role", [Scoped(u) EXCEPT !.target = v, !.role = role])
        PROVE  AccessInv'
    <3> DEFINE r == [Scoped(u) EXCEPT !.target = v, !.role = role]
    <3>1. r \in Request /\ r.user = u /\ r.tenant = active[u] /\ r.target = v /\ r.role = role
      BY <1>0, <2>1 DEF Scoped, NoRequest, Request
    <3> QED
      BY <1>0, <2>1, <2>3, <3>1, BeginInv DEF Label
  <2>4. ASSUME NEW v \in User, Begin(s, "remove", [Scoped(u) EXCEPT !.target = v]) PROVE AccessInv'
    <3> DEFINE r == [Scoped(u) EXCEPT !.target = v]
    <3>1. r \in Request /\ r.user = u /\ r.tenant = active[u] /\ r.target = v
      BY <2>1 DEF Scoped, NoRequest, Request
    <3> QED
      BY <2>1, <2>4, <3>1, BeginInv DEF Label
  <2>5. ASSUME NEW c \in usedSched, Begin(s, "schedDelete", [Scoped(u) EXCEPT !.sched = c])
        PROVE  AccessInv'
    <3> DEFINE r == [Scoped(u) EXCEPT !.sched = c]
    <3>1. r \in Request /\ r.user = u /\ r.tenant = active[u] /\ r.sched = c
      BY <1>0, <2>1 DEF Scoped, NoRequest, Request
    <3> QED
      BY <1>0, <2>1, <2>5, <3>1, BeginInv DEF Label
  <2> QED
    BY <1>1, <1>2, <1>3, <1>4, <2>2, <2>3, <2>4, <2>5
<1> QED
  BY <1>1, <1>2, <1>3, <1>4, <1>5

\* The checks: the handler moves on, nothing is written, and what the owner
\* checks let through is logged as approved.
LEMMA CheckInv ==
    ASSUME AccessInv, NEW s \in Proc,
           \/ TenantDeleteCheck(s) \/ InviteCreateCheck(s) \/ MembershipIdInvalid(s)
           \/ MemberUpdateRoleCheck(s) \/ MemberUpdateRoleGuard(s)
           \/ MemberRemoveCheck(s) \/ MemberRemoveGuard(s) \/ MemberRemoveGuardError(s)
           \/ AccountTalosPurge(s)
           \/ ActiveWorkspaceCheck(s) \/ ActiveWorkspaceGet(s) \/ SchedulesDeleteCheck(s)
    PROVE  AccessInv'
<1> USE DEF AccessInv
<1>1. UNCHANGED <<routeVars, work, schedules, usedSched, tenants, used, members, invites, usedInv, purged, identity, active,
                  req, held>>
  BY DEF TenantDeleteCheck, InviteCreateCheck, MembershipIdInvalid, MemberUpdateRoleCheck,
     MemberUpdateRoleGuard, MemberRemoveCheck, MemberRemoveGuard,
     MemberRemoveGuardError, AccountTalosPurge,
     ActiveWorkspaceCheck, ActiveWorkspaceGet, SchedulesDeleteCheck, db, setup, agenda, outside, history
<1>2. PICK l \in Label :
        /\ pc' = [pc EXCEPT ![s] = l]
        /\ <<pc[s], l>> \in {<<"delete", "deleteExec">>, <<"invite", "inviteExec">>,
                             <<"role", "rejected">>, <<"remove", "rejected">>,
                             <<"role", "roleGuard">>, <<"roleGuard", "roleExec">>,
                             <<"remove", "removeGuard">>, <<"removeGuard", "removeExec">>,
                             <<"talos", "kratos">>, <<"active", "activeGet">>, <<"activeGet", "activePut">>,
                             <<"schedDelete", "schedDeleteExec">>}
  BY DEF TenantDeleteCheck, InviteCreateCheck, MembershipIdInvalid, MemberUpdateRoleCheck,
     MemberUpdateRoleGuard, MemberRemoveCheck, MemberRemoveGuard,
     MemberRemoveGuardError, AccountTalosPurge,
     ActiveWorkspaceCheck, ActiveWorkspaceGet, SchedulesDeleteCheck, Goto, Label
<1>3. /\ approved \subseteq approved'
      /\ approved' \in {approved, approved \cup {<<req[s].tenant, req[s].target, req[s].role>>}}
      /\ l \in {"inviteExec", "roleGuard"} => /\ req[s].role \in Role
                                             /\ <<req[s].tenant, req[s].target, req[s].role>> \in approved'
      /\ approved' # approved => l \in {"inviteExec", "roleGuard"}
  BY <1>2 DEF TenantDeleteCheck, InviteCreateCheck, MembershipIdInvalid, MemberUpdateRoleCheck,
     MemberUpdateRoleGuard, MemberRemoveCheck, MemberRemoveGuard,
     MemberRemoveGuardError, AccountTalosPurge,
     ActiveWorkspaceCheck, ActiveWorkspaceGet, SchedulesDeleteCheck, Goto, Approve, validRole,
     history, TypeOK
<1>4. /\ l = "activeGet" => userIsMember(req[s].tenant, req[s].user)
      /\ l = "deleteExec" => userIsOwner(req[s].tenant, req[s].user)
      /\ l = "removeGuard" => req[s].target = req[s].user \/ userIsOwner(req[s].tenant, req[s].user)
  BY <1>2 DEF TenantDeleteCheck, InviteCreateCheck, MembershipIdInvalid, MemberUpdateRoleCheck,
     MemberUpdateRoleGuard, MemberRemoveCheck, MemberRemoveGuard,
     MemberRemoveGuardError, AccountTalosPurge,
     ActiveWorkspaceCheck, ActiveWorkspaceGet, SchedulesDeleteCheck, Goto, TypeOK
<1>5. FieldsSet'
  BY <1>1, <1>2, <1>3 DEF FieldsSet, TypeOK
<1>6. TypeOK'
  <2>1. approved' \subseteq Tenant \X User \X (Role \cup InputRole)
    BY <1>2, <1>3 DEF FieldsSet, TypeOK
  <2> QED
    BY <1>1, <1>2, <2>1 DEF TypeOK
<1>7. CheckedRole'
  BY <1>1, <1>2, <1>3 DEF CheckedRole, TypeOK
<1>8. CheckedActive' /\ CheckedOwner' /\ PurgeDone'
  <2>1. req[s].user \in User /\ (l \in {"activeGet", "deleteExec", "removeGuard"} => req[s].tenant \in Tenant)
    BY <1>2 DEF FieldsSet
  <2>2. /\ l = "activeGet" => WasMember(req[s].tenant, req[s].user)
        /\ l = "deleteExec" => WasOwner(req[s].tenant, req[s].user)
        /\ l = "removeGuard" => req[s].target = req[s].user \/ WasOwner(req[s].tenant, req[s].user)
    BY <1>4, <2>1, FoundHeld
  <2>3. \A t, u : (WasMember(t, u))' = WasMember(t, u) /\ (WasOwner(t, u))' = WasOwner(t, u)
    BY <1>1 DEF WasMember, WasOwner
  <2>4. \A o \in Proc : pc'[o] = IF o = s THEN l ELSE pc[o]
    BY <1>2 DEF TypeOK
  <2>5. CheckedActive'
    BY <1>1, <1>2, <2>2, <2>3, <2>4 DEF CheckedActive
  <2>6. CheckedOwner'
    BY <1>1, <1>2, <2>2, <2>3, <2>4 DEF CheckedOwner, Purging
  <2>7. PurgeDone'
    BY <1>1, <1>2, <2>4 DEF PurgeDone
  <2> QED
    BY <2>5, <2>6, <2>7
<1>9. InvitesApproved' /\ RolesTraceable' /\ MembersHeld' /\ ActiveWasMember' /\ IdentityLast'
  BY <1>1, <1>3 DEF InvitesApproved, RolesTraceable, MembersHeld, ActiveWasMember, WasMember, IdentityLast
<1> QED
  BY <1>5, <1>6, <1>7, <1>8, <1>9

\* What a request that ends leaves of the invariants about other requests.
LEMMA ReplyChecked ==
    ASSUME AccessInv, NEW s \in Proc, Reply(s),
           approved \subseteq approved', held \subseteq held', purged \subseteq purged'
    PROVE  CheckedRole' /\ CheckedActive' /\ CheckedOwner' /\ PurgeDone'
<1>1. pc'[s] = "idle" /\ \A o \in Proc \ {s} : pc'[o] = pc[o] /\ req'[o] = req[o]
  BY ReplyFields DEF AccessInv
<1> QED
  BY <1>1 DEF AccessInv, CheckedRole, CheckedActive, CheckedOwner, PurgeDone, Purging, WasMember, WasOwner

\* The steps that neither give a role nor delete a row.
LEMMA OutsideInv ==
    ASSUME AccessInv, NEW s \in Proc,
           Abort(s) \/ AccountIdentityDelete(s) \/ ActiveWorkspacePut(s)
    PROVE  AccessInv'
<1> USE DEF AccessInv
<1>1. Reply(s) /\ UNCHANGED <<routeVars, work, schedules, usedSched, tenants, used, members, invites, usedInv, purged, approved,
                              held>>
  BY DEF Abort, AccountIdentityDelete, ActiveWorkspacePut, db, setup, agenda, outside, history
<1>2. /\ pc' \in [Proc -> Label] /\ req' \in [Proc -> Request] /\ FieldsSet'
      /\ CheckedRole' /\ CheckedActive' /\ CheckedOwner' /\ PurgeDone'
  BY <1>1, ReplyFields, ReplyChecked
<1>3. /\ identity' \subseteq User /\ active' \in [User -> Tenant \cup {Nil}]
      /\ User \ identity' \subseteq purged
      /\ \A u \in User : active'[u] # Nil => WasMember(active'[u], u)
  <2>1. CASE Abort(s)
    BY <2>1 DEF Abort, outside, TypeOK, ActiveWasMember, IdentityLast
  <2>2. CASE AccountIdentityDelete(s)
    BY <2>2 DEF AccountIdentityDelete, TypeOK, ActiveWasMember, IdentityLast, PurgeDone
  <2>3. CASE ActiveWorkspacePut(s)
    BY <2>3 DEF ActiveWorkspacePut, TypeOK, ActiveWasMember, IdentityLast, CheckedActive, FieldsSet
  <2> QED
    BY <2>1, <2>2, <2>3
<1>4. TypeOK'
  BY <1>1, <1>2, <1>3 DEF TypeOK
<1>5. InvitesApproved' /\ RolesTraceable' /\ MembersHeld'
  BY <1>1 DEF InvitesApproved, RolesTraceable, MembersHeld
<1>6. ActiveWasMember' /\ IdentityLast'
  BY <1>1, <1>3 DEF ActiveWasMember, WasMember, IdentityLast
<1> QED
  BY <1>2, <1>4, <1>5, <1>6

\* A workspace is created with its owner, a role is given through an invite or an
\* update, a member leaves: members changes at one place.
LEMMA MembersInv ==
    ASSUME AccessInv, NEW s \in Proc,
           TenantsCreate(s) \/ InviteAcceptExec(s) \/ MemberUpdateRoleExec(s) \/ MemberRemoveExec(s)
    PROVE  AccessInv'
<1> USE DEF AccessInv
<1>0. pc[s] # "idle" /\ Reply(s) /\ UNCHANGED <<routeVars, work, schedules, usedSched, usedInv, purged, identity, active>>
  BY DEF TenantsCreate, InviteAcceptExec, MemberUpdateRoleExec, MemberRemoveExec, setup, agenda, outside, history
<1>1. req[s].user \in User
  BY <1>0 DEF FieldsSet
<1>2. PICK t \in Tenant, u \in User, r \in Role \cup {Nil} :
        /\ members' = [members EXCEPT ![t][u] = r]
        /\ approved \subseteq approved' /\ approved' \subseteq approved \cup {<<t, u, "owner">>}
        /\ held \subseteq held' /\ held' \subseteq held \cup ({<<t, u, r>>} \cap (Tenant \X User \X Role))
        /\ r # Nil => <<t, u, r>> \in approved' /\ <<t, u, r>> \in held'
        /\ tenants' \subseteq used' /\ used' \subseteq Tenant
  <2>1. CASE TenantsCreate(s)
    <3>1. PICK t \in Tenant \ used :
            /\ tenants' = tenants \cup {t} /\ used' = used \cup {t}
            /\ members' = [members EXCEPT ![t][req[s].user] = "owner"]
            /\ approved' = approved \cup {<<t, req[s].user, "owner">>}
            /\ held' = held \cup {<<t, req[s].user, "owner">>}
      BY <2>1 DEF TenantsCreate, Hold
    <3>2. "owner" \in Role
      BY DEF Role
    <3>3. /\ <<t, req[s].user, "owner">> \in Tenant \X User \X Role
          /\ t \in Tenant /\ tenants \subseteq used /\ used \subseteq Tenant
      BY <1>1, <3>1, <3>2 DEF TypeOK
    <3>4. /\ approved \subseteq approved' /\ held \subseteq held' /\ tenants' \subseteq used' /\ used' \subseteq Tenant
          /\ held' \subseteq held \cup ({<<t, req[s].user, "owner">>} \cap (Tenant \X User \X Role))
          /\ <<t, req[s].user, "owner">> \in approved' /\ <<t, req[s].user, "owner">> \in held'
      BY <3>1, <3>3
    <3> QED
      BY <1>1, <3>1, <3>2, <3>3, <3>4
  <2>2. CASE InviteAcceptExec(s)
    <3>1. /\ req[s].tenant \in Tenant /\ req[s].role \in Role
          /\ <<req[s].tenant, req[s].user, req[s].role>> \in approved
      BY <2>2 DEF InviteAcceptExec, FieldsSet, CheckedRole
    <3>2. /\ members' = [members EXCEPT ![req[s].tenant][req[s].user] = req[s].role]
          /\ held' = held \cup {<<req[s].tenant, req[s].user, req[s].role>>}
          /\ UNCHANGED <<tenants, used, approved>>
      BY <2>2 DEF InviteAcceptExec, Hold
    <3>3. /\ held' \subseteq held \cup ({<<req[s].tenant, req[s].user, req[s].role>>} \cap (Tenant \X User \X Role))
          /\ tenants' \subseteq used' /\ used' \subseteq Tenant
      BY <1>1, <3>1, <3>2 DEF TypeOK
    <3> QED
      BY <1>1, <3>1, <3>2, <3>3
  <2>3. CASE MemberUpdateRoleExec(s)
    <3>1. /\ req[s].tenant \in Tenant /\ req[s].role \in Role /\ req[s].target \in User
          /\ <<req[s].tenant, req[s].target, req[s].role>> \in approved
      BY <2>3 DEF MemberUpdateRoleExec, FieldsSet, CheckedRole
    <3>2. /\ members' = [members EXCEPT ![req[s].tenant][req[s].target] = req[s].role]
          /\ held' = held \cup {<<req[s].tenant, req[s].target, req[s].role>>}
          /\ UNCHANGED <<tenants, used, approved>>
      BY <2>3 DEF MemberUpdateRoleExec, Hold
    <3>3. /\ held' \subseteq held \cup ({<<req[s].tenant, req[s].target, req[s].role>>} \cap (Tenant \X User \X Role))
          /\ tenants' \subseteq used' /\ used' \subseteq Tenant
      BY <3>1, <3>2 DEF TypeOK
    <3> QED
      BY <3>1, <3>2, <3>3
  <2>4. CASE MemberRemoveExec(s)
    <3>1. req[s].tenant \in Tenant /\ req[s].target \in User
      BY <2>4 DEF MemberRemoveExec, FieldsSet
    <3>2. /\ members' = [members EXCEPT ![req[s].tenant][req[s].target] = Nil]
          /\ UNCHANGED <<tenants, used, approved, held>>
      BY <2>4 DEF MemberRemoveExec, history
    <3> QED
      BY <3>1, <3>2 DEF TypeOK
  <2> QED
    BY <2>1, <2>2, <2>3, <2>4
<1>3. /\ invites' \in [Invite -> InviteRow \cup {Nil}]
      /\ \A i \in Invite : invites'[i] # Nil =>
            /\ invites[i] # Nil /\ invites'[i].tenant = invites[i].tenant
            /\ invites'[i].email = invites[i].email /\ invites'[i].role = invites[i].role
  <2>1. CASE InviteAcceptExec(s) /\ invites[req[s].inv] # Nil
    <3> DEFINE i == req[s].inv
               row == [invites[i] EXCEPT !.state = "accepted"]
    <3>1. i \in Invite /\ invites[i] \in InviteRow
      BY <2>1 DEF InviteAcceptExec, FieldsSet, TypeOK
    <3>2. /\ row \in InviteRow /\ row.tenant = invites[i].tenant
          /\ row.email = invites[i].email /\ row.role = invites[i].role
      BY <3>1 DEF InviteRow
    <3>3. invites' = [invites EXCEPT ![i] = row]
      BY <2>1 DEF InviteAcceptExec
    <3> HIDE DEF i, row
    <3> QED
      BY <2>1, <3>1, <3>2, <3>3 DEF TypeOK, i
  <2>2. CASE ~(InviteAcceptExec(s) /\ invites[req[s].inv] # Nil)
    <3>1. invites' = invites
      BY <2>2 DEF TenantsCreate, InviteAcceptExec, MemberUpdateRoleExec, MemberRemoveExec
    <3> QED
      BY <3>1 DEF TypeOK
  <2> QED
    BY <2>1, <2>2
<1>4. /\ members' \in [Tenant -> [User -> Role \cup {Nil}]]
      /\ \A x \in Tenant, y \in User :
            members'[x][y] = IF x = t /\ y = u THEN r ELSE members[x][y]
  BY <1>2 DEF TypeOK
<1>5. approved' \cup held' \subseteq Tenant \X User \X (Role \cup InputRole)
  BY <1>2 DEF TypeOK, Role
<1>6. /\ pc' \in [Proc -> Label] /\ req' \in [Proc -> Request] /\ FieldsSet'
      /\ CheckedRole' /\ CheckedActive' /\ CheckedOwner' /\ PurgeDone'
  BY <1>0, <1>2, ReplyFields, ReplyChecked
<1>7. TypeOK'
  BY <1>0, <1>2, <1>3, <1>4, <1>5, <1>6 DEF TypeOK
<1>8. RolesTraceable' /\ MembersHeld'
  BY <1>2, <1>4 DEF RolesTraceable, MembersHeld
<1>9. InvitesApproved' /\ ActiveWasMember' /\ IdentityLast'
  BY <1>0, <1>2, <1>3 DEF InvitesApproved, ActiveWasMember, WasMember, IdentityLast
<1> QED
  BY <1>6, <1>7, <1>8, <1>9

\* Workspaces go, with their rows: a deletion by an owner or a purge.  The two
\* delete rows only, and the purge of u empties u's rows.
LEMMA DeleteInv ==
    ASSUME AccessInv, NEW s \in Proc, TenantDeleteExec(s) \/ AccountPurgeCommit(s)
    PROVE  AccessInv'
<1> USE DEF AccessInv
<1>0. /\ pc[s] # "idle"
      /\ UNCHANGED <<routeVars, work, usedSched, used, usedInv, identity, active, approved, held>>
  BY DEF TenantDeleteExec, AccountPurgeCommit, setup, agenda, outside, history
<1>1. req[s].user \in User
  BY <1>0 DEF FieldsSet
<1>2. /\ tenants' \subseteq tenants
      /\ members' \in [Tenant -> [User -> Role \cup {Nil}]]
      /\ \A t \in Tenant, u \in User : members'[t][u] \in {members[t][u], Nil}
      /\ \A i \in Invite : invites'[i] \in {invites[i], Nil}
      /\ invites' \in [Invite -> InviteRow \cup {Nil}]
  <2>0. NoMember \in [User -> Role \cup {Nil}] /\ \A u \in User : NoMember[u] = Nil
    BY DEF NoMember
  <2>1. CASE TenantDeleteExec(s)
    <3> DEFINE D == {req[s].tenant}
    <3>1. DropTenants(D)
      BY <2>1 DEF TenantDeleteExec
    <3> HIDE DEF D
    <3>2. members' \in [Tenant -> [User -> Role \cup {Nil}]]
      BY <2>0, <3>1 DEF TypeOK, DropTenants
    <3>3. \A t \in Tenant : members'[t] \in {NoMember, members[t]}
      BY <3>1 DEF DropTenants
    <3>4. \A t \in Tenant, u \in User : members'[t][u] \in {members[t][u], Nil}
      BY <2>0, <3>3
    <3>5. /\ tenants' \subseteq tenants /\ invites' \in [Invite -> InviteRow \cup {Nil}]
          /\ \A i \in Invite : invites'[i] \in {invites[i], Nil}
      BY <3>1 DEF DropTenants, TypeOK
    <3> QED
      BY <3>2, <3>4, <3>5
  <2>2. CASE AccountPurgeCommit(s)
    <3> DEFINE u == req[s].user
               D == req[s].doomed
               left == req[s].left
    <3>1. /\ tenants' = tenants \ D
          /\ members' = [t \in Tenant |->
                            IF t \in D THEN NoMember
                            ELSE [members[t] EXCEPT ![u] = IF t \in left THEN Nil ELSE @]]
          /\ invites' = [i \in Invite |->
                            IF invites[i] # Nil /\ (i \in req[s].invs \/ invites[i].tenant \in D)
                            THEN Nil ELSE invites[i]]
      BY <2>2 DEF AccountPurgeCommit
    <3>2. u \in User
      BY <1>1
    <3>3. \A t \in Tenant : members[t] \in [User -> Role \cup {Nil}]
      BY DEF TypeOK
    <3> HIDE DEF u, D, left
    <3>4. \A t \in Tenant : members'[t] = IF t \in D THEN NoMember
                                          ELSE [members[t] EXCEPT ![u] = IF t \in left THEN Nil ELSE @]
      BY <3>1
    <3>5. members' \in [Tenant -> [User -> Role \cup {Nil}]]
      BY <2>0, <3>1, <3>2, <3>3
    <3>6. \A t \in Tenant, v \in User : members'[t][v] \in {members[t][v], Nil}
      <4> SUFFICES ASSUME NEW t \in Tenant, NEW v \in User PROVE members'[t][v] \in {members[t][v], Nil}
        OBVIOUS
      <4>1. CASE t \in D
        BY <2>0, <3>4, <4>1
      <4>2. CASE t \notin D
        <5>1. members'[t] = [members[t] EXCEPT ![u] = IF t \in left THEN Nil ELSE members[t][u]]
          BY <3>4, <4>2
        <5> QED
          BY <3>3, <5>1
      <4> QED
        BY <4>1, <4>2
    <3>7. /\ invites' \in [Invite -> InviteRow \cup {Nil}]
          /\ \A i \in Invite : invites'[i] \in {invites[i], Nil}
      BY <3>1 DEF TypeOK
    <3> QED
      BY <3>1, <3>5, <3>6, <3>7
  <2> QED
    BY <2>1, <2>2
<1>3. /\ pc' \in [Proc -> Label] /\ req' \in [Proc -> Request] /\ FieldsSet'
      /\ CheckedRole' /\ CheckedActive' /\ CheckedOwner' /\ PurgeDone' /\ IdentityLast' /\ purged' \subseteq User
  <2>1. CASE TenantDeleteExec(s)
    <3>1. Reply(s) /\ UNCHANGED purged
      BY <2>1 DEF TenantDeleteExec
    <3> QED
      BY <1>0, <3>1, ReplyFields, ReplyChecked DEF IdentityLast, TypeOK
  <2>2. CASE AccountPurgeCommit(s)
    <3> DEFINE r == [NoRequest EXCEPT !.user = req[s].user]
    <3>1. /\ pc' = [pc EXCEPT ![s] = "talos"] /\ req' = [req EXCEPT ![s] = r]
          /\ purged' = purged \cup {req[s].user}
      BY <2>2 DEF AccountPurgeCommit, Goto
    <3>2. r \in Request /\ r.user = req[s].user
      BY <1>1 DEF NoRequest, Request
    <3> HIDE DEF r
    <3>3. /\ pc' \in [Proc -> Label] /\ req' \in [Proc -> Request]
          /\ pc'[s] = "talos" /\ req'[s] = r
          /\ \A o \in Proc \ {s} : pc'[o] = pc[o] /\ req'[o] = req[o]
      BY <3>1, <3>2 DEF TypeOK, Label
    <3>4. FieldsSet' /\ CheckedRole' /\ CheckedActive' /\ PurgeDone'
      BY <1>0, <1>1, <3>1, <3>2, <3>3 DEF FieldsSet, CheckedRole, CheckedActive, WasMember, PurgeDone
    <3>5. CheckedOwner'
      BY <1>0, <3>3 DEF CheckedOwner, WasMember, WasOwner, Purging
    <3> QED
      BY <1>0, <1>1, <3>1, <3>3, <3>4, <3>5 DEF IdentityLast, TypeOK
  <2> QED
    BY <2>1, <2>2
<1>4. TypeOK'
  <2>1. schedules' \in [Schedule -> ScheduleRow \cup {Nil}]
    BY DEF TenantDeleteExec, AccountPurgeCommit, agenda, TypeOK
  <2> QED
    BY <1>0, <1>2, <1>3, <2>1 DEF TypeOK
<1>5. \A i \in Invite : invites'[i] # Nil => invites'[i] = invites[i]
  BY <1>2
<1>6. \A t \in Tenant, u \in User : members'[t][u] # Nil => members'[t][u] = members[t][u]
  BY <1>2
<1>7. RolesTraceable' /\ MembersHeld' /\ InvitesApproved' /\ ActiveWasMember'
  <2>1. RolesTraceable' /\ MembersHeld'
    BY <1>0, <1>6 DEF RolesTraceable, MembersHeld
  <2>2. InvitesApproved' /\ ActiveWasMember'
    BY <1>0, <1>5 DEF InvitesApproved, ActiveWasMember, WasMember
  <2> QED
    BY <2>1, <2>2
<1> QED
  BY <1>3, <1>4, <1>7

\* A statement of a purge: what it deletes is noted in the request, and all rows
\* it deletes are of workspaces its user is, or was, a member of.
LEMMA PurgeInv ==
    ASSUME AccessInv, NEW s \in Proc,
           AccountPurgeSelect(s) \/ AccountPurgeInvites(s) \/ AccountPurgeMembers(s)
    PROVE  AccessInv'
<1> USE DEF AccessInv
<1>1. /\ req[s].user \in User /\ req[s] \in Request /\ req[s].content \subseteq Schedule
      /\ req[s].doomed \subseteq Tenant /\ req[s].invs \subseteq Invite /\ req[s].left \subseteq Tenant
  <2>1. pc[s] # "idle"
    BY DEF AccountPurgeSelect, AccountPurgeInvites, AccountPurgeMembers
  <2>2. req[s] \in Request
    BY DEF TypeOK
  <2> QED
    BY <2>1, <2>2 DEF FieldsSet, Request
<1>2. UNCHANGED <<routeVars, work, schedules, usedSched, tenants, used, members, invites, usedInv, purged,
                  identity, active, approved, held>>
  BY DEF AccountPurgeSelect, AccountPurgeInvites, AccountPurgeMembers, db, setup, agenda, outside, history
<1>3. PICK l \in {"closeInvites", "closeMembers", "closeCommit"}, r \in Request :
        /\ pc' = [pc EXCEPT ![s] = l] /\ req' = [req EXCEPT ![s] = r]
        /\ r.user = req[s].user
        /\ \A t \in r.doomed \cup r.left : WasMember(t, r.user)
  <2>1. CASE AccountPurgeSelect(s)
    <3> DEFINE D == soleMemberTenants(req[s].user)
               C == {c \in Schedule : schedules[c] # Nil /\ schedules[c].user = req[s].user}
               r == [req[s] EXCEPT !.doomed = D, !.content = C]
    <3>1. /\ pc[s] = "close" /\ pc' = [pc EXCEPT ![s] = "closeInvites"]
          /\ req' = [req EXCEPT ![s].doomed = D, ![s].content = C]
      BY <2>1 DEF AccountPurgeSelect, Goto
    <3>2. D \subseteq Tenant /\ C \subseteq Schedule
      BY DEF soleMemberTenants, TypeOK
    <3>3. \A t \in D : members[t][req[s].user] # Nil
      <4> SUFFICES ASSUME NEW t \in D, members[t][req[s].user] = Nil PROVE FALSE
        OBVIOUS
      <4>1. {v \in {req[s].user} : members[t][v] # Nil} = {}
        OBVIOUS
      <4> QED
        BY <4>1, FS_EmptySet DEF soleMemberTenants
    <3>4. req[s].left = {}
      BY <3>1 DEF FieldsSet
    <3> HIDE DEF D, C
    <3>5. r \in Request /\ r.user = req[s].user /\ r.doomed = D /\ r.left = {}
      BY <1>1, <3>2, <3>4 DEF Request
    <3>6. req' = [req EXCEPT ![s] = r]
      BY <1>1, <3>1 DEF TypeOK, Request
    <3>7. \A t \in D : WasMember(t, req[s].user)
      BY <1>1, <3>2, <3>3, FoundHeld
    <3> QED
      BY <3>1, <3>5, <3>6, <3>7
  <2>2. CASE AccountPurgeInvites(s)
    <3>1. PICK I \in SUBSET Invite :
            /\ pc[s] = "closeInvites" /\ pc' = [pc EXCEPT ![s] = "closeMembers"]
            /\ req' = [req EXCEPT ![s].invs = I]
      BY <2>2 DEF AccountPurgeInvites, Goto
    <3> DEFINE r == [req[s] EXCEPT !.invs = I]
    <3>2. r \in Request /\ r.user = req[s].user /\ r.doomed = req[s].doomed /\ r.left = req[s].left
      BY <1>1 DEF Request
    <3>3. req' = [req EXCEPT ![s] = r]
      BY <1>1, <3>1 DEF TypeOK, Request
    <3> QED
      BY <3>1, <3>2, <3>3 DEF CheckedOwner, Purging
  <2>3. CASE AccountPurgeMembers(s)
    <3> DEFINE T == {t \in Tenant \ req[s].doomed : members[t][req[s].user] # Nil}
               r == [req[s] EXCEPT !.left = T]
    <3>1. /\ pc[s] = "closeMembers" /\ pc' = [pc EXCEPT ![s] = "closeCommit"]
          /\ req' = [req EXCEPT ![s].left = T]
      BY <2>3 DEF AccountPurgeMembers, Goto
    <3>2. T \subseteq Tenant /\ \A t \in T : WasMember(t, req[s].user)
      BY <1>1, FoundHeld
    <3> HIDE DEF T
    <3>3. r \in Request /\ r.user = req[s].user /\ r.doomed = req[s].doomed /\ r.left = T
      BY <1>1, <3>2 DEF Request
    <3>4. req' = [req EXCEPT ![s] = r]
      BY <1>1, <3>1 DEF TypeOK, Request
    <3> QED
      BY <3>1, <3>2, <3>3, <3>4 DEF CheckedOwner, Purging
  <2> QED
    BY <2>1, <2>2, <2>3
<1>4. /\ pc' \in [Proc -> Label] /\ req' \in [Proc -> Request]
      /\ pc'[s] = l /\ req'[s] = r
      /\ \A o \in Proc \ {s} : pc'[o] = pc[o] /\ req'[o] = req[o]
  BY <1>3 DEF TypeOK, Label
<1>5. TypeOK'
  BY <1>2, <1>4 DEF TypeOK
<1>6. FieldsSet' /\ CheckedRole' /\ PurgeDone'
  BY <1>1, <1>2, <1>3, <1>4 DEF FieldsSet, CheckedRole, PurgeDone
<1>7. CheckedActive' /\ CheckedOwner'
  BY <1>2, <1>3, <1>4 DEF CheckedActive, CheckedOwner, Purging, WasMember, WasOwner
<1>8. InvitesApproved' /\ RolesTraceable' /\ MembersHeld' /\ ActiveWasMember' /\ IdentityLast'
  BY <1>2 DEF InvitesApproved, RolesTraceable, MembersHeld, ActiveWasMember, WasMember, IdentityLast
<1> QED
  BY <1>5, <1>6, <1>7, <1>8

\* The remaining steps: an invite is written, expires or is read.
LEMMA InviteInv ==
    ASSUME AccessInv,
           \/ \E s \in Proc : InviteCreateExec(s) \/ InviteAcceptSelect(s)
           \/ \E i \in Invite : InviteExpires(i)
    PROVE  AccessInv'
<1> USE DEF AccessInv
<1>1. ASSUME NEW s \in Proc, InviteCreateExec(s) PROVE AccessInv'
  <2>1. /\ req[s].tenant \in Tenant /\ req[s].target \in User /\ req[s].role \in Role
        /\ req[s].user \in User /\ req[s].tenant \in tenants
        /\ <<req[s].tenant, req[s].target, req[s].role>> \in approved
    BY <1>1 DEF InviteCreateExec, FieldsSet, CheckedRole
  <2> DEFINE row == [tenant |-> req[s].tenant, email |-> req[s].target, role |-> req[s].role,
                     by |-> req[s].user, state |-> "open"]
  <2>2. PICK i \in Invite \ usedInv :
          invites' = [invites EXCEPT ![i] = row] /\ usedInv' = usedInv \cup {i}
    BY <1>1 DEF InviteCreateExec
  <2>3. /\ Reply(s)
        /\ UNCHANGED <<routeVars, work, schedules, usedSched, tenants, used, members, purged, identity, active, approved, held>>
    BY <1>1 DEF InviteCreateExec, setup, agenda, outside, history
  <2>4. row \in InviteRow
    BY <2>1 DEF InviteRow
  <2>5. row.tenant = req[s].tenant /\ row.email = req[s].target /\ row.role = req[s].role
    OBVIOUS
  <2> HIDE DEF row
  <2>6. /\ invites' \in [Invite -> InviteRow \cup {Nil}]
        /\ \A j \in Invite : invites'[j] = IF j = i THEN row ELSE invites[j]
    BY <2>2, <2>4 DEF TypeOK
  <2>7. /\ pc' \in [Proc -> Label] /\ req' \in [Proc -> Request] /\ FieldsSet'
        /\ CheckedRole' /\ CheckedActive' /\ CheckedOwner' /\ PurgeDone'
    BY <2>3, ReplyFields, ReplyChecked
  <2>8. TypeOK'
    BY <2>2, <2>3, <2>6, <2>7 DEF TypeOK
  <2>9. InvitesApproved'
    BY <2>1, <2>3, <2>5, <2>6 DEF InvitesApproved
  <2>10. RolesTraceable' /\ MembersHeld' /\ ActiveWasMember' /\ IdentityLast'
    BY <2>3 DEF RolesTraceable, MembersHeld, ActiveWasMember, WasMember, IdentityLast
  <2> QED
    BY <2>7, <2>8, <2>9, <2>10
<1>2. ASSUME NEW s \in Proc, InviteAcceptSelect(s) PROVE AccessInv'
  <2> DEFINE inv == invites[req[s].inv]
             r == [req[s] EXCEPT !.tenant = inv.tenant, !.role = inv.role]
  <2>1. /\ pc[s] = "accept" /\ inv # Nil /\ inv.email = req[s].user
        /\ req' = [req EXCEPT ![s].tenant = inv.tenant, ![s].role = inv.role]
        /\ pc' = [pc EXCEPT ![s] = "acceptExec"]
        /\ UNCHANGED <<routeVars, work, schedules, usedSched, tenants, used, members, invites, usedInv, purged, identity, active,
                       approved, held>>
    BY <1>2 DEF InviteAcceptSelect, Goto, db, setup, agenda, outside, history
  <2>2. req[s].inv \in Invite /\ req[s].user \in User /\ req[s] \in Request
    BY <2>1 DEF FieldsSet, TypeOK
  <2>3. inv \in InviteRow
    BY <2>1, <2>2 DEF TypeOK
  <2>4. inv.tenant \in Tenant /\ inv.role \in Role
    BY <2>3 DEF InviteRow
  <2>5. <<inv.tenant, inv.email, inv.role>> \in approved
    BY <2>1, <2>2 DEF InvitesApproved
  <2> HIDE DEF inv
  <2>6. /\ r \in Request /\ r.tenant = inv.tenant /\ r.role = inv.role /\ r.user = req[s].user
        /\ r.inv = req[s].inv
    BY <2>2, <2>4 DEF Request
  <2>7. req' = [req EXCEPT ![s] = r]
    BY <2>1, <2>2 DEF TypeOK, Request
  <2> HIDE DEF r
  <2>8. TypeOK'
    BY <2>1, <2>6, <2>7 DEF TypeOK, Label
  <2>9. FieldsSet' /\ CheckedRole'
    BY <2>1, <2>2, <2>4, <2>5, <2>6, <2>7 DEF FieldsSet, CheckedRole, TypeOK
  <2>10. CheckedActive' /\ CheckedOwner' /\ PurgeDone'
    BY <2>1, <2>7 DEF CheckedActive, CheckedOwner, PurgeDone, Purging, WasMember, WasOwner, TypeOK
  <2>11. /\ InvitesApproved' /\ RolesTraceable' /\ MembersHeld' /\ ActiveWasMember'
         /\ IdentityLast'
    BY <2>1 DEF InvitesApproved, RolesTraceable, MembersHeld, ActiveWasMember, WasMember, IdentityLast
  <2> QED
    BY <2>8, <2>9, <2>10, <2>11
<1>4. ASSUME NEW i \in Invite, InviteExpires(i) PROVE AccessInv'
  <2> DEFINE row == [invites[i] EXCEPT !.state = "expired"]
  <2>1. /\ invites[i] # Nil /\ invites' = [invites EXCEPT ![i] = row]
        /\ UNCHANGED <<routeVars, work, schedules, usedSched, tenants, used, members, usedInv, purged, identity, active, pc, req,
                       approved, held>>
    BY <1>4 DEF InviteExpires, setup, agenda, outside, history
  <2>2. invites[i] \in InviteRow
    BY <2>1 DEF TypeOK
  <2>3. /\ row \in InviteRow /\ row.tenant = invites[i].tenant
        /\ row.email = invites[i].email /\ row.role = invites[i].role
    BY <2>2 DEF InviteRow
  <2> HIDE DEF row
  <2>4. /\ invites' \in [Invite -> InviteRow \cup {Nil}]
        /\ \A j \in Invite : invites'[j] = IF j = i THEN row ELSE invites[j]
    BY <2>1, <2>3 DEF TypeOK
  <2>5. TypeOK'
    BY <2>1, <2>4 DEF TypeOK
  <2>6. InvitesApproved'
    BY <2>1, <2>3, <2>4 DEF InvitesApproved
  <2>7. FieldsSet' /\ CheckedRole' /\ CheckedActive' /\ CheckedOwner' /\ PurgeDone'
    BY <2>1 DEF FieldsSet, CheckedRole, CheckedActive, CheckedOwner, PurgeDone, Purging, WasMember, WasOwner
  <2>8. RolesTraceable' /\ MembersHeld' /\ ActiveWasMember' /\ IdentityLast'
    BY <2>1 DEF RolesTraceable, MembersHeld, ActiveWasMember, WasMember, IdentityLast
  <2> QED
    BY <2>5, <2>6, <2>7, <2>8
<1> QED
  BY <1>1, <1>2, <1>4

\* A schedule is inserted or deleted: no other table is touched.
LEMMA ScheduleInv ==
    ASSUME AccessInv, NEW s \in Proc, SchedulesCreate(s) \/ SchedulesDeleteExec(s)
    PROVE  AccessInv'
<1> USE DEF AccessInv
<1>1. /\ Reply(s)
      /\ UNCHANGED <<routeVars, work, tenants, used, members, invites, usedInv, purged, identity,
                     active, approved, held>>
  BY DEF SchedulesCreate, SchedulesDeleteExec, setup, outside, history
<1>2. /\ pc' \in [Proc -> Label] /\ req' \in [Proc -> Request] /\ FieldsSet'
      /\ CheckedRole' /\ CheckedActive' /\ CheckedOwner' /\ PurgeDone'
  BY <1>1, ReplyFields, ReplyChecked
<1>3. schedules' \in [Schedule -> ScheduleRow \cup {Nil}] /\ usedSched' \subseteq Schedule
  <2>1. CASE SchedulesCreate(s)
    <3>1. [user |-> req[s].user, tenant |-> req[s].tenant] \in ScheduleRow
      BY <2>1 DEF SchedulesCreate, FieldsSet, ScheduleRow
    <3> QED
      BY <2>1, <3>1 DEF SchedulesCreate, TypeOK
  <2>2. CASE SchedulesDeleteExec(s)
    BY <2>2 DEF SchedulesDeleteExec, TypeOK
  <2> QED
    BY <2>1, <2>2
<1>4. TypeOK'
  BY <1>1, <1>2, <1>3 DEF TypeOK
<1>5. /\ InvitesApproved' /\ RolesTraceable' /\ MembersHeld' /\ ActiveWasMember'
      /\ IdentityLast'
  BY <1>1 DEF InvitesApproved, RolesTraceable, MembersHeld, ActiveWasMember, WasMember, IdentityLast
<1> QED
  BY <1>2, <1>4, <1>5

\* Every step of the system preserves the invariant.
LEMMA NextInv == AccessInv /\ [Next]_vars => AccessInv'
<1> SUFFICES ASSUME AccessInv, [Next]_vars PROVE AccessInv'
  OBVIOUS
<1>1. CASE UNCHANGED vars
  <2>1. TypeOK'
    BY <1>1 DEF vars, AccessInv, TypeOK
  <2> QED
    BY <1>1, <2>1 DEF vars, AccessInv, Purging, WasMember, WasOwner, FieldsSet, InvitesApproved, CheckedRole, RolesTraceable,
       MembersHeld, CheckedActive, CheckedOwner, ActiveWasMember, PurgeDone, IdentityLast
<1>2. ASSUME NEW s \in Proc, Step(s) PROVE AccessInv'
  BY <1>2, CheckInv, OutsideInv, MembersInv, DeleteInv, PurgeInv, InviteInv, ScheduleInv DEF Step
<1> QED
  BY <1>1, <1>2, ArriveInv, OutsideInv, InviteInv DEF Next

\* The invariant holds throughout: what handlers act on was checked.
THEOREM Invariance == Spec => []AccessInv
  BY InitInv, NextInv, PTL DEF Spec

\* Every variable of the workspace handlers keeps its type.
THEOREM TypeCorrect == Spec => []TypeOK
  BY Invariance, PTL DEF AccessInv

\* Every role in tenant_members was chosen for that user by somebody the handler
\* saw as an owner, for any number of users, workspaces and racing requests.
THEOREM Traceable == Spec => []RolesTraceable
  BY Invariance, PTL DEF AccessInv

\* The identity of an account is deleted only after its purge committed.
THEOREM IdentityIsLast == Spec => []IdentityLast
  BY Invariance, PTL DEF AccessInv

\* The workspace the edge injects for a user is one the user has been a member of.
THEOREM ActiveMember == Spec => []ActiveWasMember
  BY Invariance, PTL DEF AccessInv

-----------------------------------------------------------------------------
(***************************************************************************)
(* Schedules.  That the DELETE by id removes the caller's own row needs    *)
(* that ids are not reused: between the check and the DELETE the row may   *)
(* go, but no other row can take its id.                                   *)
(***************************************************************************)
OwnOrGone(c, u) == schedules[c] # Nil => schedules[c].user = u

AgendaInv ==
    /\ \A c \in Schedule : schedules[c] # Nil => c \in usedSched
    /\ \A s \in Proc :
          /\ pc[s] \in {"schedDelete", "schedDeleteExec"} => req[s].sched \in usedSched
          /\ pc[s] = "schedDeleteExec" => OwnOrGone(req[s].sched, req[s].user)
          /\ Purging(s) =>
                \A c \in req[s].content : c \in usedSched /\ OwnOrGone(c, req[s].user)

\* A row that is deleted by id, or purged, belongs to the user who asked for it;
\* a new row has a new id.
AgendaStep ==
    /\ usedSched \subseteq usedSched'
    /\ \A c \in Schedule : schedules'[c] # schedules[c] =>
          \/ c \in usedSched' \ usedSched /\ schedules[c] = Nil
          \/ /\ schedules'[c] = Nil
             /\ \E s \in Proc : /\ OwnOrGone(c, req[s].user)
                                /\ pc[s] \in {"schedDeleteExec", "closeCommit"}
                                /\ pc'[s] # pc[s]

\* A step that leaves the schedules alone.
LEMMA AgendaQuiet ==
    ASSUME AccessInv, AgendaInv, NEW s \in Proc, UNCHANGED <<schedules, usedSched>>,
           \A o \in Proc \ {s} : pc'[o] = pc[o] /\ req'[o] = req[o],
           pc'[s] \notin {"schedDelete", "schedDeleteExec", "closeInvites", "closeMembers", "closeCommit"}
    PROVE  AgendaInv' /\ AgendaStep
  BY DEF AgendaInv, AgendaStep, OwnOrGone, Purging

\* A request arrives; a deletion names an id that was generated.
LEMMA AgendaBegin ==
    ASSUME AccessInv, AgendaInv, NEW s \in Proc, NEW l, NEW r, Begin(s, l, r),
           l \notin {"schedDeleteExec", "closeInvites", "closeMembers", "closeCommit"},
           l = "schedDelete" => r.sched \in usedSched
    PROVE  AgendaInv' /\ AgendaStep
<1>1. /\ UNCHANGED <<schedules, usedSched>> /\ pc' = [pc EXCEPT ![s] = l]
      /\ req' = [req EXCEPT ![s] = r]
  BY DEF Begin, Goto, db, agenda
<1>2. /\ \A o \in Proc \ {s} : pc'[o] = pc[o] /\ req'[o] = req[o]
      /\ pc'[s] = l /\ req'[s] = r
  BY <1>1 DEF AccessInv, TypeOK
<1> QED
  BY <1>1, <1>2 DEF AgendaInv, AgendaStep, OwnOrGone, Purging

\* The requests clients can send.
LEMMA AgendaArrive ==
    ASSUME AccessInv, AgendaInv, NEW s \in Proc, Arrive(s)
    PROVE  AgendaInv' /\ AgendaStep
<1>1. ASSUME NEW u \in User, NEW c \in usedSched,
             Begin(s, "schedDelete", [Scoped(u) EXCEPT !.sched = c])
      PROVE  AgendaInv' /\ AgendaStep
  <2> DEFINE r == [Scoped(u) EXCEPT !.sched = c]
  <2>1. r.sched \in usedSched
    BY <1>1 DEF Scoped, NoRequest
  <2>2. Begin(s, "schedDelete", r)
    BY <1>1
  <2> HIDE DEF r
  <2> QED
    BY <2>1, <2>2, AgendaBegin
<1>2. ASSUME NEW r, NEW l \in {"create", "close", "active", "accept", "delete", "invite", "role",
                              "remove", "schedCreate"}, Begin(s, l, r)
      PROVE  AgendaInv' /\ AgendaStep
  BY <1>2, AgendaBegin
<1> QED
  BY <1>1, <1>2 DEF Arrive

\* Every step: only a creation, a deletion and a purge touch the schedules.
LEMMA AgendaNext ==
    ASSUME AccessInv, AgendaInv, Next
    PROVE  AgendaInv' /\ AgendaStep
<1>1. ASSUME NEW i \in Invite, InviteExpires(i) PROVE AgendaInv' /\ AgendaStep
  BY <1>1 DEF InviteExpires, agenda, AgendaInv, AgendaStep, OwnOrGone, Purging
<1>2. ASSUME NEW s \in Proc, Step(s) \/ Abort(s) PROVE AgendaInv' /\ AgendaStep
  <2>0. pc \in [Proc -> Label] /\ req \in [Proc -> Request]
        /\ schedules \in [Schedule -> ScheduleRow \cup {Nil}] /\ usedSched \subseteq Schedule
    BY DEF AccessInv, TypeOK
  <2>1. ASSUME Reply(s), UNCHANGED <<schedules, usedSched>> PROVE AgendaInv' /\ AgendaStep
    <3>1. pc'[s] = "idle" /\ \A o \in Proc \ {s} : pc'[o] = pc[o] /\ req'[o] = req[o]
      BY <2>1, ReplyFields DEF AccessInv
    <3> QED
      BY <2>1, <3>1, AgendaQuiet
  <2>2. ASSUME NEW l, Goto(s, l),
               l \notin {"schedDelete", "schedDeleteExec", "closeInvites", "closeMembers", "closeCommit"},
               UNCHANGED <<schedules, usedSched>>,
               \A o \in Proc \ {s} : req'[o] = req[o]
        PROVE  AgendaInv' /\ AgendaStep
    <3>1. pc'[s] = l /\ \A o \in Proc \ {s} : pc'[o] = pc[o]
      BY <2>0, <2>2 DEF Goto
    <3> QED
      BY <2>2, <3>1, AgendaQuiet
  <2>3. CASE \/ Abort(s) \/ TenantsCreate(s) \/ TenantDeleteExec(s) \/ InviteCreateExec(s)
             \/ InviteAcceptExec(s) \/ MemberUpdateRoleExec(s) \/ MemberRemoveExec(s)
             \/ AccountIdentityDelete(s) \/ ActiveWorkspacePut(s)
    BY <2>1, <2>3 DEF Abort, TenantsCreate, TenantDeleteExec, InviteCreateExec, InviteAcceptExec,
       MemberUpdateRoleExec, MemberRemoveExec, AccountIdentityDelete, ActiveWorkspacePut, db, agenda
  <2>4. CASE \/ TenantDeleteCheck(s) \/ InviteCreateCheck(s) \/ MembershipIdInvalid(s)
             \/ MemberUpdateRoleCheck(s) \/ MemberUpdateRoleGuard(s) \/ MemberRemoveCheck(s)
             \/ MemberRemoveGuard(s) \/ MemberRemoveGuardError(s) \/ AccountTalosPurge(s)
             \/ ActiveWorkspaceCheck(s) \/ ActiveWorkspaceGet(s)
    BY <2>2, <2>4 DEF TenantDeleteCheck, InviteCreateCheck, MembershipIdInvalid,
       MemberUpdateRoleCheck, MemberUpdateRoleGuard, MemberRemoveCheck, MemberRemoveGuard,
       MemberRemoveGuardError, AccountTalosPurge, ActiveWorkspaceCheck, ActiveWorkspaceGet, db, agenda
  <2>5. CASE InviteAcceptSelect(s)
    <3>1. Goto(s, "acceptExec") /\ UNCHANGED <<schedules, usedSched>>
          /\ \A o \in Proc \ {s} : req'[o] = req[o]
      BY <2>0, <2>5 DEF InviteAcceptSelect, db, agenda
    <3> QED
      BY <2>2, <3>1
  <2>6. CASE AccountPurgeSelect(s) \/ AccountPurgeInvites(s) \/ AccountPurgeMembers(s)
    <3>1. /\ UNCHANGED <<schedules, usedSched>>
          /\ pc'[s] \in {"closeInvites", "closeMembers", "closeCommit"}
          /\ \A o \in Proc \ {s} : pc'[o] = pc[o] /\ req'[o] = req[o]
      BY <2>0, <2>6 DEF AccountPurgeSelect, AccountPurgeInvites, AccountPurgeMembers, Goto, db, agenda
    <3>2. /\ req'[s].user = req[s].user
          /\ \A c \in req'[s].content : c \in usedSched /\ OwnOrGone(c, req[s].user)
      <4>1. req[s] \in Request
        BY <2>0
      <4>2. CASE AccountPurgeSelect(s)
        <5> DEFINE rows == {c \in Schedule : schedules[c] # Nil /\ schedules[c].user = req[s].user}
        <5>1. req'[s].content = rows /\ req'[s].user = req[s].user
          BY <2>0, <4>1, <4>2 DEF AccountPurgeSelect, Request
        <5> QED
          BY <5>1 DEF AgendaInv, OwnOrGone
      <4>3. CASE AccountPurgeInvites(s)
        <5>1. req'[s].content = req[s].content /\ req'[s].user = req[s].user /\ Purging(s)
          BY <2>0, <4>1, <4>3 DEF AccountPurgeInvites, Purging, Request
        <5> QED
          BY <5>1 DEF AgendaInv
      <4>4. CASE AccountPurgeMembers(s)
        <5>1. req'[s].content = req[s].content /\ req'[s].user = req[s].user /\ Purging(s)
          BY <2>0, <4>1, <4>4 DEF AccountPurgeMembers, Purging, Request
        <5> QED
          BY <5>1 DEF AgendaInv
      <4> QED
        BY <2>6, <4>2, <4>3, <4>4
    <3> QED
      BY <3>1, <3>2 DEF AgendaInv, AgendaStep, OwnOrGone, Purging
  <2>7. CASE AccountPurgeCommit(s)
    <3>1. /\ pc[s] = "closeCommit" /\ UNCHANGED usedSched
          /\ pc' = [pc EXCEPT ![s] = "talos"]
          /\ req' = [req EXCEPT ![s] = [NoRequest EXCEPT !.user = req[s].user]]
          /\ schedules' = [c \in Schedule |-> IF c \in req[s].content THEN Nil ELSE schedules[c]]
      BY <2>7 DEF AccountPurgeCommit, Goto
    <3>2. pc'[s] = "talos" /\ \A o \in Proc \ {s} : pc'[o] = pc[o] /\ req'[o] = req[o]
      BY <2>0, <3>1
    <3>3. \A c \in usedSched : schedules'[c] \in {schedules[c], Nil}
      BY <2>0, <3>1
    <3>4. \A c \in Schedule : schedules'[c] \in {schedules[c], Nil}
      BY <3>1
    <3>5. AgendaStep
      BY <3>1, <3>2 DEF AgendaInv, AgendaStep, Purging
    <3>6. \A o \in Proc :
            /\ pc'[o] \in {"schedDelete", "schedDeleteExec"} => req'[o].sched \in usedSched
            /\ pc'[o] = "schedDeleteExec" => OwnOrGone(req'[o].sched, req'[o].user)
            /\ Purging(o)' =>
                  \A d \in req'[o].content : d \in usedSched /\ OwnOrGone(d, req'[o].user)
      BY <3>2 DEF AgendaInv, Purging
    <3> QED
      BY <3>1, <3>3, <3>4, <3>5, <3>6 DEF AgendaInv, OwnOrGone
  <2>8. CASE SchedulesCreate(s)
    <3>1. PICK c \in Schedule \ usedSched :
            /\ schedules' = [schedules EXCEPT ![c] = [user |-> req[s].user, tenant |-> req[s].tenant]]
            /\ usedSched' = usedSched \cup {c} /\ Reply(s)
      BY <2>8 DEF SchedulesCreate
    <3>2. pc'[s] = "idle" /\ \A o \in Proc \ {s} : pc'[o] = pc[o] /\ req'[o] = req[o]
      BY <3>1, ReplyFields DEF AccessInv
    <3>3. \A d \in Schedule : d # c => schedules'[d] = schedules[d]
      BY <2>0, <3>1
    <3>4. \A d \in usedSched : schedules'[d] = schedules[d]
      BY <2>0, <3>3
    <3>5. AgendaStep
      BY <3>1, <3>3 DEF AgendaInv, AgendaStep
    <3>6. \A d \in Schedule : schedules'[d] # Nil => d \in usedSched'
      BY <3>1, <3>3 DEF AgendaInv
    <3>7. \A o \in Proc :
            /\ pc'[o] \in {"schedDelete", "schedDeleteExec"} => req'[o].sched \in usedSched
            /\ pc'[o] = "schedDeleteExec" => OwnOrGone(req'[o].sched, req'[o].user)
            /\ Purging(o)' =>
                  \A d \in req'[o].content : d \in usedSched /\ OwnOrGone(d, req'[o].user)
      BY <3>2 DEF AgendaInv, Purging
    <3> QED
      BY <3>1, <3>4, <3>5, <3>6, <3>7 DEF AgendaInv, OwnOrGone
  <2>9. CASE SchedulesDeleteCheck(s)
    <3>1. /\ pc[s] = "schedDelete" /\ UNCHANGED <<schedules, usedSched, req>>
          /\ pc'[s] = "schedDeleteExec" /\ \A o \in Proc \ {s} : pc'[o] = pc[o]
          /\ schedules[req[s].sched].user = req[s].user
      BY <2>0, <2>9 DEF SchedulesDeleteCheck, Goto, db, agenda
    <3> QED
      BY <3>1 DEF AgendaInv, AgendaStep, OwnOrGone, Purging
  <2>10. CASE SchedulesDeleteExec(s)
    <3>1. /\ pc[s] = "schedDeleteExec" /\ UNCHANGED usedSched /\ Reply(s)
          /\ schedules' = [schedules EXCEPT ![req[s].sched] = Nil]
      BY <2>10 DEF SchedulesDeleteExec
    <3>2. pc'[s] = "idle" /\ \A o \in Proc \ {s} : pc'[o] = pc[o] /\ req'[o] = req[o]
      BY <3>1, ReplyFields DEF AccessInv
    <3>3. \A c \in Schedule : schedules'[c] = IF c = req[s].sched THEN Nil ELSE schedules[c]
      BY <2>0, <3>1
    <3>4. \A c \in usedSched : schedules'[c] = IF c = req[s].sched THEN Nil ELSE schedules[c]
      BY <2>0, <3>3
    <3>5. AgendaStep
      BY <3>1, <3>2, <3>3 DEF AgendaInv, AgendaStep
    <3> QED
      BY <3>1, <3>2, <3>3, <3>4, <3>5 DEF AgendaInv, OwnOrGone, Purging
  <2> QED
    BY <1>2, <2>3, <2>4, <2>5, <2>6, <2>7, <2>8, <2>9, <2>10 DEF Step
<1> QED
  BY <1>1, <1>2, AgendaArrive DEF Next

\* What a step of the schedules does to a row that is there.
LEMMA KeptStep ==
    ASSUME AgendaStep, NEW c \in Schedule, schedules[c] # Nil, schedules'[c] # schedules[c]
    PROVE  /\ schedules'[c] = Nil
           /\ \E s \in Proc : /\ req[s].user = schedules[c].user
                              /\ pc[s] \in {"schedDeleteExec", "closeCommit"} /\ pc'[s] # pc[s]
  BY DEF AgendaStep, OwnOrGone

\* A schedule goes only by a deletion or a closure its own user asked for, for any
\* number of schedules, users and racing requests.
THEOREM OwnersDelete == Spec => SchedulesKept
<1>1. Init => AgendaInv
  BY DEF Init, AgendaInv, OwnOrGone, Purging
<1>2. AccessInv /\ AgendaInv /\ [Next]_vars => AgendaInv'
  BY AgendaNext DEF vars, AgendaInv, OwnOrGone, Purging
<1>3. AccessInv /\ AgendaInv /\ [Next]_vars =>
        [\A c \in Schedule : schedules[c] # Nil /\ schedules'[c] # schedules[c] =>
            /\ schedules'[c] = Nil
            /\ \E s \in Proc : /\ req[s].user = schedules[c].user
                               /\ pc[s] \in {"schedDeleteExec", "closeCommit"} /\ pc'[s] # pc[s]]_vars
  BY AgendaNext, KeptStep
<1> QED
  BY <1>1, <1>2, <1>3, Invariance, PTL DEF Spec, SchedulesKept

-----------------------------------------------------------------------------
(***************************************************************************)
(* Memberships.  The handlers that take one away checked the caller in an  *)
(* earlier statement (CheckedOwner); every other step keeps all of them.   *)
(***************************************************************************)
Ended(s, t, u) ==
    /\ pc'[s] # pc[s]
    /\ \/ /\ pc[s] = "removeExec" /\ req[s].tenant = t /\ req[s].target = u
          /\ req[s].user = u \/ WasOwner(t, req[s].user)
       \/ pc[s] = "deleteExec" /\ req[s].tenant = t /\ WasOwner(t, req[s].user)
       \/ pc[s] = "closeCommit" /\ WasMember(t, req[s].user)

\* The steps that take a membership away.
LEMMA EndStep ==
    ASSUME AccessInv, NEW s \in Proc, NEW t \in Tenant, NEW u \in User,
           MemberRemoveExec(s) \/ TenantDeleteExec(s) \/ AccountPurgeCommit(s),
           members'[t][u] # members[t][u]
    PROVE  Ended(s, t, u)
<1>1. /\ pc \in [Proc -> Label] /\ members \in [Tenant -> [User -> Role \cup {Nil}]]
      /\ req[s].user \in User
  BY DEF AccessInv, TypeOK, FieldsSet, MemberRemoveExec, TenantDeleteExec, AccountPurgeCommit
<1>2. pc'[s] # pc[s]
  BY <1>1 DEF MemberRemoveExec, TenantDeleteExec, AccountPurgeCommit, Reply, Goto
<1>3. CASE MemberRemoveExec(s)
  <2>1. req[s].tenant \in Tenant /\ req[s].target \in User /\ pc[s] = "removeExec"
    BY <1>3 DEF MemberRemoveExec, AccessInv, FieldsSet
  <2>2. members' = [members EXCEPT ![req[s].tenant][req[s].target] = Nil]
    BY <1>3 DEF MemberRemoveExec
  <2>3. req[s].tenant = t /\ req[s].target = u
    BY <1>1, <2>1, <2>2
  <2> QED
    BY <1>2, <2>1, <2>3 DEF Ended, AccessInv, CheckedOwner
<1>4. CASE TenantDeleteExec(s)
  <2>1. pc[s] = "deleteExec" /\ members'[t] = IF t \in {req[s].tenant} THEN NoMember ELSE members[t]
    BY <1>4 DEF TenantDeleteExec, DropTenants
  <2>2. req[s].tenant = t
    BY <2>1
  <2> QED
    BY <1>2, <2>1, <2>2 DEF Ended, AccessInv, CheckedOwner
<1>5. CASE AccountPurgeCommit(s)
  <2> DEFINE v == req[s].user
             left == req[s].left
  <2>1. /\ pc[s] = "closeCommit"
        /\ members' = [x \in Tenant |->
                          IF x \in req[s].doomed THEN NoMember
                          ELSE [members[x] EXCEPT ![v] = IF x \in left THEN Nil ELSE @]]
    BY <1>5 DEF AccountPurgeCommit
  <2>2. t \in req[s].doomed \cup left
    <3> SUFFICES ASSUME t \notin req[s].doomed, t \notin left PROVE FALSE
      OBVIOUS
    <3>1. members'[t] = [members[t] EXCEPT ![v] = members[t][v]]
      BY <2>1
    <3>2. members'[t][u] = members[t][u]
      BY <1>1, <3>1
    <3> QED
      BY <3>2
  <2>3. WasMember(t, v)
    BY <2>1, <2>2 DEF AccessInv, CheckedOwner, Purging
  <2> QED
    BY <1>2, <2>1, <2>3 DEF Ended
<1> QED
  BY <1>3, <1>4, <1>5

\* Every step: a membership that goes is ended by one of the three.
LEMMA LeaveStep ==
    ASSUME AccessInv, Next, NEW t \in Tenant, NEW u \in User,
           members[t][u] # Nil, members'[t][u] = Nil
    PROVE  \E s \in Proc : Ended(s, t, u)
<1>0. members \in [Tenant -> [User -> Role \cup {Nil}]] /\ members' # members
      /\ members'[t][u] # members[t][u] /\ Nil \notin Role /\ "owner" \in Role
  BY NilFacts DEF AccessInv, TypeOK, Role
<1>1. ASSUME NEW s \in Proc, NEW x, NEW v, NEW r \in Role, members' = [members EXCEPT ![x][v] = r]
      PROVE  FALSE
  BY <1>0, <1>1
<1>2. ASSUME NEW s \in Proc, TenantsCreate(s) PROVE FALSE
  <2>1. PICK x \in Tenant : members' = [members EXCEPT ![x][req[s].user] = "owner"]
    BY <1>2 DEF TenantsCreate
  <2> QED
    BY <1>0, <1>1, <2>1
<1>3. ASSUME NEW s \in Proc, InviteAcceptExec(s) \/ MemberUpdateRoleExec(s) PROVE FALSE
  <2>1. req[s].role \in Role
    BY <1>3 DEF InviteAcceptExec, MemberUpdateRoleExec, AccessInv, FieldsSet
  <2>2. \E v : members' = [members EXCEPT ![req[s].tenant][v] = req[s].role]
    BY <1>3 DEF InviteAcceptExec, MemberUpdateRoleExec
  <2> QED
    BY <1>1, <2>1, <2>2
<1>4. ASSUME NEW s \in Proc, Step(s) PROVE Ended(s, t, u)
  <2>1. \/ TenantsCreate(s) \/ InviteAcceptExec(s) \/ MemberUpdateRoleExec(s)
        \/ MemberRemoveExec(s) \/ TenantDeleteExec(s) \/ AccountPurgeCommit(s)
    BY <1>0, <1>4 DEF Step, TenantDeleteCheck, InviteCreateCheck, InviteCreateExec, InviteAcceptSelect,
       MembershipIdInvalid, MemberUpdateRoleCheck, MemberUpdateRoleGuard, MemberRemoveCheck,
       MemberRemoveGuard, MemberRemoveGuardError, AccountPurgeSelect, AccountPurgeInvites,
       AccountPurgeMembers, AccountTalosPurge, AccountIdentityDelete, ActiveWorkspaceCheck,
       ActiveWorkspaceGet, ActiveWorkspacePut, SchedulesCreate, SchedulesDeleteCheck,
       SchedulesDeleteExec, db
  <2> QED
    BY <1>0, <1>2, <1>3, <2>1, EndStep
<1>5. ASSUME NEW s \in Proc, Arrive(s) \/ Abort(s) PROVE FALSE
  BY <1>0, <1>5 DEF Arrive, Begin, Abort, db
<1>6. ASSUME NEW i \in Invite, InviteExpires(i) PROVE FALSE
  BY <1>0, <1>6 DEF InviteExpires
<1> QED
  BY <1>4, <1>5, <1>6 DEF Next

\* A membership goes only when the user leaves, by somebody who has been an owner
\* of the workspace, or by the closure of an account that has been a member of
\* it, for any number of users, workspaces and racing requests.
THEOREM NotByStrangers == Spec => MembersKept
<1>1. AccessInv /\ [Next]_vars =>
        [\A t \in Tenant, u \in User : members[t][u] # Nil /\ members'[t][u] = Nil =>
            \E s \in Proc :
                /\ pc'[s] # pc[s]
                /\ \/ /\ pc[s] = "removeExec" /\ req[s].tenant = t /\ req[s].target = u
                      /\ req[s].user = u \/ WasOwner(t, req[s].user)
                   \/ pc[s] = "deleteExec" /\ req[s].tenant = t /\ WasOwner(t, req[s].user)
                   \/ pc[s] = "closeCommit" /\ WasMember(t, req[s].user)]_vars
  BY LeaveStep DEF Ended
<1> QED
  BY <1>1, Invariance, PTL DEF Spec, MembersKept
=============================================================================
