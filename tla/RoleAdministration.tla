-------------------------- MODULE RoleAdministration --------------------------
(***************************************************************************)
(* Roles and accounts: who is an administrator, who is a verified member.  *)
(*                                                                         *)
(*   internal/core/permission/service.go      roles and their assignment   *)
(*   internal/core/user/service.go            status, WeChat login         *)
(*   internal/modules/academic_verification   decides who is a member      *)
(*                                                                         *)
(* SetUserRoles and SetStatus run inside the transaction of the idempotent *)
(* request. The user is read first, then the super_admin role is locked,   *)
(* and what follows the lock are plain reads. Under REPEATABLE READ, which *)
(* is MySQL's default, they see the state of the first read; under READ    *)
(* COMMITTED the state after the lock. A request opens (first read), locks *)
(* (from here on it is alone among its kind) and applies (checks what it   *)
(* sees, writes, commits). DeleteRole counts assignments, then deletes.    *)
(*                                                                         *)
(* A WeChat login reconciles the user's base role with what the policy     *)
(* cache of its process says. Writes to one user's assignments lock their  *)
(* rows and delete what is there now, whatever the view of their reader.   *)
(***************************************************************************)
EXTENDS Integers, FiniteSets

CONSTANTS
    Users,          \* accounts
    FirstAdmin,     \* the account campusctl made super administrator
    CustomRoles,    \* roles administrators may create and delete
    Wishes,         \* role sets administrators ask for
    Students,       \* accounts that apply for academic verification and log in by WeChat
    Requests,       \* concurrent administrative requests
    Processes,      \* server processes, each with its policy cache
    MaxOpened       \* bound: administrative requests

Base == {"guest", "member"}
Roles == CustomRoles \cup Base \cup {"super_admin"}

ASSUME RolesAssumption ==
    /\ FirstAdmin \in Users
    /\ CustomRoles \cap (Base \cup {"super_admin"}) = {}
    /\ Wishes \subseteq SUBSET Roles
    /\ Students \subseteq Users
    /\ MaxOpened \in Nat

VARIABLES
    snapshotReads,  \* the isolation level: REPEATABLE READ or READ COMMITTED
    active,         \* accounts that are not disabled
    roles,          \* roles[u]: the g rows of casbin_rule
    existing,       \* custom roles that exist
    verified,       \* users with a verified academic identity
    tx,             \* tx[q]: an administrative request under way
    locked,         \* requests that hold the lock of the super_admin role
    cache,          \* cache[p]: the members, as process p's enforcer knows them
    login,          \* login[p]: a login between its read of the cache and its write
    outdated,       \* a request relied on an administrator who was one no more
    opened          \* administrative requests so far (bound)

dataVars == <<active, roles, existing, verified>>
vars == <<snapshotReads, active, roles, existing, verified, tx, locked, cache, login, outdated,
          opened>>

Ops == {"none", "roles", "disable", "delete"}

\* JOIN users ... WHERE v1 = 'super_admin' AND status = 'active'
Admins == {u \in active : "super_admin" \in roles[u]}
Members == {u \in Users : "member" \in roles[u]}

\* What the reads of a request for user u and roles wanted find at this moment:
\* the active administrators, the user's roles, and the custom roles that exist
\* and that are assigned.
Reads(u, wanted) ==
    [admins |-> Admins, mine |-> roles[u], known |-> wanted \cap existing,
     used |-> {g \in wanted : \E v \in Users : g \in roles[v]}]

-----------------------------------------------------------------------------
\* After Bootstrap: guests, and the first administrator.
InitialRoles == [u \in Users |-> {"guest"} \cup IF u = FirstAdmin THEN {"super_admin"} ELSE {}]
Nothing == [admins |-> {}, mine |-> {}, known |-> {}, used |-> {}]
Idle == [op |-> "none", user |-> FirstAdmin, wanted |-> {}, seen |-> Nothing]

Init ==
    /\ snapshotReads \in BOOLEAN
    /\ active = Users
    /\ roles = InitialRoles
    /\ existing = {}
    /\ verified = {}
    /\ tx = [q \in Requests |-> Idle]
    /\ locked = {}
    /\ cache = [p \in Processes |-> {}]
    /\ login = [p \in Processes |-> {}]
    /\ outdated = FALSE
    /\ opened = 0

\* The request's transaction begins with users.Get, its first read.
Open(q, op, u, wanted) ==
    /\ tx[q].op = "none"
    /\ opened < MaxOpened /\ opened' = opened + 1
    /\ tx' = [tx EXCEPT ![q] = [op |-> op, user |-> u, wanted |-> wanted,
                                seen |-> IF snapshotReads \/ op = "delete"
                                         THEN Reads(u, wanted) ELSE Nothing]]
    /\ UNCHANGED <<snapshotReads, dataVars, locked, cache, login, outdated>>

\* Roles are replaced; guest and member are refused as managed_base_role.
OpenSetRoles(q, u, wanted) == wanted \cap Base = {} /\ Open(q, "roles", u, wanted)
OpenDisable(q, u) == Open(q, "disable", u, {})

lockSuperAdminRole(q) ==
    /\ tx[q].op \in {"roles", "disable"}
    /\ locked = {}
    /\ locked' = {q}
    /\ tx' = IF snapshotReads THEN tx ELSE [tx EXCEPT ![q].seen = Reads(tx[q].user, tx[q].wanted)]
    /\ UNCHANGED <<snapshotReads, dataVars, cache, login, outdated, opened>>

Holds(q, op) == tx[q].op = op /\ q \in locked

End(q) == tx' = [tx EXCEPT ![q] = Idle] /\ locked' = locked \ {q}

\* The count of the other administrators, where the user is one.
LastAdmin(q) ==
    "super_admin" \in tx[q].seen.mine /\ tx[q].seen.admins \ {tx[q].user} = {}

\* Whether the request relied on an administrator who is none any more.
Relied(q) == outdated' = (outdated \/ ~(tx[q].seen.admins \subseteq Admins))

\* Mutant: the base role is kept only where it is member.
BaseOfMembers(q) == IF "member" \in tx[q].seen.mine THEN "member" ELSE ""

\* The base role SetUserRoles keeps.
BaseOf(q) == IF "member" \in tx[q].seen.mine THEN "member" ELSE "guest"

SetUserRoles(q) ==
    /\ Holds(q, "roles")
    /\ tx[q].wanted \cap CustomRoles = tx[q].seen.known
    /\ "super_admin" \in tx[q].wanted \/ ~LastAdmin(q)
    /\ roles' = [roles EXCEPT ![tx[q].user] = tx[q].wanted \cup {BaseOf(q)}]
    /\ Relied(q)
    /\ End(q)
    /\ UNCHANGED <<snapshotReads, active, existing, verified, cache, login, opened>>

DisableUser(q) ==
    /\ Holds(q, "disable")
    /\ ~LastAdmin(q)
    /\ active' = active \ {tx[q].user}
    /\ Relied(q)
    /\ End(q)
    /\ UNCHANGED <<snapshotReads, roles, existing, verified, cache, login, opened>>

\* A refusal, an error or a deadlock rolls the request back.
Rollback(q) ==
    /\ tx[q].op # "none"
    /\ End(q)
    /\ UNCHANGED <<snapshotReads, dataVars, cache, login, outdated, opened>>

\* SetStatus to active takes no lock and looks at nothing.
EnableUser(u) ==
    /\ u \notin active
    /\ active' = active \cup {u}
    /\ UNCHANGED <<snapshotReads, roles, existing, verified, tx, locked, cache, login, outdated, opened>>

-----------------------------------------------------------------------------
CreateRole(g) ==
    /\ g \notin existing
    /\ existing' = existing \cup {g}
    /\ UNCHANGED <<snapshotReads, active, roles, verified, tx, locked, cache, login, outdated, opened>>

\* DeleteRole locks the role's row and counts its assignments ...
OpenDelete(q, g) ==
    /\ g \in existing
    /\ \A r \in Requests : tx[r].op = "delete" => g \notin tx[r].wanted
    /\ Open(q, "delete", FirstAdmin, {g})

\* ... and deletes it if there were none.
DeleteRole(q) ==
    /\ tx[q].op = "delete"
    /\ tx[q].seen.used = {}
    /\ existing' = existing \ tx[q].wanted
    /\ End(q)
    /\ UNCHANGED <<snapshotReads, active, roles, verified, cache, login, outdated, opened>>

-----------------------------------------------------------------------------
\* Mutant: the other base role is kept.
AddsBaseRole(u, base) == [roles EXCEPT ![u] = @ \cup {base}]

\* The user's base role is replaced, in the caller's transaction.
ensureBaseRole(u, base) == [roles EXCEPT ![u] = (@ \ Base) \cup {base}]

\* Academic verification approves or revokes, with the base role in its transaction.
Approve(u) ==
    /\ u \notin verified
    /\ verified' = verified \cup {u}
    /\ roles' = ensureBaseRole(u, "member")
    /\ UNCHANGED <<snapshotReads, active, existing, tx, locked, cache, login, outdated, opened>>

Revoke(u) ==
    /\ u \in verified
    /\ verified' = verified \ {u}
    /\ roles' = ensureBaseRole(u, "guest")
    /\ UNCHANGED <<snapshotReads, active, existing, tx, locked, cache, login, outdated, opened>>

\* FindOrCreateForWechat: GetUserRoles outside a transaction asks the cache.
BeginLogin(p, u) ==
    /\ u \in active
    /\ login[p] = {}
    /\ login' = [login EXCEPT ![p] =
                   {<<u, IF u \in cache[p] THEN "member" ELSE "guest">>}]
    /\ UNCHANGED <<snapshotReads, dataVars, tx, locked, cache, outdated, opened>>

\* The write reloads this process's cache after its commit, see Reload.
EnsureCurrentBaseRoleForUser(p, u, base) ==
    /\ <<u, base>> \in login[p]
    /\ roles' = ensureBaseRole(u, base)
    /\ login' = [login EXCEPT ![p] = {}]
    /\ UNCHANGED <<snapshotReads, active, existing, verified, tx, locked, cache, outdated, opened>>

\* reloadPolicy, by callback, notification or timer.
Reload(p) ==
    /\ cache[p] # Members
    /\ cache' = [cache EXCEPT ![p] = Members]
    /\ UNCHANGED <<snapshotReads, dataVars, tx, locked, login, outdated, opened>>

-----------------------------------------------------------------------------
RequestStep(q) ==
    \/ \E u \in Users : \/ \E wanted \in Wishes : OpenSetRoles(q, u, wanted)
                        \/ OpenDisable(q, u)
    \/ lockSuperAdminRole(q)
    \/ SetUserRoles(q)
    \/ DisableUser(q)
    \/ \E g \in CustomRoles : OpenDelete(q, g)
    \/ DeleteRole(q)
    \/ Rollback(q)

LoginStep(p) ==
    \/ \E u \in Students : \/ BeginLogin(p, u)
                           \/ \E base \in Base : EnsureCurrentBaseRoleForUser(p, u, base)
    \/ Reload(p)

Next ==
    \/ \E q \in Requests : RequestStep(q)
    \/ \E u \in Users : EnableUser(u)
    \/ \E u \in Students : Approve(u) \/ Revoke(u)
    \/ \E g \in CustomRoles : CreateRole(g)
    \/ \E p \in Processes : LoginStep(p)

Spec == Init /\ [][Next]_vars

-----------------------------------------------------------------------------
Seen == [admins : SUBSET Users, mine : SUBSET Roles, known : SUBSET Roles, used : SUBSET Roles]

\* Types of the tables, of the requests under way and of the caches.
TypeOK ==
    /\ snapshotReads \in BOOLEAN
    /\ active \subseteq Users
    /\ roles \in [Users -> SUBSET Roles]
    /\ existing \subseteq CustomRoles
    /\ verified \subseteq Users
    /\ tx \in [Requests -> [op : Ops, user : Users, wanted : SUBSET Roles, seen : Seen]]
    /\ locked \subseteq Requests
    /\ cache \in [Processes -> SUBSET Users]
    /\ login \in [Processes -> SUBSET (Users \X Base)]
    /\ outdated \in BOOLEAN
    /\ opened \in Nat

\* Every user always has exactly one base role: SetUserRoles with a view as old
\* as it may be, approvals, revocations and logins never leave two or none.
OneBaseRole == \A u \in Users : \E base \in Base : roles[u] \cap Base = {base}

\* DisableUser and SetUserRoles check under one lock, so they lose the last
\* active super administrator only if the view they check is older than the
\* lock: never under READ COMMITTED.
LostOnlyByOldView ==
    Admins # {} \/ (outdated /\ snapshotReads)

\* service.go: "DisableUser atomically preserves one active super administrator
\* while disabling a user."
PreservesSuperAdmin == Admins # {}

\* service.go: EnsureCurrentBaseRoleForUser "reconciles policies without
\* demoting a verified member"; SetUserRoles: base roles are managed by the
\* academic verification alone.
MembersStayMembers == \A u \in verified : "member" \in roles[u]
=============================================================================
