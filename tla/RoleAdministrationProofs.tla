------------------------ MODULE RoleAdministrationProofs ------------------------
(* Theorems about RoleAdministration, for any accounts, roles and requests. *)
EXTENDS RoleAdministration, TLAPS

\* The lock of the super_admin role has one holder, a request of the two kinds.
LockInv ==
    /\ \A q, r \in locked : q = r
    /\ \A q \in locked : tx[q].op \in {"roles", "disable"}

\* No request asks for a base role.
WantedInv == \A q \in Requests : tx[q].wanted \cap Base = {}

\* A request that has done its reads.
HasRead(q) == tx[q].op \in {"roles", "disable"} /\ (snapshotReads \/ q \in locked)

Lost == outdated /\ snapshotReads

\* What a request has read: some administrator, unless they were lost before;
\* the user's own roles agree; and under READ COMMITTED it is still true.
SeenInv ==
    \A q \in Requests : HasRead(q) =>
        /\ tx[q].seen.admins # {} \/ Lost
        /\ tx[q].user \in tx[q].seen.admins => "super_admin" \in tx[q].seen.mine
        /\ ~snapshotReads => tx[q].seen.admins \subseteq Admins

IInv == TypeOK /\ OneBaseRole /\ LockInv /\ WantedInv /\ SeenInv /\ LostOnlyByOldView

-----------------------------------------------------------------------------
\* A base role is not the administrator's role.
LEMMA BaseRoles == Base \subseteq Roles /\ "super_admin" \in Roles /\ "super_admin" \notin Base
BY DEF Base, Roles

\* What the reads of a request return has the right types and agrees with the tables.
LEMMA ReadsFacts ==
    ASSUME TypeOK, NEW u \in Users, NEW wanted \in SUBSET Roles
    PROVE  /\ Reads(u, wanted) \in Seen
           /\ Reads(u, wanted).admins = Admins
           /\ Reads(u, wanted).mine = roles[u]
           /\ u \in Admins => "super_admin" \in roles[u]
BY DEF TypeOK, Reads, Seen, Admins

\* Idle requests and the empty result have their types.
LEMMA IdleType == Nothing \in Seen /\ Idle \in [op : Ops, user : Users, wanted : SUBSET Roles, seen : Seen]
BY RolesAssumption DEF Nothing, Idle, Seen, Ops

\* Replacing a base role leaves one base role and touches no administrator.
LEMMA EnsureBaseRole ==
    ASSUME TypeOK, OneBaseRole, NEW u \in Users, NEW base \in Base, roles' = ensureBaseRole(u, base)
    PROVE  /\ roles' \in [Users -> SUBSET Roles]
           /\ OneBaseRole'
           /\ \A v \in Users : "super_admin" \in roles'[v] <=> "super_admin" \in roles[v]
<1>1. roles' \in [Users -> SUBSET Roles]
  BY BaseRoles DEF TypeOK, ensureBaseRole
<1>2. \A v \in Users : "super_admin" \in roles'[v] <=> "super_admin" \in roles[v]
  BY BaseRoles DEF TypeOK, ensureBaseRole, Base
<1>3. ASSUME NEW v \in Users PROVE \E b \in Base : roles'[v] \cap Base = {b}
  <2>1. CASE v = u
    <3>1. roles'[v] = (roles[v] \ Base) \cup {base} BY <2>1 DEF TypeOK, ensureBaseRole
    <3>2. roles'[v] \cap Base = {base} BY <3>1
    <3> QED BY <3>2
  <2>2. CASE v # u
    <3>1. roles'[v] = roles[v] BY <2>2 DEF TypeOK, ensureBaseRole
    <3> QED BY <3>1 DEF OneBaseRole
  <2> QED BY <2>1, <2>2
<1> QED BY <1>1, <1>2, <1>3 DEF OneBaseRole

-----------------------------------------------------------------------------
\* Types are kept by every step.
LEMMA TypeStep == TypeOK /\ OneBaseRole /\ [Next]_vars => TypeOK'
<1> SUFFICES ASSUME TypeOK, OneBaseRole, [Next]_vars PROVE TypeOK'
  OBVIOUS
<1>1. ASSUME NEW q \in Requests, NEW op \in Ops, NEW u \in Users, NEW wanted \in SUBSET Roles,
             Open(q, op, u, wanted)
      PROVE  TypeOK'
  <2>1. Reads(u, wanted) \in Seen BY ReadsFacts
  <2>2. tx' \in [Requests -> [op : Ops, user : Users, wanted : SUBSET Roles, seen : Seen]]
    BY <1>1, <2>1, IdleType DEF Open, TypeOK
  <2> QED BY <1>1, <2>2, RolesAssumption DEF Open, TypeOK, dataVars
<1>2. ASSUME NEW q \in Requests, lockSuperAdminRole(q) PROVE TypeOK'
  <2>1. Reads(tx[q].user, tx[q].wanted) \in Seen BY ReadsFacts DEF TypeOK
  <2>2. tx' \in [Requests -> [op : Ops, user : Users, wanted : SUBSET Roles, seen : Seen]]
    BY <1>2, <2>1 DEF lockSuperAdminRole, TypeOK
  <2> QED BY <1>2, <2>2 DEF lockSuperAdminRole, TypeOK, dataVars
<1>3. ASSUME NEW q \in Requests, End(q)
      PROVE  /\ tx' \in [Requests -> [op : Ops, user : Users, wanted : SUBSET Roles, seen : Seen]]
             /\ locked' \subseteq Requests
  BY <1>3, IdleType DEF End, TypeOK
<1>4. ASSUME NEW q \in Requests, SetUserRoles(q) PROVE TypeOK'
  <2>1. roles' \in [Users -> SUBSET Roles]
    BY <1>4, BaseRoles DEF SetUserRoles, TypeOK, BaseOf, Base
  <2> QED BY <1>3, <1>4, <2>1 DEF SetUserRoles, TypeOK, Relied
<1>5. ASSUME NEW q \in Requests, DisableUser(q) PROVE TypeOK'
  BY <1>3, <1>5 DEF DisableUser, TypeOK, Relied
<1>6. ASSUME NEW q \in Requests, DeleteRole(q) PROVE TypeOK'
  BY <1>3, <1>6 DEF DeleteRole, TypeOK
<1>7. ASSUME NEW q \in Requests, Rollback(q) PROVE TypeOK'
  BY <1>3, <1>7 DEF Rollback, TypeOK, dataVars
<1>8. ASSUME NEW q \in Requests, RequestStep(q) PROVE TypeOK'
  <2>1. ASSUME NEW u \in Users, NEW wanted \in Wishes, OpenSetRoles(q, u, wanted) PROVE TypeOK'
    BY <2>1, <1>1, RolesAssumption DEF OpenSetRoles, Ops
  <2>2. ASSUME NEW u \in Users, OpenDisable(q, u) PROVE TypeOK'
    BY <2>2, <1>1 DEF OpenDisable, Ops
  <2>3. ASSUME NEW g \in CustomRoles, OpenDelete(q, g) PROVE TypeOK'
    BY <2>3, <1>1, RolesAssumption DEF OpenDelete, Ops, Roles
  <2> QED BY <1>2, <1>4, <1>5, <1>6, <1>7, <1>8, <2>1, <2>2, <2>3 DEF RequestStep
<1>9. ASSUME NEW u \in Users, EnableUser(u) PROVE TypeOK'
  BY <1>9 DEF EnableUser, TypeOK
<1>10. ASSUME NEW u \in Students, Approve(u) \/ Revoke(u) PROVE TypeOK'
  <2>1. u \in Users BY RolesAssumption
  <2>2. roles' \in [Users -> SUBSET Roles]
    BY <1>10, <2>1, EnsureBaseRole DEF Approve, Revoke, Base
  <2> QED BY <1>10, <2>1, <2>2 DEF Approve, Revoke, TypeOK
<1>11. ASSUME NEW g \in CustomRoles, CreateRole(g) PROVE TypeOK'
  BY <1>11 DEF CreateRole, TypeOK
<1>12. ASSUME NEW p \in Processes, LoginStep(p) PROVE TypeOK'
  <2>1. ASSUME NEW u \in Students, BeginLogin(p, u) PROVE TypeOK'
    BY <2>1, RolesAssumption DEF BeginLogin, TypeOK, dataVars, Base
  <2>2. ASSUME NEW u \in Students, NEW base \in Base, EnsureCurrentBaseRoleForUser(p, u, base)
        PROVE  TypeOK'
    <3>1. roles' \in [Users -> SUBSET Roles]
      BY <2>2, RolesAssumption, EnsureBaseRole DEF EnsureCurrentBaseRoleForUser
    <3> QED BY <2>2, <3>1 DEF EnsureCurrentBaseRoleForUser, TypeOK
  <2>3. CASE Reload(p)
    BY <2>3 DEF Reload, TypeOK, dataVars, Members
  <2> QED BY <1>12, <2>1, <2>2, <2>3 DEF LoginStep
<1>13. CASE UNCHANGED vars
  BY <1>13 DEF vars, TypeOK
<1> QED BY <1>8, <1>9, <1>10, <1>11, <1>12, <1>13 DEF Next

-----------------------------------------------------------------------------
\* A step that changes no assignment of the administrator's role, disables
\* nobody and leaves the requests alone keeps the invariant.
LEMMA QuietStep ==
    ASSUME IInv, TypeOK', OneBaseRole',
           active \subseteq active',
           \A v \in Users : "super_admin" \in roles'[v] <=> "super_admin" \in roles[v],
           UNCHANGED <<snapshotReads, tx, locked, outdated>>
    PROVE  IInv'
<1>1. Admins \subseteq Admins' BY DEF Admins, IInv, TypeOK
<1>2. LockInv' /\ WantedInv' BY DEF IInv, LockInv, WantedInv
<1>3. SeenInv' BY <1>1 DEF IInv, SeenInv, HasRead, Lost
<1>4. LostOnlyByOldView' BY <1>1 DEF IInv, LostOnlyByOldView
<1> QED BY <1>2, <1>3, <1>4 DEF IInv

\* A new request: nobody else's reads change.
LEMMA OpenStep ==
    ASSUME IInv, TypeOK', NEW q \in Requests, NEW op \in Ops \ {"none"}, NEW u \in Users,
           NEW wanted \in SUBSET Roles, wanted \cap Base = {}, Open(q, op, u, wanted)
    PROVE  IInv'
<1> USE DEF IInv
<1>1. UNCHANGED <<snapshotReads, active, roles, locked, outdated>> BY DEF Open, dataVars
<1>2. Admins' = Admins BY <1>1 DEF Admins
<1>3. q \notin locked BY DEF Open, LockInv
<1>4. \A r \in Requests : r # q => tx'[r] = tx[r] BY DEF Open, TypeOK
<1>5. LockInv' BY <1>1, <1>3, <1>4 DEF LockInv, TypeOK
<1>6. SeenInv'
  <2> SUFFICES ASSUME NEW r \in Requests, HasRead(r)'
               PROVE  /\ tx'[r].seen.admins # {} \/ Lost'
                      /\ tx'[r].user \in tx'[r].seen.admins => "super_admin" \in tx'[r].seen.mine
                      /\ ~snapshotReads' => tx'[r].seen.admins \subseteq Admins'
    BY DEF SeenInv
  <2>1. CASE r # q
    BY <2>1, <1>1, <1>2, <1>4 DEF SeenInv, HasRead, Lost
  <2>2. CASE r = q
    <3>1. snapshotReads BY <2>2, <1>1, <1>3 DEF HasRead
    <3>2. tx'[q].seen = Reads(u, wanted) /\ tx'[q].user = u
      BY <3>1 DEF Open, TypeOK
    <3> QED BY <2>2, <3>1, <3>2, <1>1, <1>2, ReadsFacts DEF LostOnlyByOldView, Lost
  <2> QED BY <2>1, <2>2
<1>7. LostOnlyByOldView' BY <1>1, <1>2 DEF LostOnlyByOldView
<1>8. OneBaseRole' BY <1>1 DEF OneBaseRole
<1>9. WantedInv' BY <1>4 DEF WantedInv, Open, TypeOK
<1> QED BY <1>5, <1>6, <1>7, <1>8, <1>9

\* The lock: under READ COMMITTED the request reads now.
LEMMA LockStep ==
    ASSUME IInv, TypeOK', NEW q \in Requests, lockSuperAdminRole(q)
    PROVE  IInv'
<1> USE DEF IInv
<1>1. UNCHANGED <<snapshotReads, active, roles, outdated>> /\ locked = {} /\ locked' = {q}
  BY DEF lockSuperAdminRole, dataVars
<1>2. Admins' = Admins BY <1>1 DEF Admins
<1>3. \A r \in Requests : /\ r # q => tx'[r] = tx[r]
                          /\ tx'[r].op = tx[r].op /\ tx'[r].user = tx[r].user
                          /\ tx'[r].wanted = tx[r].wanted
  BY DEF lockSuperAdminRole, TypeOK
<1>4. LockInv' BY <1>1, <1>3 DEF LockInv, lockSuperAdminRole
<1>5. SeenInv'
  <2> SUFFICES ASSUME NEW r \in Requests, HasRead(r)'
               PROVE  /\ tx'[r].seen.admins # {} \/ Lost'
                      /\ tx'[r].user \in tx'[r].seen.admins => "super_admin" \in tx'[r].seen.mine
                      /\ ~snapshotReads' => tx'[r].seen.admins \subseteq Admins'
    BY DEF SeenInv
  <2>1. CASE snapshotReads
    <3>1. tx' = tx BY <2>1 DEF lockSuperAdminRole
    <3> QED BY <2>1, <3>1, <1>1, <1>2 DEF SeenInv, HasRead, Lost
  <2>2. CASE ~snapshotReads
    <3>1. r = q BY <2>2, <1>1 DEF HasRead
    <3>2. tx'[q].seen = Reads(tx[q].user, tx[q].wanted)
      BY <2>2 DEF lockSuperAdminRole, TypeOK
    <3>3. tx[q].user \in Users /\ tx[q].wanted \in SUBSET Roles BY DEF TypeOK
    <3> QED BY <3>1, <3>2, <3>3, <1>1, <1>2, <1>3, <2>2, ReadsFacts DEF LostOnlyByOldView, Lost
  <2> QED BY <2>1, <2>2
<1>6. LostOnlyByOldView' BY <1>1, <1>2 DEF LostOnlyByOldView
<1>7. OneBaseRole' BY <1>1 DEF OneBaseRole
<1>8. WantedInv' BY <1>3 DEF WantedInv
<1> QED BY <1>4, <1>5, <1>6, <1>7, <1>8

\* A request ends that changed no administrator.
LEMMA EndStep ==
    ASSUME IInv, TypeOK', NEW q \in Requests, End(q),
           UNCHANGED <<snapshotReads, active, roles, outdated>>
    PROVE  IInv'
<1> USE DEF IInv
<1>1. Admins' = Admins BY DEF Admins
<1>2. \A r \in Requests : tx'[r] = IF r = q THEN Idle ELSE tx[r] BY DEF End, TypeOK
<1>3. LockInv' BY <1>2 DEF LockInv, End, TypeOK
<1>4. SeenInv' BY <1>1, <1>2 DEF SeenInv, HasRead, Lost, End, Idle
<1>5. LostOnlyByOldView' BY <1>1 DEF LostOnlyByOldView
<1>6. OneBaseRole' BY DEF OneBaseRole
<1>7. WantedInv' BY <1>2 DEF WantedInv, Idle
<1> QED BY <1>3, <1>4, <1>5, <1>6, <1>7

\* The heart: whoever applies a request under the lock leaves an administrator,
\* or was misled by a view older than the lock.
LEMMA ApplyStep ==
    ASSUME IInv, TypeOK', OneBaseRole', NEW q \in Requests, q \in locked, End(q), Relied(q),
           snapshotReads' = snapshotReads,
           \A v \in Users \ {tx[q].user} : roles'[v] = roles[v] /\ (v \in active' <=> v \in active),
           \/ ~LastAdmin(q)
           \/ tx[q].user \in Admins => tx[q].user \in Admins'
    PROVE  IInv'
<1> USE DEF IInv
<1> DEFINE u == tx[q].user
           seen == tx[q].seen.admins
<1>1. /\ seen # {} \/ Lost
      /\ u \in seen => "super_admin" \in tx[q].seen.mine
      /\ ~snapshotReads => seen \subseteq Admins
  BY DEF SeenInv, HasRead, LockInv
<1>2. \A r \in Requests : tx'[r] = IF r = q THEN Idle ELSE tx[r] BY DEF End, TypeOK
<1>3. locked' = {} BY DEF LockInv, End, TypeOK
<1>4. LockInv' BY <1>3 DEF LockInv
<1>5. Lost => Lost' BY DEF Lost, Relied, TypeOK
<1>6. Admins \ {u} \subseteq Admins' BY DEF Admins, TypeOK
<1>7. seen \subseteq Admins \/ Lost' BY <1>1 DEF Lost, Relied, TypeOK
<1>8. LostOnlyByOldView'
  <2> SUFFICES ASSUME ~Lost' PROVE Admins' # {}
    BY DEF LostOnlyByOldView, Lost
  <2>1. seen # {} /\ seen \subseteq Admins BY <1>1, <1>5, <1>7
  <2>2. CASE u \notin seen BY <2>1, <2>2, <1>6
  <2>3. CASE u \in seen
    <3>1. CASE ~LastAdmin(q)
      <4>1. seen \ {u} # {} BY <2>3, <3>1, <1>1 DEF LastAdmin
      <4> QED BY <4>1, <2>1, <1>6
    <3>2. CASE u \in Admins => u \in Admins' BY <3>2, <2>1, <2>3
    <3> QED BY <3>1, <3>2
  <2> QED BY <2>2, <2>3
<1>9. SeenInv' BY <1>1, <1>2, <1>3, <1>5 DEF SeenInv, HasRead, Idle
<1>10. WantedInv' BY <1>2 DEF WantedInv, Idle
<1> QED BY <1>4, <1>8, <1>9, <1>10

-----------------------------------------------------------------------------
\* The inductive invariant holds at the start ...
LEMMA InitInv == Init => IInv
<1> SUFFICES ASSUME Init PROVE IInv
  OBVIOUS
<1>1. InitialRoles \in [Users -> SUBSET Roles]
  BY BaseRoles DEF InitialRoles, Base
<1>2. TypeOK BY <1>1, IdleType DEF Init, TypeOK
<1>3. OneBaseRole
  <2> SUFFICES ASSUME NEW u \in Users PROVE \E base \in Base : roles[u] \cap Base = {base}
    BY DEF OneBaseRole
  <2>1. roles[u] \cap Base = {"guest"} BY BaseRoles DEF Init, InitialRoles, Base
  <2> QED BY <2>1 DEF Base
<1>4. FirstAdmin \in Admins BY RolesAssumption DEF Init, InitialRoles, Admins
<1>5. LockInv /\ WantedInv /\ SeenInv /\ LostOnlyByOldView
  BY <1>4 DEF Init, LockInv, WantedInv, SeenInv, HasRead, Idle, LostOnlyByOldView
<1> QED BY <1>2, <1>3, <1>5 DEF IInv

\* ... and every step keeps it.
LEMMA NextInv == IInv /\ [Next]_vars => IInv'
<1> SUFFICES ASSUME IInv, [Next]_vars PROVE IInv'
  OBVIOUS
<1>1. TypeOK /\ OneBaseRole /\ TypeOK' BY TypeStep DEF IInv
<1>2. ASSUME NEW q \in Requests, RequestStep(q) PROVE IInv'
  <2>1. ASSUME NEW u \in Users, NEW wanted \in Wishes, OpenSetRoles(q, u, wanted) PROVE IInv'
    BY <2>1, <1>1, OpenStep, RolesAssumption DEF OpenSetRoles, Ops
  <2>2. ASSUME NEW u \in Users, OpenDisable(q, u) PROVE IInv'
    BY <2>2, <1>1, OpenStep DEF OpenDisable, Ops
  <2>3. ASSUME NEW g \in CustomRoles, OpenDelete(q, g) PROVE IInv'
    BY <2>3, <1>1, OpenStep, RolesAssumption DEF OpenDelete, Ops, Roles
  <2>4. CASE lockSuperAdminRole(q)
    BY <2>4, <1>1, LockStep
  <2>5. CASE SetUserRoles(q)
    <3> DEFINE u == tx[q].user
    <3>1. u \in Users /\ q \in locked BY <2>5, <1>1 DEF SetUserRoles, Holds, TypeOK
    <3>2. \A v \in Users \ {u} : roles'[v] = roles[v]
      BY <2>5, <1>1 DEF SetUserRoles, TypeOK
    <3>3. roles'[u] = tx[q].wanted \cup {BaseOf(q)} BY <2>5, <3>1, <1>1 DEF SetUserRoles, TypeOK
    <3>4. active' = active BY <2>5 DEF SetUserRoles
    <3>5. OneBaseRole'
      <4>1. tx[q].wanted \cap Base = {} BY <2>5, <1>1 DEF IInv, WantedInv
      <4>2. BaseOf(q) \in Base BY DEF BaseOf, Base
      <4>3. roles'[u] \cap Base = {BaseOf(q)} BY <3>3, <4>1, <4>2
      <4> QED BY <4>2, <4>3, <3>1, <3>2, <1>1 DEF OneBaseRole
    <3>6. ~LastAdmin(q) \/ (u \in Admins => u \in Admins')
      BY <2>5, <3>1, <3>3, <3>4 DEF SetUserRoles, Admins
    <3> QED BY <2>5, <1>1, <3>1, <3>2, <3>4, <3>5, <3>6, ApplyStep DEF SetUserRoles
  <2>6. CASE DisableUser(q)
    <3>1. q \in locked BY <2>6 DEF DisableUser, Holds
    <3>2. OneBaseRole' BY <2>6, <1>1 DEF DisableUser, OneBaseRole
    <3> QED BY <2>6, <1>1, <3>1, <3>2, ApplyStep DEF DisableUser
  <2>7. CASE DeleteRole(q)
    BY <2>7, <1>1, EndStep DEF DeleteRole
  <2>8. CASE Rollback(q)
    BY <2>8, <1>1, EndStep DEF Rollback, dataVars
  <2> QED BY <1>2, <2>1, <2>2, <2>3, <2>4, <2>5, <2>6, <2>7, <2>8 DEF RequestStep
<1>3. ASSUME NEW u \in Users, EnableUser(u) PROVE IInv'
  <2>1. OneBaseRole' BY <1>3, <1>1 DEF EnableUser, OneBaseRole
  <2> QED BY <1>3, <1>1, <2>1, QuietStep DEF EnableUser
<1>4. ASSUME NEW u \in Students, Approve(u) \/ Revoke(u) PROVE IInv'
  <2>1. u \in Users BY RolesAssumption
  <2>2. /\ OneBaseRole'
        /\ \A v \in Users : "super_admin" \in roles'[v] <=> "super_admin" \in roles[v]
    BY <1>1, <1>4, <2>1, EnsureBaseRole DEF Approve, Revoke, Base
  <2> QED BY <1>1, <1>4, <2>2, QuietStep DEF Approve, Revoke
<1>5. ASSUME NEW g \in CustomRoles, CreateRole(g) PROVE IInv'
  <2>1. OneBaseRole' BY <1>5, <1>1 DEF CreateRole, OneBaseRole
  <2> QED BY <1>5, <1>1, <2>1, QuietStep DEF CreateRole
<1>6. ASSUME NEW p \in Processes, LoginStep(p) PROVE IInv'
  <2>1. ASSUME NEW u \in Students, BeginLogin(p, u) \/ Reload(p) PROVE IInv'
    <3>1. OneBaseRole' BY <2>1, <1>1 DEF BeginLogin, Reload, OneBaseRole, dataVars
    <3> QED BY <2>1, <1>1, <3>1, QuietStep DEF BeginLogin, Reload, dataVars
  <2>2. ASSUME NEW u \in Students, NEW base \in Base, EnsureCurrentBaseRoleForUser(p, u, base)
        PROVE  IInv'
    <3>1. /\ OneBaseRole'
          /\ \A v \in Users : "super_admin" \in roles'[v] <=> "super_admin" \in roles[v]
      BY <1>1, <2>2, RolesAssumption, EnsureBaseRole DEF EnsureCurrentBaseRoleForUser
    <3> QED BY <1>1, <2>2, <3>1, QuietStep DEF EnsureCurrentBaseRoleForUser
  <2>3. CASE Reload(p)
    <3>1. OneBaseRole' BY <2>3, <1>1 DEF Reload, OneBaseRole, dataVars
    <3> QED BY <2>3, <1>1, <3>1, QuietStep DEF Reload, dataVars
  <2> QED BY <1>6, <2>1, <2>2, <2>3 DEF LoginStep
<1>7. CASE UNCHANGED vars
  <2>1. OneBaseRole' BY <1>7, <1>1 DEF vars, OneBaseRole
  <2> QED BY <1>7, <1>1, <2>1, QuietStep DEF vars
<1> QED BY <1>2, <1>3, <1>4, <1>5, <1>6, <1>7 DEF Next

-----------------------------------------------------------------------------
LEMMA Invariant == Spec => []IInv
BY InitInv, NextInv, PTL DEF Spec

\* The tables, the requests under way and the caches keep their types.
THEOREM TypeCorrect == Spec => []TypeOK
<1>1. IInv => TypeOK BY DEF IInv
<1> QED BY <1>1, Invariant, PTL

\* SetUserRoles, approvals, revocations and logins, in any interleaving and with
\* any stale view or cache, leave every user with exactly one base role.
THEOREM BaseRoleIsOne == Spec => []OneBaseRole
<1>1. IInv => OneBaseRole BY DEF IInv
<1> QED BY <1>1, Invariant, PTL

\* DisableUser and SetUserRoles lose the last active super administrator only
\* through a read view older than their lock, that is, under REPEATABLE READ.
THEOREM AdminsLostOnlyByOldView == Spec => []LostOnlyByOldView
<1>1. IInv => LostOnlyByOldView BY DEF IInv
<1> QED BY <1>1, Invariant, PTL

\* Under READ COMMITTED lockSuperAdminRole suffices for what DisableUser's
\* comment says: one active super administrator is always preserved.
THEOREM LockSuffices == Spec => [](~snapshotReads => PreservesSuperAdmin)
<1>1. IInv => (~snapshotReads => PreservesSuperAdmin)
  BY DEF IInv, LostOnlyByOldView, PreservesSuperAdmin
<1> QED BY <1>1, Invariant, PTL
=============================================================================
