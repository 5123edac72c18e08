------------------------ MODULE AccessControlProofs ------------------------
(* Theorems about AccessControl, for any roles, tables and number of changes. *)
EXTENDS AccessControl, TLAPS

USE AccessAssumption DEF Table, AccessAssumption

-----------------------------------------------------------------------------
(* The type invariant.                                                     *)

\* The default grants are permissions.
LEMMA DefaultGrantsType == \A role \in Roles : DefaultGrants(role) \subseteq Permission
BY SMT DEF DefaultGrants, Permission, Anyone, Owner, Actions, Resources

LEMMA InitType == Init => TypeOK
<1> SUFFICES ASSUME Init PROVE TypeOK
    OBVIOUS
<1>1. roles \subseteq Roles /\ grants \in [Roles -> SUBSET Permission] /\ extends \in [Roles -> SUBSET Roles]
  <2>1. CASE HasDefaults
      BY <2>1, DefaultGrantsType DEF HasDefaults
  <2>2. CASE \E table \in GrantObjects : roles = table.roles /\ grants = table.grants /\ extends = table.extends
      BY <2>2
  <2> QED BY <2>1, <2>2 DEF Init
<1>2. threw = FALSE /\ changes = 0
    BY Zenon DEF Init
<1>3. threw \in BOOLEAN
    BY <1>2, Zenon
<1>4. changes \in 0..MaxChanges
  <2>1. changes = 0 /\ MaxChanges \in Nat
      BY <1>2
  <2> QED BY <2>1
<1> QED BY <1>1, <1>3, <1>4 DEF TypeOK

LEMMA StepType == TypeOK /\ [Next]_vars => TypeOK'
<1> SUFFICES ASSUME TypeOK, [Next]_vars PROVE TypeOK'
    OBVIOUS
<1> USE DEF TypeOK
<1>1. CASE \E role \in Roles, permission \in Granted : Grant(role, permission)
  <2>1. PICK role \in Roles, permission \in Granted : Grant(role, permission)
      BY <1>1
  <2>2. grants' \in [Roles -> SUBSET Permission] /\ roles' \subseteq Roles
      BY <2>1 DEF Grant
  <2>3. changes \in Nat /\ changes < MaxChanges /\ changes' = changes + 1 /\ threw' = FALSE /\ extends' = extends
      BY <2>1 DEF Grant, Change
  <2>4. changes' \in 0..MaxChanges
      BY <2>3
  <2> QED BY <2>2, <2>3, <2>4
<1>2. CASE \E role \in Roles : Revoke(role)
    BY <1>2 DEF Revoke, Change, Valid
<1>3. CASE \E table \in GrantObjects : SetGrants(table)
    BY <1>3 DEF SetGrants, Change, Valid
<1>4. CASE UNCHANGED vars
    BY <1>4 DEF vars
<1> QED BY <1>1, <1>2, <1>3, <1>4 DEF Next

\* The tables of roles, grants and lineages keep their types, whatever setGrants is given
\* (access-control.service.ts:150-177).
THEOREM TypeSafe == Spec => []TypeOK
BY InitType, StepType, PTL DEF Spec

-----------------------------------------------------------------------------
(* A further role takes nothing away.                                      *)

\* In every state, and for any set of roles, what `can` grants it grants with one role
\* more (access-control.service.ts:130-145).
THEOREM RolesAddUp == Spec => []MoreRolesNoLess
<1>1. MoreRolesNoLess
    BY DEF MoreRolesNoLess, Can
<1> QED BY <1>1, PTL

-----------------------------------------------------------------------------
(* Grants.                                                                 *)

LEMMA GrantStep ==
  ASSUME TypeOK, NEW role \in Roles, NEW permission \in Granted, Grant(role, permission),
         NEW r \in Roles, NEW p \in Permission, Permits(r, p)
  PROVE  Permits(r, p)' /\ Permits(r, [p EXCEPT !.possession = "own"])'
<1>1. Lineage(r)' = Lineage(r)
    BY DEF Grant, Lineage, LineageIn
<1>2. roles \subseteq roles' /\ (\A q \in Roles : grants[q] \subseteq grants'[q])
    BY DEF Grant, TypeOK
<1>3. Lineage(r) \subseteq Roles
    BY DEF Lineage, LineageIn
<1>4. [p EXCEPT !.possession = "own"].action = p.action /\ [p EXCEPT !.possession = "own"].resource = p.resource
        /\ [p EXCEPT !.possession = "own"].possession = "own"
    BY DEF Permission
<1>5. CASE r = SuperRole
    BY <1>5 DEF Permits, Can
<1>6. CASE r # SuperRole
  <2>1. Usable(r) /\ Allowed(r, p.action, p.possession, p.resource)
      BY <1>6 DEF Permits, Can, Permission
  <2>2. Usable(r)'
      BY <2>1, <1>1, <1>2 DEF Usable
  <2>3. PICK q \in Lineage(r), held \in {p.possession, "any"} :
          [action |-> p.action, possession |-> held, resource |-> p.resource] \in grants[q]
      BY <2>1 DEF Allowed
  <2>4. [action |-> p.action, possession |-> held, resource |-> p.resource] \in grants'[q]
      BY <2>3, <1>2, <1>3
  <2>5. held \in {"own", "any"}
      BY <2>3 DEF Permission
  <2>6. Allowed(r, p.action, p.possession, p.resource)' /\ Allowed(r, p.action, "own", p.resource)'
      BY <2>3, <2>4, <2>5, <1>1 DEF Allowed
  <2> QED BY <2>2, <2>6, <1>4 DEF Permits, Can, Permission
<1> QED BY <1>5, <1>6

\* No grant takes a permission from anybody, and what any may do may be done to one's own
\* (access-control.service.ts:161-163).
THEOREM GrantsOnlyAdd == Spec => GrantOnlyAdds
<1>1. TypeOK /\ [Next]_vars =>
        [\A role \in Roles, permission \in Granted : Grant(role, permission) =>
           \A r \in Roles, p \in Permission : Permits(r, p) =>
             Permits(r, p)' /\ Permits(r, [p EXCEPT !.possession = "own"])']_vars
    BY GrantStep
<1> QED BY <1>1, TypeSafe, PTL DEF Spec, GrantOnlyAdds

-----------------------------------------------------------------------------
(* Revocations.                                                            *)

LEMMA LineageClosed ==
  ASSUME TypeOK, NEW role \in Roles
  PROVE  /\ role \in Lineage(role) /\ Lineage(role) \subseteq Roles
         /\ \A q \in Lineage(role) : extends[q] \subseteq Lineage(role)
<1>1. \A q \in Lineage(role) : extends[q] \subseteq Lineage(role)
  <2> SUFFICES ASSUME NEW q \in Lineage(role), NEW r \in extends[q] PROVE r \in Lineage(role)
      OBVIOUS
  <2>1. q \in Roles /\ r \in Roles
      BY DEF Lineage, LineageIn, TypeOK
  <2>2. ASSUME NEW closed \in SUBSET Roles, role \in closed, \A s \in closed : extends[s] \subseteq closed
        PROVE  r \in closed
    <3>1. q \in closed
        BY <2>2 DEF Lineage, LineageIn
    <3> QED BY <3>1, <2>2
  <2> QED BY <2>1, <2>2 DEF Lineage, LineageIn
<1> QED BY <1>1 DEF Lineage, LineageIn

LEMMA LineageLeast ==
  ASSUME NEW role \in Roles, NEW closed \in SUBSET Roles, role \in closed,
         \A q \in closed : extends[q] \subseteq closed
  PROVE  Lineage(role) \subseteq closed
BY DEF Lineage, LineageIn

\* Lineages after a revocation.
LEMMA RevokedLineage ==
  ASSUME TypeOK, TypeOK', NEW revoked \in Roles, Revoke(revoked), NEW role \in Roles
  PROVE  /\ revoked \in Lineage(role) => revoked \in Lineage(role)'
         /\ revoked \notin Lineage(role) => Lineage(role)' = Lineage(role)
<1>1. \A q \in Roles : q # revoked => extends'[q] = extends[q]
    BY DEF Revoke, TypeOK
<1>2. extends'[revoked] = {}
    BY DEF Revoke, TypeOK
<1>3. /\ role \in Lineage(role)' /\ Lineage(role)' \subseteq Roles
      /\ \A q \in Lineage(role)' : extends'[q] \subseteq Lineage(role)'
  <2> DEFINE L == {r \in Roles : \A closed \in SUBSET Roles :
                role \in closed /\ (\A q \in closed : extends'[q] \subseteq closed) => r \in closed}
  <2>1. L = Lineage(role)'
      BY DEF Lineage, LineageIn
  <2>2. ASSUME NEW q \in L, NEW r \in extends'[q] PROVE r \in L
    <3>1. r \in Roles
        BY DEF TypeOK
    <3>2. ASSUME NEW closed \in SUBSET Roles, role \in closed, \A s \in closed : extends'[s] \subseteq closed
          PROVE  r \in closed
      <4>1. q \in closed
          BY <3>2
      <4> QED BY <4>1, <3>2
    <3> QED BY <3>1, <3>2
  <2> HIDE DEF L
  <2>3. role \in L /\ L \subseteq Roles
      BY DEF L
  <2> QED BY <2>1, <2>2, <2>3
<1>4. ASSUME revoked \notin Lineage(role)' PROVE Lineage(role) \subseteq Lineage(role)'
  <2>1. \A q \in Lineage(role)' : extends[q] \subseteq Lineage(role)'
      BY <1>1, <1>3, <1>4
  <2> QED BY <2>1, <1>3, LineageLeast
<1>5. ASSUME revoked \notin Lineage(role) PROVE Lineage(role)' \subseteq Lineage(role)
  <2>1. \A q \in Lineage(role) : extends'[q] \subseteq Lineage(role)
      BY <1>1, <1>5, LineageClosed
  <2>2. role \in Lineage(role) /\ Lineage(role) \in SUBSET Roles
      BY LineageClosed
  <2> QED BY <2>1, <2>2 DEF Lineage, LineageIn
<1> QED BY <1>4, <1>5

LEMMA RevokeStep ==
  ASSUME TypeOK, TypeOK', NEW revoked \in Roles, Revoke(revoked), NEW role \in Roles, NEW p \in Permission
  PROVE  /\ Permits(role, p)' => Permits(role, p) /\ (role # revoked \/ role = SuperRole)
         /\ revoked \notin Lineage(role) /\ Permits(role, p) => Permits(role, p)'
<1>1. CASE role = SuperRole
    BY <1>1 DEF Permits, Can
<1>2. CASE role # SuperRole /\ revoked \in Lineage(role)
  <2>1. revoked \in Lineage(role)' /\ revoked \notin roles'
      BY <1>2, RevokedLineage DEF Revoke
  <2>2. ~Usable(role)'
      BY <2>1 DEF Usable
  <2> QED BY <1>2, <2>2 DEF Permits, Can
<1>3. CASE role # SuperRole /\ revoked \notin Lineage(role)
  <2>1. Lineage(role)' = Lineage(role)
      BY <1>3, RevokedLineage
  <2>2. \A q \in Lineage(role) : grants'[q] = grants[q] /\ (q \in roles' <=> q \in roles)
      BY <1>3, LineageClosed DEF Revoke, TypeOK
  <2>3. Usable(role)' <=> Usable(role)
      BY <2>1, <2>2 DEF Usable
  <2>4. Allowed(role, p.action, p.possession, p.resource)' <=> Allowed(role, p.action, p.possession, p.resource)
      BY <2>1, <2>2 DEF Allowed
  <2>5. role # revoked
      BY <1>3, LineageClosed
  <2> QED BY <1>3, <2>3, <2>4, <2>5 DEF Permits, Can, Permission
<1> QED BY <1>1, <1>2, <1>3

\* A revocation that throws takes effect too: the role has nothing left, nobody gained
\* anything, and roles that do not extend it are as they were
\* (access-control.service.ts:171-178).
THEOREM RevocationsHold == Spec => RevocationHolds
<1>1. TypeOK /\ TypeOK' /\ [Next]_vars =>
        [\A revoked \in Roles : Revoke(revoked) =>
           \A role \in Roles, p \in Permission :
             /\ Permits(role, p)' => Permits(role, p) /\ (role # revoked \/ role = SuperRole)
             /\ revoked \notin Lineage(role) /\ Permits(role, p) => Permits(role, p)']_vars
    BY RevokeStep
<1> QED BY <1>1, TypeSafe, PTL DEF Spec, RevocationHolds

-----------------------------------------------------------------------------
(* The two tables.                                                         *)

\* With the default table a role has what its own grants say.
LEMMA DefaultAllows ==
  ASSUME HasDefaults, NEW role \in UserRoles, NEW action, NEW possession, NEW resource
  PROVE  Usable(role) /\ (Allowed(role, action, possession, resource)
           <=> \E held \in {possession, "any"} :
                 [action |-> action, possession |-> held, resource |-> resource] \in DefaultGrants(role))
<1>1. role \in Roles /\ \A q \in Roles : extends[q] = {}
    BY DEF HasDefaults
<1>2. Lineage(role) = {role}
  <2>1. {role} \in SUBSET Roles /\ \A q \in {role} : extends[q] \subseteq {role}
      BY <1>1
  <2>2. Lineage(role) \subseteq {role}
      BY <1>1, <2>1, LineageLeast
  <2>3. role \in Lineage(role)
      BY <1>1 DEF Lineage, LineageIn
  <2> QED BY <2>2, <2>3
<1> QED BY <1>1, <1>2 DEF Usable, Allowed, HasDefaults

\* What a default grant lets a role do to any, and to its own.
MayDo(role, action, possession, resource) ==
  role = SuperRole \/ \E held \in {possession, "any"} :
    [action |-> action, possession |-> held, resource |-> resource] \in DefaultGrants(role)

LEMMA CanByDefault ==
  ASSUME HasDefaults, NEW held \in SUBSET UserRoles, NEW action, NEW resource
  PROVE  /\ \A possession \in {"own", "any"} :
              Can(held, action, resource, possession = "own")
                <=> \E role \in held : MayDo(role, action, possession, resource)
         /\ Can(held, action, resource, FALSE) <=> \E role \in held : MayDo(role, action, "any", resource)
BY DefaultAllows DEF Can, MayDo

\* The routes of administrators, and those of products.
LEMMA AdminsMay ==
  ASSUME NEW role \in UserRoles,
         NEW p \in Anyone({"create", "read", "delete"}, "user") \cup Anyone({"create", "update", "delete"}, "category")
  PROVE  MayDo(role, p.action, p.possession, p.resource) <=> role \in Admins
<1>1. p.possession = "any" /\ p = [action |-> p.action, possession |-> "any", resource |-> p.resource]
    BY DEF Anyone
<1>2. p.action \in Actions /\ p.resource \in Resources
    BY DEF Anyone, Actions, Resources
<1>3. role \in Admins => MayDo(role, p.action, p.possession, p.resource)
    BY <1>1, <1>2 DEF MayDo, DefaultGrants, Anyone, Admins
<1>4. role \notin Admins => p \notin DefaultGrants(role)
    BY DEF DefaultGrants, Anyone, Owner, Admins, UserRoles
<1> QED BY <1>1, <1>3, <1>4 DEF MayDo, SuperRole, Admins

LEMMA SellersMay ==
  ASSUME NEW role \in UserRoles, NEW p \in Owner({"create", "update", "delete"}, "product")
  PROVE  MayDo(role, p.action, p.possession, p.resource) <=> role \in Admins \cup {"seller"}
<1>1. p.possession = "own" /\ p = [action |-> p.action, possession |-> "own", resource |-> p.resource]
    BY DEF Owner
<1>2. p.action \in {"create", "update", "delete"} /\ p.resource = "product"
    BY DEF Owner
<1> DEFINE anyone == [action |-> p.action, possession |-> "any", resource |-> p.resource]
<1>3. role \in Admins => anyone \in DefaultGrants(role)
    BY <1>2 DEF DefaultGrants, Anyone, Admins, Actions, Resources
<1>4. role = "seller" => p \in DefaultGrants(role)
    BY DEF DefaultGrants, Owner
<1>5. role = "user" => p \notin DefaultGrants(role) /\ anyone \notin DefaultGrants(role)
    BY <1>1, <1>2 DEF DefaultGrants, Anyone, Owner
<1> QED BY <1>1, <1>3, <1>4, <1>5 DEF MayDo, SuperRole, Admins, UserRoles

\* Whose profile may be read or changed.
LEMMA ProfilesMay ==
  ASSUME NEW role \in UserRoles, NEW action \in {"read", "update"}
  PROVE  MayDo(role, action, "any", "user") <=> role \in Admins
<1> DEFINE p == [action |-> action, possession |-> "any", resource |-> "user"]
<1>1. role \in Admins => p \in DefaultGrants(role)
    BY DEF DefaultGrants, Anyone, Admins, Actions, Resources
<1>2. role \notin Admins => p \notin DefaultGrants(role)
    BY DEF DefaultGrants, Anyone, Owner, Admins, UserRoles
<1> QED BY <1>1, <1>2 DEF MayDo, SuperRole, Admins

LEMMA TablesAgreeByDefault ==
  ASSUME HasDefaults, NEW held \in SUBSET UserRoles
  PROVE  /\ \A route \in GatewayRoutes :
              RolesGuard(route.required, held) <=> RbacPermissionsGuard(held, route.needs, FALSE)
         /\ \A action \in {"read", "update"} : TargetUser(held) = "other" <=> Can(held, action, "user", FALSE)
<1>1. ASSUME NEW route \in GatewayRoutes
      PROVE  RolesGuard(route.required, held) <=> RbacPermissionsGuard(held, route.needs, FALSE)
  <2> DEFINE p == route.needs
  <2>1. /\ route.required # {} /\ p.possession \in {"own", "any"}
        /\ \A role \in UserRoles : MayDo(role, p.action, p.possession, p.resource) <=> role \in route.required
    <3>1. CASE route.required = Admins
               /\ p \in Anyone({"create", "read", "delete"}, "user") \cup Anyone({"create", "update", "delete"}, "category")
      <4>1. p.possession \in {"own", "any"}
          BY <3>1 DEF Anyone
      <4> QED BY <3>1, <4>1, AdminsMay DEF Admins
    <3>2. CASE route.required = Admins \cup {"seller"} /\ p \in Owner({"create", "update", "delete"}, "product")
      <4>1. p.possession \in {"own", "any"}
          BY <3>2 DEF Owner
      <4> QED BY <3>2, <4>1, SellersMay DEF Admins
    <3> QED BY <3>1, <3>2 DEF GatewayRoutes
  <2>2. Can(held, p.action, p.resource, p.possession = "own")
          <=> \E role \in held : MayDo(role, p.action, p.possession, p.resource)
    <3>1. p.possession \in {"own", "any"}
        BY <2>1
    <3>2. \A possession \in {"own", "any"} :
            Can(held, p.action, p.resource, possession = "own")
              <=> \E role \in held : MayDo(role, p.action, possession, p.resource)
        BY CanByDefault
    <3> HIDE DEF p
    <3> QED BY <3>1, <3>2, Zenon
  <2> HIDE DEF p
  <2>3. RbacPermissionsGuard(held, p, FALSE) <=> \E role \in held : role \in route.required
      BY <2>1, <2>2 DEF RbacPermissionsGuard
  <2> QED BY <2>1, <2>3 DEF RolesGuard, p
<1>2. ASSUME NEW action \in {"read", "update"}
      PROVE  TargetUser(held) = "other" <=> Can(held, action, "user", FALSE)
  <2>1. Can(held, action, "user", FALSE) <=> \E role \in held : MayDo(role, action, "any", "user")
      BY CanByDefault
  <2> QED BY <2>1, ProfilesMay DEF TargetUser
<1> QED BY <1>1, <1>2

\* The role lists of the gateway's routes and the default grants of the library say the
\* same of every set of roles (gateway.controller.ts:86-223, access-control.service.ts:37-108).
THEOREM TablesSayTheSame == Spec => []TablesAgree
<1>1. TablesAgree
    BY TablesAgreeByDefault DEF TablesAgree
<1> QED BY <1>1, PTL
=============================================================================
