--------------------------- MODULE AccessControl ---------------------------
(***************************************************************************)
(* libs/rbac: the grants that AccessControlService keeps and changes while *)
(* the gateway runs, what `can` answers, and the guards in front of a      *)
(* route. Nothing here awaits: a step is one call.                         *)
(***************************************************************************)
EXTENDS Naturals

CONSTANTS
  Roles,         \* names of roles, those of UserRole among them
  GrantObjects,  \* what setGrants may be given: records of roles, grants and extends
  Granted,       \* what grant may add
  MaxChanges

Actions == {"create", "read", "update", "delete"}
Resources == {"user", "product", "category"}
UserRoles == {"user", "seller", "admin", "super_admin"}

Permission == [action : Actions, possession : {"own", "any"}, resource : Resources]

Anyone(actions, resource) == [action : actions, possession : {"any"}, resource : {resource}]
Owner(actions, resource) == [action : actions, possession : {"own"}, resource : {resource}]

VARIABLES
  roles,      \* the roles that have an entry
  grants,     \* per role, its permissions
  extends,    \* per role, the roles it names in $extend
  threw,      \* the last change threw
  changes

vars == <<roles, grants, extends, threw, changes>>

Table == [roles : SUBSET Roles, grants : [Roles -> SUBSET Permission], extends : [Roles -> SUBSET Roles]]

ASSUME AccessAssumption ==
  /\ UserRoles \subseteq Roles
  /\ GrantObjects \subseteq Table
  /\ Granted \subseteq Permission /\ MaxChanges \in Nat

TypeOK ==
  /\ roles \subseteq Roles
  /\ grants \in [Roles -> SUBSET Permission] /\ extends \in [Roles -> SUBSET Roles]
  /\ threw \in BOOLEAN /\ changes \in 0..MaxChanges

\* Mutant: the line of the seller's deletion left out.
DefaultGrantsShort(role) ==
  CASE role \in {"super_admin", "admin"} ->
         UNION {Anyone(Actions, resource) : resource \in Resources}
    [] role = "seller" -> Owner({"create", "update"}, "product")
    [] OTHER -> {}

\* initializeDefaultGrants, for the resources that have routes.
DefaultGrants(role) ==
  CASE role \in {"super_admin", "admin"} ->
         UNION {Anyone(Actions, resource) : resource \in Resources}
    [] role = "seller" ->
         Owner({"read", "update"}, "user") \cup Anyone({"read"}, "category")
           \cup Owner({"create", "update", "delete"}, "product") \cup Anyone({"read"}, "product")
    [] role = "user" ->
         Owner({"read", "update"}, "user") \cup Anyone({"read"}, "product") \cup Anyone({"read"}, "category")
    [] OTHER -> {}

HasDefaults ==
  /\ roles = UserRoles
  /\ grants = [role \in Roles |-> DefaultGrants(role)]
  /\ extends = [role \in Roles |-> {}]

\* A role and all it extends, directly or not.
LineageIn(ext, role) ==
  {r \in Roles : \A closed \in SUBSET Roles :
     role \in closed /\ (\A q \in closed : ext[q] \subseteq closed) => r \in closed}

\* What setGrants accepts: no role extends a missing one or, directly or not, itself.
Valid(present, ext) ==
  \A role \in present :
    ext[role] \subseteq present /\ \A parent \in ext[role] : role \notin LineageIn(ext, parent)

\* The table of the module's options, which stops the start when it is refused, or the
\* default one.
Init ==
  /\ \/ HasDefaults
     \/ \E table \in GrantObjects :
          /\ Valid(table.roles, table.extends)
          /\ roles = table.roles /\ grants = table.grants /\ extends = table.extends
  /\ threw = FALSE /\ changes = 0

-----------------------------------------------------------------------------
(* What the accesscontrol library answers, and `can`.                      *)

Lineage(role) == LineageIn(extends, role)

\* A query for a role throws when a role of its lineage has no entry.
Usable(role) == Lineage(role) \subseteq roles

\* A permission on any is one on one's own.
Allowed(role, action, possession, resource) ==
  \E r \in Lineage(role), held \in {possession, "any"} :
    [action |-> action, possession |-> held, resource |-> resource] \in grants[r]

SuperRole == "super_admin"

\* Mutant: the loop over the roles is inside the try.
CanInOneTry(held, action, resource, isOwn) ==
  \/ SuperRole \in held
  \/ /\ \A role \in held : Usable(role)
     /\ \E role \in held : Allowed(role, action, IF isOwn THEN "own" ELSE "any", resource)

Can(held, action, resource, isOwn) ==
  \/ SuperRole \in held
  \/ \E role \in held :
       Usable(role) /\ Allowed(role, action, IF isOwn THEN "own" ELSE "any", resource)

-----------------------------------------------------------------------------
(* Changes at run time.                                                    *)

Change == changes < MaxChanges /\ changes' = changes + 1

\* Mutant: the role's permissions so far are replaced.
GrantAfresh(role, permission) ==
  /\ Change
  /\ roles' = roles \cup {role}
  /\ grants' = [grants EXCEPT ![role] = {permission}]
  /\ threw' = FALSE /\ UNCHANGED extends

\* A role without an entry gets one.
Grant(role, permission) ==
  /\ Change
  /\ roles' = roles \cup {role}
  /\ grants' = [grants EXCEPT ![role] = @ \cup {permission}]
  /\ threw' = FALSE /\ UNCHANGED extends

\* Mutant: the entry is deleted from a copy, which setGrants takes over or refuses.
RevokeOnCopy(role) ==
  /\ Change /\ role \in roles
  /\ threw' = ~Valid(roles \ {role}, [extends EXCEPT ![role] = {}])
  /\ IF threw' THEN UNCHANGED <<roles, grants, extends>>
     ELSE /\ roles' = roles \ {role}
          /\ grants' = [grants EXCEPT ![role] = {}]
          /\ extends' = [extends EXCEPT ![role] = {}]

\* Mutant: the key is deleted and nothing takes its place.
RevokeKey(role) ==
  /\ Change /\ role \in roles
  /\ roles' = roles \ {role}
  /\ grants' = [q \in roles \ {role} |-> grants[q]]
  /\ threw' = FALSE /\ UNCHANGED extends

\* The entry is deleted from the object in use before setGrants looks at it, which throws
\* when a role is left that extends this one, or one that was revoked before.
Revoke(role) ==
  /\ Change /\ role \in roles
  /\ roles' = roles \ {role}
  /\ grants' = [grants EXCEPT ![role] = {}]
  /\ extends' = [extends EXCEPT ![role] = {}]
  /\ threw' = ~Valid(roles', extends')

\* A table is taken over or refused whole.
SetGrants(table) ==
  /\ Change
  /\ threw' = ~Valid(table.roles, table.extends)
  /\ IF threw' THEN UNCHANGED <<roles, grants, extends>>
     ELSE roles' = table.roles /\ grants' = table.grants /\ extends' = table.extends

Next ==
  \/ \E role \in Roles, permission \in Granted : Grant(role, permission)
  \/ \E role \in Roles : Revoke(role)
  \/ \E table \in GrantObjects : SetGrants(table)
  \/ UNCHANGED vars  \* a question

Spec == Init /\ [][Next]_vars

-----------------------------------------------------------------------------
(* The gateway's own table of routes, and its guards.                      *)

\* Both RolesGuards: any of the required roles, none for a user without roles.
RolesGuard(required, held) == required = {} \/ \E role \in required : role \in held

\* The routes with @Roles, as what they do to what.
Admins == {"admin", "super_admin"}

GatewayRoutes ==
  {[required |-> Admins, needs |-> p] :
     p \in Anyone({"create", "read", "delete"}, "user") \cup Anyone({"create", "update", "delete"}, "category")}
    \cup {[required |-> Admins \cup {"seller"}, needs |-> p] : p \in Owner({"create", "update", "delete"}, "product")}

\* GET and PUT users/:id: whose profile is meant by one who asks for another's.
TargetUser(held) == IF \E role \in held : role \in Admins THEN "other" ELSE "self"

\* RbacPermissionsGuard: a route that names a permission; the owner of what it loaded, if
\* it did, must be the user when its own is meant.
RbacPermissionsGuard(held, needs, foreign) ==
  /\ held # {}
  /\ Can(held, needs.action, needs.resource, needs.possession = "own")
  /\ ~(needs.possession = "own" /\ foreign)

-----------------------------------------------------------------------------
(* Properties.                                                             *)

\* A further role takes nothing away, also one that was revoked, that is unknown or whose
\* lineage is broken: the error is caught for each role
\* (access-control.service.ts:130-145).
MoreRolesNoLess ==
  \A held \in SUBSET Roles, role \in Roles, p \in Permission :
    Can(held, p.action, p.resource, p.possession = "own")
      => Can(held \cup {role}, p.action, p.resource, p.possession = "own")

Permits(role, p) == Can({role}, p.action, p.resource, p.possession = "own")

\* A revocation takes all of a role's permissions from it, those it inherits included, also
\* when setGrants throws, and whatever was revoked before; it gives nothing to anybody, and
\* roles that do not extend the revoked one keep what they had
\* (access-control.service.ts:171-178).
RevocationHolds ==
  [][\A revoked \in Roles : Revoke(revoked) =>
       \A role \in Roles, p \in Permission :
         /\ Permits(role, p)' => Permits(role, p) /\ (role # revoked \/ role = SuperRole)
         /\ revoked \notin Lineage(role) /\ Permits(role, p) => Permits(role, p)']_vars

\* A grant takes nothing from anybody, whatever was revoked before, and what any may do
\* may be done to one's own (access-control.service.ts:161-163).
GrantOnlyAdds ==
  [][\A role \in Roles, permission \in Granted : Grant(role, permission) =>
       \A r \in Roles, p \in Permission : Permits(r, p) =>
         Permits(r, p)' /\ Permits(r, [p EXCEPT !.possession = "own"])']_vars

\* The roles the gateway writes at its routes and its rule for profiles say the same as
\* the default grants, which are kept elsewhere: either guard lets the same sets of roles
\* pass (gateway.controller.ts:86-223, access-control.service.ts:37-108).
TablesAgree ==
  HasDefaults =>
    \A held \in SUBSET UserRoles :
      /\ \A route \in GatewayRoutes :
           RolesGuard(route.required, held) <=> RbacPermissionsGuard(held, route.needs, FALSE)
      /\ \A action \in {"read", "update"} : TargetUser(held) = "other" <=> Can(held, action, "user", FALSE)
=============================================================================
