-------------------------- MODULE MCAccessControl --------------------------
(* An instance of AccessControl for TLC. *)
EXTENDS AccessControl

\* The roles of UserRole and one more, which no user need know.
MCRoles == UserRoles \cup {"manager"}

MCGranted ==
  {[action |-> "read", possession |-> "own", resource |-> "product"],
   [action |-> "read", possession |-> "any", resource |-> "user"]}

table(present, heirs, permissions) ==
  [roles |-> present,
   grants |-> [role \in MCRoles |-> IF role \in present THEN permissions ELSE {}],
   extends |-> [role \in MCRoles |-> IF role \in DOMAIN heirs THEN heirs[role] ELSE {}]]

\* A chain of three roles, two heirs of one, and two tables that are refused: a role that
\* extends a missing one, and a circle of three.
MCGrantObjects ==
  {table({"user", "seller", "manager"}, [manager |-> {"seller"}, seller |-> {"user"}], Owner({"read"}, "user")),
   table({"user", "seller", "admin", "super_admin"}, [seller |-> {"user"}, admin |-> {"user"}],
         Anyone({"update"}, "product")),
   table({"user", "manager"}, [manager |-> {"seller"}], {}),
   table({"user", "seller", "manager"}, [manager |-> {"seller"}, seller |-> {"user"}, user |-> {"manager"}],
         Anyone({"read"}, "user"))}
=============================================================================
