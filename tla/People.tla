-------------------------------- MODULE People --------------------------------
(***************************************************************************)
(* The accounts of one organisation, with the operator of the platform, and *)
(* what their roles let them do.                                            *)
(***************************************************************************)

CONSTANTS Accounts,
          RoleOf    \* the role of an account

Roles == {"SUPER_ADMIN", "ADMIN", "WORKER", "EXTERNAL"}
With(role) == {u \in Accounts : RoleOf[u] = role}

ASSUME PeopleAssumption == RoleOf \in [Accounts -> Roles]

Worker(u)   == RoleOf[u] = "WORKER"
External(u) == RoleOf[u] = "EXTERNAL"
Manager(u)  == RoleOf[u] \in {"ADMIN", "SUPER_ADMIN"}
=============================================================================
