\* A delete races an update of a user without roles.
SPECIFICATION Spec
CONSTANTS
    c1 = c1
    role1 = role1
    role2 = role2
    role9 = role9
    Requests = {r1, r2, r3}
    Codes = {c1}
    Roles = {role1, role2}
    RoleLists <- MCRoleLists
    SeedRoles <- MCSeedNoRoles
    InsertsInFlight = 1
CHECK_DEADLOCK FALSE
INVARIANT NoOrphanRoles
