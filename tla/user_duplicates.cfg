\* Two inserts of one code at once.
SPECIFICATION Spec
CONSTANTS
    c1 = c1
    role1 = role1
    role2 = role2
    role9 = role9
    Requests = {r1, r2, r3}
    Codes = {c1}
    Roles = {role1, role2}
    RoleLists <- MCRoleLists
    SeedRoles <- MCNoUsers
    InsertsInFlight = 2
CHECK_DEADLOCK FALSE
INVARIANT UniqueCodes
