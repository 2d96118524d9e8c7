\* One user, three calls, inserts of it one at a time.
SPECIFICATION LiveSpec
CONSTANTS
    c1 = c1
    role1 = role1
    role2 = role2
    role9 = role9
    Requests = {r1, r2, r3}
    Codes = {c1}
    Roles = {role1, role2}
    RoleLists <- MCRoleLists
    SeedRoles <- MCSeedRoles
    InsertsInFlight = 1
\* Once all calls are answered nothing is left to do.
CHECK_DEADLOCK FALSE
INVARIANTS
    TypeOK
    UniqueCodes
    RolesOfOneWriter
PROPERTIES
    DeletedForGood
    EveryCallAnswered
