CONSTANTS
    a1 = a1
    a2 = a2
    NoOne = NoOne
    Account <- MCAccount
    Deployer = a1
    RoleChange <- MCRoleChange
    ScoreMax = 3
    Delta <- MCDelta
    Score <- MCScore
SPECIFICATION RepSpec
INVARIANTS RepTypeOK
PROPERTIES WithoutAdminAuthorisationsRunOut FrozenWithoutAdmin OwnershipMovesAdmin
CHECK_DEADLOCK FALSE
