CONSTANTS
    boss = boss
    s1 = s1
    s2 = s2
    q1 = q1
    q2 = q2
    h1 = h1
    h2 = h2
    NoOne = NoOne
    NoHash = NoHash
    Account <- MCAccount
    Deployer = boss
    RoleChange <- MCRoleChange
    InitialTax = 8
    Donation <- MCNoDonation
    MaxPool = 20
    Req <- MCTwoReq
    Hash <- MCHash
    Submission <- MCHash
    Payment <- MCOnePayment
    JobCost <- MCJobCost
SPECIFICATION Spec
INVARIANTS RetryEvaluatedAtOnce
PROPERTIES ImplementsEscrow DrawsSpendAuthorisations
CHECK_DEADLOCK FALSE
