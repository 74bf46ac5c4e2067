CONSTANTS
    boss = boss
    s1 = s1
    s2 = s2
    q1 = q1
    q2 = q2
    h1 = h1
    h2 = h2
    NoOne = NoOne
    NoHash = NoHash
    Account <- MCAccount
    Deployer = boss
    RoleChange <- MCRoleChurn
    InitialTax = 5
    Donation <- MCDonation
    MaxPool = 20
    Req <- MCOneReq
    Hash <- MCHash
    Submission <- MCAnyHash
    Payment <- MCPayment
    JobCost <- MCJobCost
SPECIFICATION Spec
INVARIANTS TypeOK Inv EscrowBacked PaidForAcceptedResult RetryStartsClean
PROPERTIES AuditIsFinal ImplementsEscrow
CHECK_DEADLOCK FALSE
