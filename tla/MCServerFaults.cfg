CONSTANTS
    boss = boss
    s1 = s1
    s2 = s2
    q1 = q1
    q2 = q2
    r1 = r1
    r2 = r2
    NoOne = NoOne
    NoHash = NoHash
    Account <- MCAccount
    Deployer = boss
    Req <- MCOneReq
    InitialTax = 10
    SellerIndex <- MCSellers
    Buyer <- MCNoBuyer
    Handler <- MCTwoHandlers
    Text <- MCTexts
    Blank = ""
    TrimOf <- MCTrim
    Rest <- MCRest
    Absent = Absent
    Sent <- MCMixed
    Price <- MCPrice
    Faulty = TRUE
    Crashing = TRUE
SPECIFICATION Spec
SYMMETRY MCHandlerSymmetry
INVARIANTS StatusIsOnChain RatedOncePerTask
PROPERTIES VerdictFollowsHash ServesMarket
CHECK_DEADLOCK FALSE
