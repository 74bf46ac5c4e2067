CONSTANTS
    boss = boss
    s1 = s1
    s2 = s2
    q1 = q1
    q2 = q2
    r1 = r1
    r2 = r2
    NoOne = NoOne
    NoHash = NoHash
    Account <- MCAccount
    Deployer = boss
    Req <- MCOneReq
    InitialTax = 10
    SellerIndex <- MCSellers
    Buyer <- MCNoBuyer
    Handler <- MCTwoHandlers
    Text <- MCTexts
    Blank = ""
    TrimOf <- MCTrim
    Rest <- MCRest
    Absent = Absent
    Sent <- MCParts
    Price <- MCPrice
    Faulty = FALSE
    Crashing = FALSE
SPECIFICATION Spec
PROPERTIES NotReassigned
CHECK_DEADLOCK FALSE
