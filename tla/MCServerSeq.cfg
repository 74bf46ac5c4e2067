CONSTANTS
    boss = boss
    s1 = s1
    s2 = s2
    q1 = q1
    q2 = q2
    r1 = r1
    r2 = r2
    NoOne = NoOne
    NoHash = NoHash
    Account <- MCAccount
    Deployer = boss
    Req <- MCOneReq
    InitialTax = 10
    SellerIndex <- MCSellers
    Buyer <- MCSellerBuys
    Handler <- MCOneHandler
    Text <- MCTexts
    Blank = ""
    TrimOf <- MCTrim
    Rest <- MCRest
    Absent = Absent
    Sent <- MCBodies
    Price <- MCPrices
    Faulty = TRUE
    Crashing = TRUE
SPECIFICATION Spec
INVARIANTS TypeOK PriceIsEscrowed NoRightsLent
PROPERTIES ServesInOrder
CHECK_DEADLOCK FALSE
