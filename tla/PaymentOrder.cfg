\* Two callbacks at a time; two recharges of a tenant, a subscription; a recharge by hand.
SPECIFICATION Spec
CONSTANTS
    o1 = o1
    o2 = o2
    o3 = o3
    tenant = tenant
    person = person
    NoOrder = NoOrder
    Orders = {o1, o2, o3}
    Recharges = {o1, o2}
    t1 = t1
    TopUps = {t1}
    Accounts <- MCAccounts
    Personal <- MCPersonal
    AccountOf <- MCAccountOf
    Amount <- MCAmount
    InitialBalance <- MCInitialBalance
    Handlers = {h1, h2}
    FailedNotices = FALSE
CHECK_DEADLOCK FALSE
SYMMETRY MCSymmetry
INVARIANTS
    RepeatRefused
    
    NoMoneyInvented
    
