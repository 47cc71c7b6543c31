\* Three concurrent requests and an administrator.
SPECIFICATION KeySpec
CONSTANTS
    openai = openai
    claude = claude
    r1 = r1
    r2 = r2
    r3 = r3
    Served <- MCRequests
    Providers <- MCProviders
    ProviderOf <- MCProviderOf
    TotalTokens <- MCTotalTokens
    Admins = {a1}
CHECK_DEADLOCK FALSE
INVARIANTS
    TotalExact
    
