SPECIFICATION Spec
CHECK_DEADLOCK FALSE
CONSTANTS
    Null = Null
    u1 = u1
    u2 = u2
    u3 = u3
    u4 = u4
    Users = {u1, u2, u3, u4}
    WildLen = 2
    Texts <- MCTexts
    Proxies <- MCProxies
    Names <- MCNames
    Values <- MCValues
    Bodies <- MCBodies
    Reserve = 3
    MaxTerms <- MCMaxTerms
INVARIANTS
    PortAsTested
