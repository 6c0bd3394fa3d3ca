CONSTANTS
    static = static
    StaticTokens <- OneStaticToken
    MaxIssuedTokens = 2
    TokenTtl = 1
    MaxMinted = 3
    MaxClock = 3
    MaxRestarts = 1
SPECIFICATION Spec
INVARIANTS
    TypeOK
    StoreBounded
    RefusedForGood
    AcceptedUnexpired
PROPERTIES
    NothingLostEarly
