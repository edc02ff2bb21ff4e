SPECIFICATION FairSpec
CONSTANTS
    Chains = {"solana", "sui"}
    SolanaChains = {"solana"}
    Rates <- MCRates
    Unit = 6
    Supply = 2
    Amounts = {3, 4}
    Fees <- MCFees
    Pausable = {"sui"}
    TokenFees <- MCTokenFees
    RateLimits <- MCRateLimits
    WindowUnit = 4
    NoLimiter = NoLimiter
    MaxAge = 7
    MaxInFlight = 2
INVARIANTS
    SupplyIsConserved
    EscrowCoversTvl
    DebitWithinAmount
PROPERTIES
    LimitsAreKept
    SomethingArrives
