CONSTANTS
    Chains = {"arbitrum", "sui"}
    MaxTransfers = 0
    DefaultConfirmations <- MCDefaultConfirmations
SPECIFICATION Spec
INVARIANT
    WiredPathwaysDeliver
