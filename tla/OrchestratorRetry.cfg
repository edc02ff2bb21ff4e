SPECIFICATION FairSpec
CONSTANTS
    Chains = {"arbitrum", "sui"}
    MaxContracts <- MCOnce
    DryRuns = FALSE
    Selections <- MCAll
    MaxOrphans = 0
PROPERTY
    RetryCompletes
