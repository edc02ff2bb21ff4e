SPECIFICATION Spec
CONSTANTS
    Chains = {"starknet", "sui", "ton"}
    MaxContracts <- MCTwice
    DryRuns = TRUE
    Selections <- MCSome
    MaxOrphans = 1
VIEW MCView
INVARIANTS
    CompleteIsDeployed
PROPERTIES
    SettledStaysSettled
