SPECIFICATION FairSpec
CONSTANTS
    MAX_CELL_BITS = 2
    MaxNonce = 3
    MaxTime = 1
    EmptyCell = EmptyCell
    Messages = {m1}
    uln = uln
    backup = backup
    Connections = {uln, backup}
    NullAddress = NullAddress
    NullConfig = NullConfig
    OAppConfigs <- MCOAppConfigs
    DefaultConfig <- MCDefaultConfig
    OAppOutcomes = {"success"}
INVARIANTS
    CallbackMeansCommitted
PROPERTIES
    ExecutablePacketIsExecuted
