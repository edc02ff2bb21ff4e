SPECIFICATION Spec
CONSTANTS
    MAX_CELL_BITS = 2
    MaxNonce = 3
    MaxTime = 0
    EmptyCell = EmptyCell
    Messages = {m1, m2}
    uln = uln
    backup = backup
    Connections = {uln}
    NullAddress = NullAddress
    NullConfig = NullConfig
    OAppConfigs <- MCNoConfigs
    DefaultConfig <- MCDefaultConfig
    OAppOutcomes = {"success", "failure", "throw"}
INVARIANTS
    ExecutedOnlyInCommittedPrefix
    CommitBitmapNeverOverrun
    CommittableTestsAgree
    DeliveredAtMostOnce
    ExecuteMatchesQueue
PROPERTIES
    PacketNeverEvicted
    ImplementsInboundNonces
    ImplementsChannelFrontiers
