SPECIFICATION Spec
CONSTANTS
    MAX_CELL_BITS = 2
    MaxNonce = 1
    EmptyCell = EmptyCell
    honest = honest
    rogue = rogue
    DVNs = {honest, rogue}
    HonestDVNs = {honest}
    Packets = {final, orphan}
    FinalPacket = final
    MaxConfirmations = 1
    Finality = 1
    Null = Null
    OAppConfigs <- MCOAppConfigs
    DefaultConfigs <- MCDefaultConfigs
    MAX_HASH_LOOKUPS = 2
    MaxFromUln = 2
    MaxFromChannel = 2
    MaxInFlight = 3
    MayLosePackets = TRUE
INVARIANTS
    OnlyFinalPacketsForwarded
PROPERTIES
    PendingAttestationsKept
