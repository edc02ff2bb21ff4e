SPECIFICATION FairSpec
CONSTANTS
    MAX_CELL_BITS = 2
    MaxNonce = 3
    EmptyCell = EmptyCell
    honest = honest
    rogue = rogue
    DVNs = {honest}
    HonestDVNs = {honest}
    Packets = {final}
    FinalPacket = final
    MaxConfirmations = 0
    Finality = 0
    Null = Null
    OAppConfigs <- MCSingleConfigs
    DefaultConfigs <- MCNoConfigs
    MAX_HASH_LOOKUPS = 1
    MaxFromUln = 1
    MaxFromChannel = 2
    MaxInFlight = 2
    MayLosePackets = FALSE
INVARIANTS
    LookupsNeverFarAhead
    ViewNeverAhead
    SyncAlwaysFits
PROPERTIES
    FrontiersNeverGoBack
    PendingAttestationsKept
    EveryPacketIsCommitted
