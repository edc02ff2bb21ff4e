CONSTANTS
    Chains = {"arbitrum", "solana"}
    MaxTransfers = 2
    DefaultConfirmations <- MCDefaultConfirmations
SPECIFICATION FairSpec
INVARIANTS
    CompleteMeansWired
    SetInOrder
    OutboundCompleteMeansDelivered
PROPERTIES
    VerifiableStaysVerifiable
    EveryPathwayIsWired
    SentTransfersArrive
