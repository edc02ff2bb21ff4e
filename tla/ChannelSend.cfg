SPECIFICATION FairSpec
CONSTANTS
    MAX_CELL_BITS = 2
    MaxRequests = 3
    MaxZro = 1
    EmptyCell = EmptyCell
    uln = uln
    Msglibs = {uln}
    NullAddress = NullAddress
    DefaultMsglib = uln
    FeeCaps <- MCFeeCaps
    Quotes <- MCQuotes
INVARIANTS
    NoncesAreGapFree
    OneTrueReceipt
    QueueHoldsTheUnanswered
    ZroIsConserved
PROPERTIES
    EveryRequestIsAnswered
