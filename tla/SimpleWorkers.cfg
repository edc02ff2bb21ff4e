SPECIFICATION FairSpec
CONSTANTS
    plain = plain
    special = special
    stripped = stripped
    o1 = o1
    Messages <- MCMessages
    Plain <- MCPlain
    Drops <- MCDrops
    Undecodable = {stripped}
    Dusty = {special}
    NoMessage = NoMessage
    Operators = {o1}
    MaxNonce = 2
INVARIANTS
    DeliveredAsSent
    SuccessMeansDelivered

    
