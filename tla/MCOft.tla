-------------------------------- MODULE MCOft -------------------------------
EXTENDS Oft

MCRates == [chain \in Chains |-> IF chain = "solana" THEN 2 ELSE 3]
MCTokenFees == {NoTokenFee} \cup [bps : {2500, 5000}, maximum : {1}]
MCFees == [path \in Pathways |-> IF path[1] = "solana" THEN {0, 5000} ELSE {0, 4000}]
MCRateLimits == [k \in Limiters |->
    IF k = <<"outbound", <<"solana", "sui">>>>
    THEN {[capacity |-> 4, refillPerSecond |-> 2], [capacity |-> None, refillPerSecond |-> 1]}
    ELSE IF k = <<"inbound", <<"sui", "solana">>>>
    THEN {[limit |-> 5, windowSeconds |-> 2], [limit |-> 3, windowSeconds |-> 4]}
    ELSE {}]
=============================================================================
