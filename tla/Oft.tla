-------------------------------- MODULE Oft ---------------------------------
(* The token of programs/oft (Solana) and sui/oft (Sui): what `send` takes   *)
(* from its sender, what `lz_receive` gives to its receiver, the escrow of   *)
(* an adapter, fees, dust, rate limits and pauses, on chains with different  *)
(* decimals. One action is one transaction: it happens as a whole or, when   *)
(* one of its checks fails, not at all. The chains have each other as peers. *)
(* The endpoints between them are external: a packet is executed once, at    *)
(* any time and in any order, and a receive that aborts can be repeated.     *)
EXTENDS RateLimiters, FiniteSetsExt

CONSTANTS
    Chains,
    SolanaChains,      \* the chains with the Solana program; the others have Sui's
    Rates,             \* [Chains -> Nat]: local units in a shared one
    Unit,              \* a common multiple of Rates
    Supply,            \* of the token, in shared units
    Amounts,           \* bound: what is sent in one transaction, in local units
    Fees,              \* bound: fees of the OFT on each pathway, in basis points
    Pausable,          \* bound: the chains whose admin pauses the OFT
    TokenFees,         \* transfer fees of the token behind Solana's adapter
    RateLimits,        \* bound: the limits that an admin sets for each limiter
    WindowUnit,        \* a common multiple of the windows of Sui's limits
    NoLimiter,
    MaxInFlight        \* bound: packets on their way

Pathways   == {p \in Chains \X Chains : p[1] # p[2]}
Directions == {"outbound", "inbound"}
Packets    == [path : Pathways, amountSD : 0 .. Supply]
Limiters   == Directions \X Pathways

NoTokenFee == [bps |-> 0, maximum |-> 0]

ASSUME OftAssumption ==
    /\ SolanaChains \subseteq Chains
    /\ Rates \in [Chains -> Nat \ {0}]
    /\ Supply \in Nat
    /\ Amounts \subseteq Nat
    /\ Fees \in [Pathways -> SUBSET (0 .. 10000)]
    /\ NoTokenFee \in TokenFees
    /\ TokenFees \subseteq [bps : 0 .. 10000, maximum : Nat]
    /\ MaxInFlight \in Nat

\* The units that all local units are counted in.
ASSUME UnitAssumption ==
    /\ IsFiniteSet(Chains)
    /\ Unit \in Nat \ {0}
    /\ \A chain \in Chains : Unit % Rates[chain] = 0

WindowLengths == {seconds \in 1 .. WindowUnit : WindowUnit % seconds = 0}
Buckets == [capacity : Nat, tokens : Nat, refillPerSecond : Nat, age : 0 .. MaxAge]
Windows == [limit : Nat, windowSeconds : WindowLengths, inFlightOnLastUpdate : Nat, age : 0 .. MaxAge]

\* Solana sets each of the two or leaves it (None); Sui sets both.
ASSUME LimitsAssumption ==
    /\ NoLimiter \notin Buckets \cup Windows
    /\ WindowUnit \in Nat \ {0}
    /\ \A k \in Limiters : \A params \in RateLimits[k] :
           IF k[2][1] \in SolanaChains
           THEN params \in [capacity : Nat \cup {None}, refillPerSecond : Nat \cup {None}]
           ELSE params \in [limit : Nat, windowSeconds : WindowLengths]

VARIABLES
    adapters,    \* the chains with an adapter: oft_type, treasury
    users,       \* what all accounts but the escrow and the program's hold
    escrow,      \* token_escrow, with fees on Solana; Sui's escrow of an adapter
    tvl,         \* Solana: tvl_ld
    withheld,    \* transfer fees that the token's program has withheld
    tokenFee,    \* the transfer fee of the current epoch
    paused,      \* the chains that are paused
    fee,         \* the fee in force on a pathway: fee_bps or the default
    limiters,    \* the rate limiters, or NoLimiter
    drawn,       \* history: what exact limiters would have outstanding, in
                 \* units of 1/WindowUnit
    inFlight     \* how many of each packet are on their way

balances == <<users, escrow, tvl, withheld>>
config   == <<adapters, tokenFee, paused, fee>>
vars     == <<balances, config, limiters, drawn, inFlight>>

IsSolana(chain)  == chain \in SolanaChains
IsAdapter(chain) == chain \in adapters

----------------------------------------------------------------------------
(* Amounts                                                                  *)

RemoveDust(chain, amount) == amount - (amount % Rates[chain])
ToSD(chain, amount)       == amount \div Rates[chain]
ToLD(chain, amountSD)     == amountSD * Rates[chain]

CeilDiv(a, b) == (a + b - 1) \div b

\* The token program's own fee on a transfer.
TransferFee(f, amount) ==
    IF f.bps = 0 THEN 0 ELSE Smaller(f.maximum, CeilDiv(amount * f.bps, 10000))

PostFee(f, amount) == amount - TransferFee(f, amount)

\* Mutant: the division rounds down, as in the library before its fix.
PreFeeFloor(f, amount) ==
    IF f.bps = 0 \/ amount = 0 THEN amount
    ELSE IF f.bps = 10000 THEN amount + f.maximum
    ELSE Smaller(amount + f.maximum, (amount * 10000) \div (10000 - f.bps))

\* Mutant: the maximum of the fee is forgotten.
PreFeeUncapped(f, amount) ==
    IF f.bps = 0 \/ amount = 0 THEN amount
    ELSE IF f.bps = 10000 THEN amount + f.maximum
    ELSE CeilDiv(amount * 10000, 10000 - f.bps)

\* The least that must be transferred for the amount to arrive.
PreFee(f, amount) ==
    IF f.bps = 0 \/ amount = 0 THEN amount
    ELSE IF f.bps = 10000 THEN amount + f.maximum
    ELSE Smaller(amount + f.maximum, CeilDiv(amount * 10000, 10000 - f.bps))

OftFee(path, amount) == (amount * fee[path]) \div 10000

\* compute_fee_and_adjust_amount, debit_view: what the sender pays, what the
\* receiver will get, and the fee.
SolanaAmounts(path, asked) ==
    LET chain   == path[1]
        arrives == IF IsAdapter(chain) THEN RemoveDust(chain, PostFee(tokenFee, asked))
                                       ELSE RemoveDust(chain, asked)
        cut     == RemoveDust(chain, OftFee(path, arrives))
    IN  [sent     |-> IF IsAdapter(chain) THEN PreFee(tokenFee, arrives) ELSE arrives,
         received |-> arrives - cut,
         fee      |-> cut]

\* Mutant: dust is removed before the fee only.
SuiAmountsDusty(path, asked) ==
    LET sent     == RemoveDust(path[1], asked)
        received == sent - OftFee(path, sent)
    IN  [sent |-> sent, received |-> received, fee |-> sent - received]

SuiAmounts(path, asked) ==
    LET chain    == path[1]
        received == RemoveDust(chain, asked - OftFee(path, asked))
        sent     == IF fee[path] > 0 THEN asked ELSE received
    IN  [sent |-> sent, received |-> received, fee |-> sent - received]

AmountsOf(path, asked) ==
    IF IsSolana(path[1]) THEN SolanaAmounts(path, asked) ELSE SuiAmounts(path, asked)

----------------------------------------------------------------------------
(* Rate limits: limiters[<<direction, <<own, remote>>>>]                    *)

HasLimiter(k) == limiters[k] # NoLimiter

Passes(k, amount) ==
    HasLimiter(k) => IF IsSolana(k[2][1]) THEN CanConsume(limiters[k], amount)
                                          ELSE HasCapacity(limiters[k], amount)

Taken(chain, l, amount) ==
    IF l = NoLimiter THEN l
    ELSE IF IsSolana(chain) THEN Consume(l, amount) ELSE ConsumeCapacity(l, amount)

Given(chain, l, amount) ==
    IF l = NoLimiter THEN l
    ELSE IF IsSolana(chain) THEN Refill(l, amount) ELSE ReleaseCapacity(l, amount)

\* What passes in one direction is taken from its limit, and makes room for as
\* much in the other direction.
Limit(path, taking, giving, amount) ==
    LET taken == <<taking, path>>
        given == <<giving, path>>
    IN  /\ Passes(taken, amount)
        /\ limiters' = [limiters EXCEPT ![taken] = Taken(path[1], @, amount),
                                        ![given] = Given(path[1], @, amount)]
        /\ drawn' = [drawn EXCEPT
               ![taken] = IF HasLimiter(taken) THEN @ + WindowUnit * amount ELSE 0,
               ![given] = Larger(0, @ - WindowUnit * amount)]

\* What an exact limiter would let pass in a second.
Flow(chain, l) ==
    IF IsSolana(chain) THEN WindowUnit * l.refillPerSecond
                       ELSE l.limit * (WindowUnit \div l.windowSeconds)

Aged(chain, l) ==
    IF l = NoLimiter THEN l ELSE IF IsSolana(chain) THEN AgedBucket(l) ELSE AgedWindow(l)

\* A second passes.
Tick ==
    /\ limiters' = [k \in Limiters |-> Aged(k[2][1], limiters[k])]
    /\ drawn' = [k \in Limiters |->
           IF limiters[k] = NoLimiter THEN 0 ELSE Larger(0, drawn[k] - Flow(k[2][1], limiters[k]))]
    /\ UNCHANGED <<balances, config, inFlight>>

\* update_rate_limiter: first the capacity, which fills the bucket, then the rate.
UpdatedBucket(l, params) ==
    LET old    == IF l = NoLimiter THEN DefaultBucket ELSE l
        filled == IF params.capacity = None THEN old ELSE SetCapacity(old, params.capacity)
    IN  IF params.refillPerSecond = None THEN filled ELSE SetRate(filled, params.refillPerSecond)

UpdatedWindow(l, params) ==
    IF l = NoLimiter THEN NewWindow(params.limit, params.windowSeconds)
    ELSE SetLimit(l, params.limit, params.windowSeconds)

SameLimit(l, params) ==
    l # NoLimiter /\ l.limit = params.limit /\ l.windowSeconds = params.windowSeconds

SetSolanaRateLimit(k) ==
    /\ IsSolana(k[2][1])
    /\ \E params \in RateLimits[k] :
           /\ limiters' = [limiters EXCEPT ![k] = UpdatedBucket(@, params)]
           /\ drawn' = [drawn EXCEPT ![k] = IF params.capacity = None THEN @ ELSE 0]
    /\ UNCHANGED <<balances, config, inFlight>>

SetSuiRateLimit(k) ==
    /\ ~ IsSolana(k[2][1])
    /\ \E params \in RateLimits[k] :
           /\ ~ SameLimit(limiters[k], params)
           /\ limiters' = [limiters EXCEPT ![k] = UpdatedWindow(@, params)]
    /\ UNCHANGED <<balances, config, drawn, inFlight>>

UnsetRateLimit(k) ==
    /\ HasLimiter(k) \/ IsSolana(k[2][1])
    /\ limiters' = [limiters EXCEPT ![k] = NoLimiter]
    /\ drawn' = [drawn EXCEPT ![k] = 0]
    /\ UNCHANGED <<balances, config, inFlight>>

----------------------------------------------------------------------------
(* Transfers                                                                *)

OnItsWay == SumFunction(inFlight)

TransferFeeOn(chain, amount) == IF IsAdapter(chain) THEN TransferFee(tokenFee, amount) ELSE 0

\* The sender pays for what arrives and for the fee. An adapter locks the one
\* and keeps the other beside it; otherwise the one is burned, the fee kept.
SolanaDebit(chain, a) ==
    LET lost == TransferFeeOn(chain, a.sent)
    IN  /\ users[chain] >= a.sent
        /\ users'    = [users EXCEPT ![chain] = @ - a.sent]
        /\ escrow'   = [escrow EXCEPT ![chain] = @ + (IF IsAdapter(chain) THEN a.sent - lost ELSE a.fee)]
        /\ tvl'      = [tvl EXCEPT ![chain] = @ + (IF IsAdapter(chain) THEN a.received ELSE 0)]
        /\ withheld' = [withheld EXCEPT ![chain] = @ + lost]

\* The fee goes to its deposit address, which is an account like others.
SuiDebit(chain, a) ==
    /\ users[chain] >= a.sent
    /\ users'  = [users EXCEPT ![chain] = @ - a.received]
    /\ escrow' = [escrow EXCEPT ![chain] = @ + (IF IsAdapter(chain) THEN a.received ELSE 0)]
    /\ UNCHANGED <<tvl, withheld>>

Send(path, asked) ==
    LET chain  == path[1]
        a      == AmountsOf(path, asked)
        packet == [path |-> path, amountSD |-> ToSD(chain, a.received)]
    IN  /\ chain \notin paused
        /\ OnItsWay < MaxInFlight
        /\ IF IsSolana(chain) THEN SolanaDebit(chain, a) ELSE SuiDebit(chain, a)
        /\ Limit(path, "outbound", "inbound", a.received)
        /\ packet \in Packets
        /\ inFlight' = [inFlight EXCEPT ![packet] = @ + 1]
        /\ UNCHANGED config

\* An adapter unlocks, the recipient bearing the token's fee; otherwise the
\* amount is minted.
SolanaCredit(chain, amount) ==
    LET lost == TransferFeeOn(chain, amount)
    IN  /\ IsAdapter(chain) => tvl[chain] >= amount /\ escrow[chain] >= amount
        /\ users'    = [users EXCEPT ![chain] = @ + amount - lost]
        /\ escrow'   = [escrow EXCEPT ![chain] = @ - (IF IsAdapter(chain) THEN amount ELSE 0)]
        /\ tvl'      = [tvl EXCEPT ![chain] = @ - (IF IsAdapter(chain) THEN amount ELSE 0)]
        /\ withheld' = [withheld EXCEPT ![chain] = @ + lost]

SuiCredit(chain, amount) ==
    /\ IsAdapter(chain) => escrow[chain] >= amount
    /\ users'  = [users EXCEPT ![chain] = @ + amount]
    /\ escrow' = [escrow EXCEPT ![chain] = @ - (IF IsAdapter(chain) THEN amount ELSE 0)]
    /\ UNCHANGED <<tvl, withheld>>

LzReceive(packet) ==
    LET chain  == packet.path[2]
        amount == ToLD(chain, packet.amountSD)
    IN  /\ inFlight[packet] > 0
        /\ chain \notin paused
        /\ Limit(<<chain, packet.path[1]>>, "inbound", "outbound", amount)
        /\ IF IsSolana(chain) THEN SolanaCredit(chain, amount) ELSE SuiCredit(chain, amount)
        /\ inFlight' = [inFlight EXCEPT ![packet] = @ - 1]
        /\ UNCHANGED config

----------------------------------------------------------------------------
(* The admins, and the token's own program                                  *)

WithdrawFee(chain, amount) ==
    /\ IsSolana(chain)
    /\ amount <= escrow[chain] - tvl[chain]
    /\ users' = [users EXCEPT ![chain] = @ + amount - TransferFeeOn(chain, amount)]
    /\ escrow' = [escrow EXCEPT ![chain] = @ - amount]
    /\ withheld' = [withheld EXCEPT ![chain] = @ + TransferFeeOn(chain, amount)]
    /\ UNCHANGED <<tvl, config, limiters, drawn, inFlight>>

SetFee(path, bps) ==
    /\ bps # IF IsSolana(path[1]) THEN 10000 ELSE fee[path]
    /\ fee' = [fee EXCEPT ![path] = bps]
    /\ UNCHANGED <<balances, adapters, tokenFee, paused, limiters, drawn, inFlight>>

Pause(chain) ==
    /\ chain \in Pausable
    /\ paused' = paused \cup {chain}
    /\ UNCHANGED <<balances, adapters, tokenFee, fee, limiters, drawn, inFlight>>

Unpause(chain) ==
    /\ paused' = paused \ {chain}
    /\ UNCHANGED <<balances, adapters, tokenFee, fee, limiters, drawn, inFlight>>

\* The token's authority has set another fee for the epoch that begins. Only
\* Solana's adapter looks at it.
EpochBegins ==
    /\ SolanaChains \cap adapters # {}
    /\ tokenFee' \in TokenFees
    /\ UNCHANGED <<balances, adapters, paused, fee, limiters, drawn, inFlight>>

----------------------------------------------------------------------------

\* The token exists on one chain, where it is either minted or behind an
\* adapter; the others begin with nothing.
Init ==
    /\ \E home \in Chains :
           /\ adapters \in {{}, {home}}
           /\ users = [chain \in Chains |-> IF chain = home THEN ToLD(chain, Supply) ELSE 0]
    /\ escrow   = [chain \in Chains |-> 0]
    /\ tvl      = [chain \in Chains |-> 0]
    /\ withheld = [chain \in Chains |-> 0]
    /\ tokenFee = NoTokenFee
    /\ paused   = {}
    /\ fee      = [path \in Pathways |-> 0]
    /\ limiters = [k \in Limiters |-> NoLimiter]
    /\ drawn    = [k \in Limiters |-> 0]
    /\ inFlight = [packet \in Packets |-> 0]

Transfers ==
    \/ \E path \in Pathways, asked \in Amounts : Send(path, asked)
    \/ \E packet \in Packets : LzReceive(packet)

Administration ==
    \/ \E chain \in Chains : \E amount \in 1 .. ToLD(chain, Supply) : WithdrawFee(chain, amount)
    \/ \E chain \in Chains : Pause(chain) \/ Unpause(chain)
    \/ \E path \in Pathways : \E bps \in Fees[path] : SetFee(path, bps)
    \/ \E k \in Limiters : SetSolanaRateLimit(k) \/ SetSuiRateLimit(k) \/ UnsetRateLimit(k)

Next == Transfers \/ Administration \/ Tick \/ EpochBegins

Spec == Init /\ [][Next]_vars

\* Time passes, who pauses a chain resumes it, and the executor goes on with
\* what can be received.
Fairness ==
    /\ WF_vars(Tick)
    /\ \A chain \in Chains : WF_vars(Unpause(chain))
    /\ SF_vars(\E packet \in Packets : LzReceive(packet))

FairSpec == Spec /\ Fairness

----------------------------------------------------------------------------
TypeOK ==
    /\ adapters \subseteq Chains
    /\ users \in [Chains -> Nat]
    /\ escrow \in [Chains -> Nat]
    /\ tvl \in [Chains -> Nat]
    /\ withheld \in [Chains -> Nat]
    /\ tokenFee \in TokenFees
    /\ paused \subseteq Chains
    /\ fee \in [Pathways -> 0 .. 10000]
    /\ DOMAIN limiters = Limiters
    /\ \A k \in Limiters : limiters[k] \in (IF IsSolana(k[2][1]) THEN Buckets ELSE Windows) \cup {NoLimiter}
    /\ drawn \in [Limiters -> Nat]
    /\ inFlight \in [Packets -> Nat]

Value(chain, amount) == amount * (Unit \div Rates[chain])

\* What an adapter has locked is elsewhere in circulation.
Locked(chain) == IF IsAdapter(chain) /\ ~ IsSolana(chain) THEN escrow[chain] ELSE tvl[chain]

Held(chain) == users[chain] + escrow[chain] + withheld[chain] - Locked(chain)

Circulating == SumFunction([chain \in Chains |-> Value(chain, Held(chain))])

Travelling == Unit * SumFunction([packet \in Packets |-> packet.amountSD * inFlight[packet]])

\* Whatever the decimals of the chains, the dust, the fees of the OFT and of
\* the token: what circulates and what is on its way is what there was.
SupplyIsConserved == Circulating + Travelling = Unit * Supply

\* The escrow of Solana holds what is locked, whatever was withdrawn as fees
\* and whatever the token's own fee was at each transfer: no unlock can fail
\* for want of tokens, and withdraw_fee's subtraction does not underflow.
EscrowCoversTvl == \A chain \in SolanaChains : escrow[chain] >= tvl[chain]

\* Nobody pays more than was asked, for all the rounding up of the token's fee.
DebitWithinAmount ==
    \A path \in Pathways : \A asked \in 0 .. ToLD(path[1], Supply) : AmountsOf(path, asked).sent <= asked

LimitOf(chain, l) == IF IsSolana(chain) THEN l.capacity ELSE l.limit

\* The limiters compute with whole tokens and seconds, and only when they are
\* used. Nothing passes that an exact limiter would refuse, through all changes
\* of limits, rates and windows.
LimitsAreKept ==
    [][\A k \in Limiters :
           drawn'[k] > drawn[k] => drawn'[k] <= WindowUnit * LimitOf(k[2][1], limiters'[k])]_vars

\* A limiter that lets the amount pass in the end, however often it is used: a
\* bucket that fills, a window that loses a whole unit in each second. With a
\* limit below its seconds, Sui's decay is rounded down to nothing (181) and the
\* time starts again (212-215) whenever it is used within a second.
Recovers(chain, l, amount) ==
    l # NoLimiter =>
        IF IsSolana(chain) THEN l.capacity >= amount /\ l.refillPerSecond > 0
                           ELSE l.limit >= amount /\ l.limit >= l.windowSeconds

CanArrive(packet) ==
    LET chain == packet.path[2]
    IN  /\ inFlight[packet] > 0
        /\ Recovers(chain, limiters[<<"inbound", <<chain, packet.path[1]>>>>],
                    ToLD(chain, packet.amountSD))

\* As long as a transfer is on its way whose limiter is large enough for it and
\* recovers, one arrives in the end, through all pauses, transfers of either
\* direction and changes of the limits, which save the amount of the moment.
SomethingArrives ==
    <>[](\E packet \in Packets : CanArrive(packet))
        => []<><<\E packet \in Packets : LzReceive(packet)>>_vars
=============================================================================
