---------------------------- MODULE RateLimiters ----------------------------
(* The two limiters on what may pass between two chains in some time.       *)
(* Solana (state/peer_config.rs) has a bucket of tokens that fills by time  *)
(* and by what passes the other way. Sui (internal/rate_limiter.move) has   *)
(* the amount in flight, which decays linearly over a window. Both compute  *)
(* only when they are used, from the time since they last were: `age`, in   *)
(* seconds, which stands for the clock and last_refill_time, last_update.   *)
EXTENDS Integers

CONSTANTS
    MaxAge      \* bound: a limiter that has not been used for so long ages no more

ASSUME AgeAssumption == MaxAge \in Nat

Larger(a, b)  == IF a > b THEN a ELSE b
Smaller(a, b) == IF a < b THEN a ELSE b

\* An Option that is None.
None == -1

----------------------------------------------------------------------------
(* Solana: [capacity, tokens, refillPerSecond, age]                         *)

\* RateLimiter::default; last_refill_time is 0, long ago.
DefaultBucket == [capacity |-> 0, tokens |-> 0, refillPerSecond |-> 0, age |-> MaxAge]

Refill(l, extra) ==
    [l EXCEPT !.tokens = Smaller(l.capacity, @ + extra + l.age * l.refillPerSecond),
              !.age    = 0]

CanConsume(l, amount) == Refill(l, 0).tokens >= amount
Consume(l, amount)    == [Refill(l, 0) EXCEPT !.tokens = @ - amount]

SetCapacity(l, capacity) ==
    [capacity |-> capacity, tokens |-> capacity, refillPerSecond |-> l.refillPerSecond, age |-> 0]

SetRate(l, rate) == [Refill(l, 0) EXCEPT !.refillPerSecond = rate]

----------------------------------------------------------------------------
(* Sui: [limit, windowSeconds, inFlightOnLastUpdate, age]                   *)

NewWindow(limit, windowSeconds) ==
    [limit |-> limit, windowSeconds |-> windowSeconds, inFlightOnLastUpdate |-> 0, age |-> 0]

Decay(l)    == (l.age * l.limit) \div l.windowSeconds
InFlight(l) == Larger(0, l.inFlightOnLastUpdate - Decay(l))

Checkpoint(l) == [l EXCEPT !.inFlightOnLastUpdate = InFlight(l), !.age = 0]

\* Mutant: the amount in flight as it was at the last update.
HasCapacityStored(l, amount) == l.inFlightOnLastUpdate + amount <= l.limit

HasCapacity(l, amount)     == InFlight(l) + amount <= l.limit
ConsumeCapacity(l, amount) == [Checkpoint(l) EXCEPT !.inFlightOnLastUpdate = @ + amount]
ReleaseCapacity(l, amount) == [Checkpoint(l) EXCEPT !.inFlightOnLastUpdate = Larger(0, @ - amount)]

\* Mutant: the amount in flight is not saved before the change.
SetLimitOnly(l, limit, windowSeconds) ==
    [l EXCEPT !.limit = limit, !.windowSeconds = windowSeconds]

SetLimit(l, limit, windowSeconds) ==
    [Checkpoint(l) EXCEPT !.limit = limit, !.windowSeconds = windowSeconds]

----------------------------------------------------------------------------
(* Time                                                                      *)

Older(l) == [l EXCEPT !.age = Smaller(MaxAge, @ + 1)]

\* Nothing tells for how long a limiter has recovered: the next call saves the
\* amount of now, whatever it sets.
AgedBucket(l) == IF Refill(l, 0).tokens = l.capacity THEN l ELSE Older(l)
AgedWindow(l) == IF InFlight(l) = 0 THEN l ELSE Older(l)
=============================================================================
