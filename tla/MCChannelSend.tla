--------------------------- MODULE MCChannelSend ----------------------------
(* Finite instances of ChannelSend. *)
EXTENDS ChannelSend

CONSTANTS uln

\* A request that offers one of each; a msglib that asks for no ZRO, for more
\* native than offered, or for some ZRO.
MCFeeCaps == {[native |-> 1, zro |-> 1]}
MCQuotes  == {[native |-> 1, zro |-> 0], [native |-> 2, zro |-> 0], [native |-> 1, zro |-> 1]}
=============================================================================
