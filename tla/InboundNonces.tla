--------------------------- MODULE InboundNonces ----------------------------
(***************************************************************************)
(* What the receive half of a channel promises, nonce by nonce and without *)
(* windows, bitmaps, slots or messages in flight: a packet is executed     *)
(* after all its predecessors were committed, the OApp gets it at most     *)
(* once, a packet that failed was not delivered, and executed is final.    *)
(***************************************************************************)
EXTENDS Naturals

CONSTANTS
    MaxNonce,
    Messages,
    NoPacket    \* the packet of a nonce that holds none

VARIABLES
    status,     \* of each nonce
    packet,     \* committed or executing at each nonce
    delivered   \* how often the OApp has executed each nonce

inboundVars == <<status, packet, delivered>>

InboundNonce == 1 .. MaxNonce

InboundInit ==
    /\ status = [nonce \in InboundNonce |-> "uncommitted"]
    /\ packet = [nonce \in InboundNonce |-> NoPacket]
    /\ delivered = [nonce \in InboundNonce |-> 0]

PrefixCommitted(nonce) == \A n \in 1 .. nonce : status[n] # "uncommitted"

Commit(nonce, message) ==
    /\ status[nonce] \in {"uncommitted", "committed"}
    /\ status' = [status EXCEPT ![nonce] = "committed"]
    /\ packet' = [packet EXCEPT ![nonce] = message]
    /\ UNCHANGED delivered

\* The packet is withdrawn; its nonce still counts as committed.
Withdraw(nonce) == Commit(nonce, NoPacket)

Start(nonce) ==
    /\ status[nonce] = "committed"
    /\ packet[nonce] # NoPacket
    /\ PrefixCommitted(nonce)
    /\ status' = [status EXCEPT ![nonce] = "executing"]
    /\ UNCHANGED <<packet, delivered>>

\* The OApp executes the packet; it may be burned meanwhile.
Deliver(nonce) ==
    /\ status[nonce] \in {"executing", "executed"}
    /\ delivered[nonce] = 0
    /\ delivered' = [delivered EXCEPT ![nonce] = 1]
    /\ UNCHANGED <<status, packet>>

Fail(nonce) ==
    /\ status[nonce] = "executing"
    /\ delivered[nonce] = 0
    /\ status' = [status EXCEPT ![nonce] = "committed"]
    /\ UNCHANGED <<packet, delivered>>

\* The end of a nonce: delivered, or burned by the owner.
Finish(nonce) ==
    /\ status[nonce] # "executed"
    /\ \A n \in 1 .. nonce - 1 : status[n] # "uncommitted"
    /\ status' = [status EXCEPT ![nonce] = "executed"]
    /\ packet' = [packet EXCEPT ![nonce] = NoPacket]
    /\ UNCHANGED delivered

InboundNext ==
    \E nonce \in InboundNonce :
        \/ \E message \in Messages : Commit(nonce, message)
        \/ Withdraw(nonce)
        \/ Start(nonce)
        \/ Deliver(nonce)
        \/ Fail(nonce)
        \/ Finish(nonce)

InboundSpec == InboundInit /\ [][InboundNext]_inboundVars
=============================================================================
