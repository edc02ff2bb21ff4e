-------------------------- MODULE ChannelFrontiers --------------------------
(***************************************************************************)
(* What the channel of one path shows to one msglib connection: how far it *)
(* has committed and executed, and the answers by which the connection     *)
(* follows it. The packets, the execution queue and the OApp are left out; *)
(* ChannelReceive has the handlers in full and is checked to implement     *)
(* this module, and UlnConnection is built on it.                          *)
(***************************************************************************)
EXTENDS DataStructures

CONSTANT MaxNonce  \* bound: nonces that the remote side may have sent

Nonces == 1 .. MaxNonce

ASSUME FrontiersAssumption == MaxNonce \in Nat

VARIABLES
    commits,   \* the commit bitmap
    executes,  \* the execution bitmap
    answer     \* what the last transaction sent to the connection

frontiers == <<commits, executes, answer>>

NoAnswer == [op |-> "none", nonce |-> 0, firstUnexecuted |-> 0]

CallbackAnswer(nonce) ==
    [op |-> "MSGLIB_CONNECTION_COMMIT_PACKET_CALLBACK",
     nonce |-> nonce, firstUnexecuted |-> executes.nextEmpty]

SyncAnswer ==
    [op |-> "MSGLIB_CONNECTION_SYNC_CHANNEL_STATE",
     nonce |-> commits.nextEmpty, firstUnexecuted |-> executes.nextEmpty]

\* In the window of the nonces that can still be committed
Open(nonce) ==
    /\ nonce >= executes.nextEmpty
    /\ nonce <= POOOMaxSettableBit(executes)
    /\ ~ POOOIsBitSet(executes, nonce)

FrontiersInit ==
    /\ commits = POOONew
    /\ executes = POOONew
    /\ answer = NoAnswer

\* The connection presented a packet of the nonce.
CommitAndAnswer(nonce) ==
    /\ commits' = IF Open(nonce) THEN POOOSet(commits, nonce) ELSE commits
    /\ answer' = IF nonce <= POOOMaxSettableBit(executes) THEN CallbackAnswer(nonce) ELSE NoAnswer
    /\ UNCHANGED executes

\* Another connection presented it, or the owner nilified the nonce.
CommitSilently(nonce) ==
    /\ Open(nonce)
    /\ commits' = POOOSet(commits, nonce)
    /\ answer' = NoAnswer
    /\ UNCHANGED executes

\* The OApp executed the nonce, or the owner burned it, for which a nonce that
\* comes next is committed first.
ExecuteNonce(nonce) ==
    /\ nonce <= commits.nextEmpty
    /\ Open(nonce)
    /\ commits' = POOOSet(commits, nonce)
    /\ executes' = POOOSet(executes, nonce)
    /\ answer' = NoAnswer

NotifyExecuted(nonce) ==
    /\ POOOMarked(executes, nonce)
    /\ answer' = CallbackAnswer(nonce)
    /\ UNCHANGED <<commits, executes>>

Synchronize ==
    /\ answer' = SyncAnswer
    /\ UNCHANGED <<commits, executes>>

\* A step that concerns neither the frontiers nor the connection
Other == answer' = NoAnswer /\ UNCHANGED <<commits, executes>>

FrontiersNext ==
    \/ \E nonce \in Nonces : CommitAndAnswer(nonce)
    \/ \E nonce \in Nonces : CommitSilently(nonce)
    \/ \E nonce \in Nonces : ExecuteNonce(nonce)
    \/ \E nonce \in Nonces : NotifyExecuted(nonce)
    \/ Synchronize
    \/ Other

FrontiersSpec == FrontiersInit /\ [][FrontiersNext]_frontiers
=============================================================================
