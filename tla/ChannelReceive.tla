--------------------------- MODULE ChannelReceive ---------------------------
(***************************************************************************)
(* The receive half of the TON channel contract (ton/lz-framework/src/     *)
(* protocol/channel/handler.fc) with the OApp it serves: commit of a       *)
(* verified packet, the prepare / lock / execute / callback protocol of    *)
(* lzReceive, and the OApp owner's nilify and burn.                        *)
(*                                                                         *)
(* A contract runs one message at a time and a throw undoes the whole      *)
(* transaction, so every handler is one action, enabled when it does not   *)
(* throw. What is concurrent is the messages in flight: the channel and    *)
(* the OApp are two contracts, and between the lock and the callback of a  *)
(* packet any other message may reach either. TON keeps the order of the   *)
(* messages of one sender to one receiver only; the sets below keep none.  *)
(***************************************************************************)
EXTENDS DataStructures

CONSTANTS
    MaxNonce,        \* bound: nonces that the remote side may have sent
    Messages,        \* packet bodies
    Connections,     \* msglib connections that may present a packet
    NullAddress,
    OAppConfigs,     \* receive configurations the OApp may set
    NullConfig,      \* EpConfig with isNull: the endpoint's defaults apply
    DefaultConfig,   \* the endpoint's default receive configuration
    MaxTime,         \* bound: values of the clock
    OAppOutcomes     \* what lzReceiveExecute of the OApp may do

Nonces == 1 .. MaxNonce

ReceiveConfig ==
    [receive : Connections, timeout : Connections \cup {NullAddress}, expiry : Nat]

ASSUME ChannelReceiveAssumption ==
    /\ MaxNonce \in Nat
    /\ MaxTime \in Nat
    /\ EmptyCell \notin Messages
    /\ NullAddress \notin Connections
    /\ NullConfig \notin ReceiveConfig
    /\ OAppConfigs \subseteq ReceiveConfig \cup {NullConfig}
    /\ DefaultConfig \in ReceiveConfig
    /\ OAppOutcomes \subseteq {"success", "failure", "throw"}

VARIABLES
    storage,     \* the contract storage of the channel, receive half
    now,         \* the block time
    toOApp,      \* messages in flight from the channel to the OApp
    toChannel,   \* messages in flight from the OApp to the channel
    reply,       \* what the last transaction sent to a msglib connection
    deliveries,  \* history: how often the OApp has executed each nonce
    burned       \* history: nonces for which PACKET_BURNED was emitted

vars == <<storage, now, toOApp, toChannel, reply, deliveries, burned>>

Storage ==
    [epConfigOApp   : OAppConfigs \cup {NullConfig},
     commitPOOO     : PipelinedOutOfOrder,
     executePOOO    : PipelinedOutOfOrder,
     executionQueue : [Slots -> [key    : Nat \cup {InvalidKey},
                                 status : {"invalid", "committed", "executing"},
                                 object : Messages \cup {EmptyCell}]]]

ToOApp ==
    [op : {"LZ_RECEIVE_PREPARE"}, nonce : Nonces]
        \cup [op : {"LZ_RECEIVE_EXECUTE"}, nonce : Nonces,
              message : Messages \cup {EmptyCell}]

ToChannel ==
    [op : {"LZ_RECEIVE_LOCK"}, nonce : Nonces]
        \cup [op : {"LZ_RECEIVE_EXECUTE_CALLBACK"}, nonce : Nonces, success : BOOLEAN]

\* A commit callback carries a nonce and the first unexecuted nonce, a sync
\* the first uncommitted and the first unexecuted nonce.
Reply ==
    [op : {"none", "MSGLIB_CONNECTION_COMMIT_PACKET_CALLBACK",
           "MSGLIB_CONNECTION_SYNC_CHANNEL_STATE"},
     to : Connections \cup {NullAddress}, nonce : Nat, firstUnexecuted : Nat]

NoReply == [op |-> "none", to |-> NullAddress, nonce |-> 0, firstUnexecuted |-> 0]

CommitCallback(connection, nonce, firstUnexecuted) ==
    [op |-> "MSGLIB_CONNECTION_COMMIT_PACKET_CALLBACK", to |-> connection,
     nonce |-> nonce, firstUnexecuted |-> firstUnexecuted]

-----------------------------------------------------------------------------
(* What the handlers ask of the storage *)

Leaf(s, nonce) == DICQGet(s.executionQueue, nonce)

\* Mutant: the key of the slot is not compared.
IsExecutingAnyKey(s, nonce) == Leaf(s, nonce).status = "executing"

IsExecuting(s, nonce) ==
    Leaf(s, nonce).key = nonce /\ Leaf(s, nonce).status = "executing"

\* Mutants: an executing packet is committable, the window ends one late.
CommittableWhileExecuting(s, nonce) ==
    /\ nonce >= s.executePOOO.nextEmpty
    /\ nonce <= POOOMaxSettableBit(s.executePOOO)
    /\ ~ POOOIsBitSet(s.executePOOO, nonce)

CommittableOneTooFar(s, nonce) ==
    /\ nonce >= s.executePOOO.nextEmpty
    /\ nonce <= POOOMaxSettableBit(s.executePOOO) + 1
    /\ Leaf(s, nonce).status # "executing"
    /\ ~ POOOIsBitSet(s.executePOOO, nonce)

\* The window of the nonces that can still be committed, and the two
\* conditions on a nonce inside it.
OptimizedNonceCommittable(s, nonce) ==
    /\ nonce >= s.executePOOO.nextEmpty
    /\ nonce <= POOOMaxSettableBit(s.executePOOO)
    /\ Leaf(s, nonce).status # "executing"
    /\ ~ POOOIsBitSet(s.executePOOO, nonce)

\* Mutant: the short circuit forgets the executing status.
NonceCommittableShortCircuit(s, nonce) ==
    \/ nonce = s.executePOOO.nextEmpty /\ Leaf(s, nonce).key = nonce
    \/ OptimizedNonceCommittable(s, nonce)

\* The same question with the short circuit for the first unexecuted nonce.
NonceCommittable(s, nonce) ==
    \/ /\ nonce = s.executePOOO.nextEmpty
       /\ Leaf(s, nonce).key = nonce
       /\ Leaf(s, nonce).status # "executing"
    \/ OptimizedNonceCommittable(s, nonce)

GetExecutablePacket(s, nonce) ==
    /\ NonceCommittable(s, nonce)
    /\ nonce < s.commitPOOO.nextEmpty
    /\ DICQExists(s.executionQueue, nonce)

\* Mutants: no status, no prefix, and a prefix one too short.
LockableAnyStatus(s, nonce) ==
    Leaf(s, nonce).key = nonce /\ nonce < s.commitPOOO.nextEmpty

LockableAnywhere(s, nonce) ==
    Leaf(s, nonce).key = nonce /\ Leaf(s, nonce).status = "committed"

LockableBehindPrefix(s, nonce) ==
    /\ Leaf(s, nonce).key = nonce
    /\ Leaf(s, nonce).status = "committed"
    /\ nonce + 1 < s.commitPOOO.nextEmpty

Lockable(s, nonce) ==
    /\ Leaf(s, nonce).key = nonce
    /\ Leaf(s, nonce).status = "committed"
    /\ nonce < s.commitPOOO.nextEmpty

ViewExecutionStatus(s, nonce) ==
    IF ~ POOOMarked(s.commitPOOO, nonce)       THEN "uncommitted"
    ELSE IF POOOMarked(s.executePOOO, nonce)   THEN "executed"
    ELSE IF Leaf(s, nonce).status = "executing" THEN "executing"
    ELSE IF nonce < s.commitPOOO.nextEmpty     THEN "executable"
    ELSE "committedNotExecutable"

\* lz::EpConfig::isValid, for the fields of the receive side
ValidConfig(config) ==
    \/ config = NullConfig
    \/ config.timeout = NullAddress /\ config.expiry = 0
    \/ /\ config.timeout # NullAddress
       /\ config.expiry > now
       /\ config.timeout # config.receive

ApprovedReceiveMsglib(s, connection) ==
    LET config == IF s.epConfigOApp = NullConfig THEN DefaultConfig ELSE s.epConfigOApp
    IN  \/ connection = config.receive
        \/ connection = config.timeout /\ config.expiry >= now

-----------------------------------------------------------------------------
(* What the handlers do to the storage *)

CommitPacket(s, nonce, message) ==
    [s EXCEPT !.commitPOOO = POOOSet(@, nonce),
              !.executionQueue = DICQSet(@, nonce, message, "committed")]

SetStatus(s, nonce, status) ==
    [s EXCEPT !.executionQueue = DICQSet(@, nonce, Leaf(s, nonce).object, status)]

MarkExecuted(s, nonce) ==
    [s EXCEPT !.executePOOO = POOOSet(@, nonce),
              !.executionQueue = DICQDelete(@, nonce)]

\* The commit of a packet with no body by which the owner's calls reuse
\* channelCommitPacket; its answer to the msglib is not sent.
CommitFakePacket(s, nonce) ==
    IF OptimizedNonceCommittable(s, nonce) THEN CommitPacket(s, nonce, EmptyCell) ELSE s

LockIfLockable(s, nonce) ==
    IF Lockable(s, nonce) THEN SetStatus(s, nonce, "executing") ELSE s

Init ==
    /\ storage = [epConfigOApp   |-> NullConfig,
                  commitPOOO     |-> POOONew,
                  executePOOO    |-> POOONew,
                  executionQueue |-> DICQCreate]
    /\ now = 0
    /\ toOApp = {}
    /\ toChannel = {}
    /\ reply = NoReply
    /\ deliveries = [nonce \in Nonces |-> 0]
    /\ burned = {}

SetEpConfigOApp(config) ==
    /\ ValidConfig(config)
    /\ storage' = [storage EXCEPT !.epConfigOApp = config]
    /\ reply' = NoReply
    /\ UNCHANGED <<now, toOApp, toChannel, deliveries, burned>>

\* Mutant: the msglib is answered whether or not the nonce is in the window.
AlwaysAnswer(nonce, message, connection) ==
    /\ ApprovedReceiveMsglib(storage, connection)
    /\ storage' = IF OptimizedNonceCommittable(storage, nonce)
                  THEN CommitPacket(storage, nonce, message) ELSE storage
    /\ reply' = CommitCallback(connection, nonce, storage.executePOOO.nextEmpty)
    /\ UNCHANGED <<now, toOApp, toChannel, deliveries, burned>>

\* The endpoint forwards a packet that `connection` says it verified.
ChannelCommitPacket(nonce, message, connection) ==
    /\ ApprovedReceiveMsglib(storage, connection)
    /\ IF OptimizedNonceCommittable(storage, nonce)
       THEN /\ POOOSettable(storage.commitPOOO, nonce)
            /\ storage' = CommitPacket(storage, nonce, message)
       ELSE UNCHANGED storage
    /\ reply' = IF nonce <= POOOMaxSettableBit(storage.executePOOO)
                THEN CommitCallback(connection, nonce, storage.executePOOO.nextEmpty)
                ELSE NoReply
    /\ UNCHANGED <<now, toOApp, toChannel, deliveries, burned>>

\* Anyone asks the channel to start the execution of a packet.
LzReceivePrepare(nonce) ==
    /\ GetExecutablePacket(storage, nonce)
    /\ toOApp' = toOApp \cup {[op |-> "LZ_RECEIVE_PREPARE", nonce |-> nonce]}
    /\ reply' = NoReply
    /\ UNCHANGED <<storage, now, toChannel, deliveries, burned>>

LzReceiveLock(nonce) ==
    LET request == [op |-> "LZ_RECEIVE_LOCK", nonce |-> nonce]
    IN  /\ request \in toChannel
        /\ toChannel' = toChannel \ {request}
        /\ storage' = LockIfLockable(storage, nonce)
        /\ toOApp' = IF Lockable(storage, nonce)
                     THEN toOApp \cup {[op |-> "LZ_RECEIVE_EXECUTE", nonce |-> nonce,
                                        message |-> Leaf(storage, nonce).object]}
                     ELSE toOApp
        /\ reply' = NoReply
        /\ UNCHANGED <<now, deliveries, burned>>

\* The callback of a nonce that is not executing throws and is lost.
LzReceiveExecuteCallback(nonce, success) ==
    LET callback == [op |-> "LZ_RECEIVE_EXECUTE_CALLBACK", nonce |-> nonce, success |-> success]
    IN  /\ callback \in toChannel
        /\ toChannel' = toChannel \ {callback}
        /\ storage' = IF ~ IsExecuting(storage, nonce) THEN storage
                      ELSE IF success THEN MarkExecuted(storage, nonce)
                                      ELSE SetStatus(storage, nonce, "committed")
        /\ reply' = NoReply
        /\ UNCHANGED <<now, toOApp, deliveries, burned>>

\* The entry goes from the queue as it was before the fake commit.
Nilify(nonce) ==
    /\ NonceCommittable(storage, nonce)
    /\ storage' = [CommitFakePacket(storage, nonce) EXCEPT
                       !.executionQueue = DICQDelete(storage.executionQueue, nonce)]
    /\ reply' = NoReply
    /\ UNCHANGED <<now, toOApp, toChannel, deliveries, burned>>

\* Commit, lock and execute in one transaction; the last step throws unless
\* the nonce is then executing.
Burn(nonce) ==
    LET locked == LockIfLockable(CommitFakePacket(storage, nonce), nonce)
    IN  /\ IsExecuting(locked, nonce)
        /\ storage' = MarkExecuted(locked, nonce)
        /\ burned' = burned \cup {nonce}
        /\ reply' = NoReply
        /\ UNCHANGED <<now, toOApp, toChannel, deliveries>>

\* Anyone asks the channel to tell a msglib connection that a nonce is done.
NotifyPacketExecuted(nonce, connection) ==
    /\ ViewExecutionStatus(storage, nonce) = "executed"
    /\ reply' = CommitCallback(connection, nonce, storage.executePOOO.nextEmpty)
    /\ UNCHANGED <<storage, now, toOApp, toChannel, deliveries, burned>>

\* Anyone asks the channel to send both frontiers to a msglib connection.
SyncMsglibConnection(connection) ==
    /\ reply' = [op |-> "MSGLIB_CONNECTION_SYNC_CHANNEL_STATE", to |-> connection,
                 nonce |-> storage.commitPOOO.nextEmpty,
                 firstUnexecuted |-> storage.executePOOO.nextEmpty]
    /\ UNCHANGED <<storage, now, toOApp, toChannel, deliveries, burned>>

-----------------------------------------------------------------------------
(* The OApp's side of lzReceive, and time *)

OAppLzReceivePrepare(nonce) ==
    LET prepare == [op |-> "LZ_RECEIVE_PREPARE", nonce |-> nonce]
    IN  /\ prepare \in toOApp
        /\ toOApp' = toOApp \ {prepare}
        /\ toChannel' = toChannel \cup {[op |-> "LZ_RECEIVE_LOCK", nonce |-> nonce]}
        /\ reply' = NoReply
        /\ UNCHANGED <<storage, now, deliveries, burned>>

\* A throw undoes what the OApp did and sends no callback; the bounced
\* message is ignored by the channel.
OAppLzReceiveExecute(nonce, message, outcome) ==
    LET execute == [op |-> "LZ_RECEIVE_EXECUTE", nonce |-> nonce, message |-> message]
    IN  /\ execute \in toOApp
        /\ outcome \in OAppOutcomes
        /\ toOApp' = toOApp \ {execute}
        /\ toChannel' =
             IF outcome = "throw" THEN toChannel
             ELSE toChannel \cup {[op |-> "LZ_RECEIVE_EXECUTE_CALLBACK", nonce |-> nonce,
                                   success |-> outcome = "success"]}
        /\ deliveries' = IF outcome = "success"
                         THEN [deliveries EXCEPT ![nonce] = @ + 1]
                         ELSE deliveries
        /\ reply' = NoReply
        /\ UNCHANGED <<storage, now, burned>>

Tick ==
    /\ now < MaxTime
    /\ now' = now + 1
    /\ reply' = NoReply
    /\ UNCHANGED <<storage, toOApp, toChannel, deliveries, burned>>

Next ==
    \/ \E config \in OAppConfigs : SetEpConfigOApp(config)
    \/ \E nonce \in Nonces, message \in Messages, connection \in Connections :
           ChannelCommitPacket(nonce, message, connection)
    \/ \E nonce \in Nonces : LzReceivePrepare(nonce)
    \/ \E nonce \in Nonces : LzReceiveLock(nonce)
    \/ \E nonce \in Nonces, success \in BOOLEAN : LzReceiveExecuteCallback(nonce, success)
    \/ \E nonce \in Nonces : Nilify(nonce)
    \/ \E nonce \in Nonces : Burn(nonce)
    \/ \E nonce \in Nonces, connection \in Connections : NotifyPacketExecuted(nonce, connection)
    \/ \E connection \in Connections : SyncMsglibConnection(connection)
    \/ \E nonce \in Nonces : OAppLzReceivePrepare(nonce)
    \/ \E nonce \in Nonces, message \in Messages \cup {EmptyCell}, outcome \in OAppOutcomes :
           OAppLzReceiveExecute(nonce, message, outcome)
    \/ Tick

Spec == Init /\ [][Next]_vars

\* Every internal message of TON is delivered, and the executor, like anyone
\* else, may ask again for a packet that is still executable.
Fairness ==
    \A nonce \in Nonces :
        /\ WF_vars(LzReceivePrepare(nonce))
        /\ WF_vars(OAppLzReceivePrepare(nonce))
        /\ WF_vars(LzReceiveLock(nonce))
        /\ \A message \in Messages : WF_vars(\E outcome \in OAppOutcomes :
                                       OAppLzReceiveExecute(nonce, message, outcome))
        /\ \A success \in BOOLEAN : WF_vars(LzReceiveExecuteCallback(nonce, success))

FairSpec == Spec /\ Fairness

-----------------------------------------------------------------------------
(* The promise that the channel implements *)

InboundStatus(nonce) ==
    IF ~ POOOMarked(storage.commitPOOO, nonce)     THEN "uncommitted"
    ELSE IF POOOMarked(storage.executePOOO, nonce) THEN "executed"
    ELSE IF IsExecuting(storage, nonce)            THEN "executing"
    ELSE "committed"

InboundPacket(nonce) ==
    IF Leaf(storage, nonce).key = nonce THEN Leaf(storage, nonce).object ELSE EmptyCell

Inbound == INSTANCE InboundNonces WITH
    NoPacket  <- EmptyCell,
    status    <- [nonce \in Nonces |-> InboundStatus(nonce)],
    packet    <- [nonce \in Nonces |-> InboundPacket(nonce)],
    delivered <- deliveries

\* What one connection sees of the channel
AnswerTo(connection) ==
    [op              |-> IF reply.to = connection THEN reply.op ELSE "none",
     nonce           |-> IF reply.to = connection THEN reply.nonce ELSE 0,
     firstUnexecuted |-> IF reply.to = connection THEN reply.firstUnexecuted ELSE 0]

Seen(connection) == INSTANCE ChannelFrontiers WITH
    commits  <- storage.commitPOOO,
    executes <- storage.executePOOO,
    answer   <- AnswerTo(connection)

-----------------------------------------------------------------------------
(* Properties *)

\* The type of every variable.
TypeOK ==
    /\ storage \in Storage
    /\ now \in 0 .. MaxTime
    /\ toOApp \subseteq ToOApp
    /\ toChannel \subseteq ToChannel
    /\ reply \in Reply
    /\ deliveries \in [Nonces -> Nat]
    /\ burned \subseteq Nonces

\* The inductive invariant. Of the storage: the execute frontier is behind the
\* commit frontier, the marks beyond each frontier are inside the execution
\* window, and an entry of the queue is in its slot, in the window, committed,
\* not executed, and executing only in the committed prefix.
FrontiersOrdered(s) ==
    /\ s.executePOOO.nextEmpty >= 1
    /\ s.executePOOO.nextEmpty <= s.commitPOOO.nextEmpty
    /\ \A i \in s.executePOOO.bitmap :
           /\ s.executePOOO.nextEmpty < i
           /\ i < s.commitPOOO.nextEmpty
           /\ i <= POOOMaxSettableBit(s.executePOOO)
    /\ \A i \in s.commitPOOO.bitmap :
           s.commitPOOO.nextEmpty < i /\ i <= POOOMaxSettableBit(s.executePOOO)

LeafInWindow(s, slot) ==
    LET leaf == s.executionQueue[slot]
    IN  \/ leaf = Vacant
        \/ /\ leaf.key \in Nat
           /\ leaf.status \in {"committed", "executing"}
           /\ SlotOf(leaf.key) = slot
           /\ leaf.key >= s.executePOOO.nextEmpty
           /\ leaf.key <= POOOMaxSettableBit(s.executePOOO)
           /\ leaf.key \notin s.executePOOO.bitmap
           /\ POOOMarked(s.commitPOOO, leaf.key)
           /\ leaf.status = "executing" => leaf.key < s.commitPOOO.nextEmpty

StorageInv(s) ==
    /\ s \in Storage
    /\ FrontiersOrdered(s)
    /\ \A slot \in Slots : LeafInWindow(s, slot)

RealPackets(s) ==
    \A slot \in Slots : s.executionQueue[slot].key # InvalidKey
                           => s.executionQueue[slot].object \in Messages

\* Of the messages in flight: an execute request and a callback are the one
\* answer that an executing packet waits for, unless the owner burned it.
Callback(nonce, success) ==
    [op |-> "LZ_RECEIVE_EXECUTE_CALLBACK", nonce |-> nonce, success |-> success]

Execute(nonce, message) ==
    [op |-> "LZ_RECEIVE_EXECUTE", nonce |-> nonce, message |-> message]

InFlightInv(nonce) ==
    /\ deliveries[nonce] \in {0, 1}
    /\ nonce \in burned => POOOMarked(storage.executePOOO, nonce)
    /\ \A message \in Messages \cup {EmptyCell} :
           Execute(nonce, message) \in toOApp =>
               /\ deliveries[nonce] = 0
               /\ \A success \in BOOLEAN : Callback(nonce, success) \notin toChannel
               /\ \A other \in Messages \cup {EmptyCell} :
                      Execute(nonce, other) \in toOApp => other = message
               /\ \/ nonce \in burned
                  \/ /\ IsExecuting(storage, nonce)
                     /\ Leaf(storage, nonce).object = message
    /\ \A success \in BOOLEAN :
           Callback(nonce, success) \in toChannel =>
               /\ deliveries[nonce] = IF success THEN 1 ELSE 0
               /\ nonce \in burned \/ IsExecuting(storage, nonce)
    /\ deliveries[nonce] = 1 =>
           \/ POOOMarked(storage.executePOOO, nonce)
           \/ IsExecuting(storage, nonce) /\ Callback(nonce, TRUE) \in toChannel

IInv ==
    /\ TypeOK
    /\ StorageInv(storage)
    /\ RealPackets(storage)
    /\ \A nonce \in Nonces : InFlightInv(nonce)

\* lzReceive is pipelined, not unordered: whatever is executed, burned or
\* being executed has every nonce up to it committed (lzReceiveLock).
ExecutedOnlyInCommittedPrefix ==
    \A nonce \in Nonces :
        POOOMarked(storage.executePOOO, nonce) \/ IsExecuting(storage, nonce)
            => nonce < storage.commitPOOO.nextEmpty

\* A packet in the execution queue is in its own slot, committed, not yet
\* executed and inside the execution window, so that no two live nonces ever
\* share a slot and the status read of a slot is that of the nonce asked for.
QueueHoldsTheWindow ==
    \A slot \in Slots :
        LET leaf == storage.executionQueue[slot]
        IN  leaf.key # InvalidKey =>
                /\ SlotOf(leaf.key) = slot
                /\ leaf.key >= storage.executePOOO.nextEmpty
                /\ leaf.key <= POOOMaxSettableBit(storage.executePOOO)
                /\ ~ POOOMarked(storage.executePOOO, leaf.key)
                /\ POOOMarked(storage.commitPOOO, leaf.key)

\* No commit that passes the window check of the execution bitmap overruns
\* the commit bitmap, which starts later and would throw.
CommitBitmapNeverOverrun ==
    \A nonce \in Nonces :
        OptimizedNonceCommittable(storage, nonce)
            => POOOSettable(storage.commitPOOO, nonce)

\* The two versions of the committable test (the method of the views and the
\* inlined one of channelCommitPacket) agree.
CommittableTestsAgree ==
    \A nonce \in Nonces :
        NonceCommittable(storage, nonce) <=> OptimizedNonceCommittable(storage, nonce)

\* The OApp executes each nonce at most once, however locks, failures,
\* retries, re-commits, nilify and burn interleave with its callbacks.
DeliveredAtMostOnce == \A nonce \in Nonces : deliveries[nonce] <= 1

\* What the OApp is asked to execute is the packet that the queue holds as
\* executing, until the OApp answers; only a burn can take it away.
ExecuteMatchesQueue ==
    \A request \in toOApp :
        request.op = "LZ_RECEIVE_EXECUTE" =>
            \/ request.nonce \in burned
            \/ /\ IsExecuting(storage, request.nonce)
               /\ Leaf(storage, request.nonce).object = request.message

\* A packet that the OApp has executed is executed for the channel too, or
\* its success is still on the way to a channel that waits for it.
DeliveryIsRecorded ==
    \A nonce \in Nonces :
        deliveries[nonce] > 0 =>
            \/ POOOMarked(storage.executePOOO, nonce)
            \/ /\ IsExecuting(storage, nonce)
               /\ [op |-> "LZ_RECEIVE_EXECUTE_CALLBACK", nonce |-> nonce, success |-> TRUE]
                      \in toChannel

\* A msglib connection is told that a nonce is committed only when it is,
\* since it then drops the nonce from its own books for good.
CallbackMeansCommitted ==
    reply.op = "MSGLIB_CONNECTION_COMMIT_PACKET_CALLBACK"
        => POOOMarked(storage.commitPOOO, reply.nonce)

\* A step never evicts a packet from the queue to make room for another
\* nonce: a packet leaves by being executed or burned, or, unless it is
\* executing, by nilify.
PacketNeverEvicted ==
    [][\A slot \in Slots :
         LET before == storage.executionQueue[slot]
             after  == storage'.executionQueue[slot]
         IN  before.key # InvalidKey /\ after.key # before.key =>
                 /\ after = Vacant
                 /\ \/ POOOMarked(storage'.executePOOO, before.key)
                    \/ before.status = "committed"]_vars

\* The body-less packet with which nilify and burn reuse the commit handler
\* never outlives their transaction.
FakePacketNeverQueued ==
    \A slot \in Slots :
        storage.executionQueue[slot].key # InvalidKey
            => storage.executionQueue[slot].object \in Messages

\* The channel, with its windows, slots and messages in flight, does nothing
\* that the nonce-by-nonce promise of InboundNonces does not allow.
ImplementsInboundNonces == Inbound!InboundSpec

\* The frontiers and the answers that a connection sees are those on which
\* UlnConnection builds: whatever the queue, the OApp and the owner do.
ImplementsChannelFrontiers ==
    /\ \A connection \in Connections : Seen(connection)!FrontiersInit
    /\ [][\A connection \in Connections :
              [Seen(connection)!FrontiersNext]_(Seen(connection)!frontiers)]_vars

\* A packet that can be executed is executed, unless the owner nilifies it.
ExecutablePacketIsExecuted ==
    \A nonce \in Nonces :
        GetExecutablePacket(storage, nonce)
            ~> \/ POOOMarked(storage.executePOOO, nonce)
               \/ ~ DICQExists(storage.executionQueue, nonce)
=============================================================================
